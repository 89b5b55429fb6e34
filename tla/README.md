# Verification of the xv6-style teaching kernel

TLA+ modules for the kernel in `src/` (RISC-V, one hart, kernel threads only),
the TLC runs that check them and TLAPS proofs about them.  The reference is the
C and assembly code; comments and `note.txt` only enter as claims to be checked.

## 1. The system

| Component | State | Operations | Interacts with |
|---|---|---|---|
| Spin locks (`kernel/spinlock.c`) | `lk->locked`, `lk->cpu`; per cpu `noff`, `intena`; `sstatus.SIE` | `acquire`, `release`, `holding`, `push_off`, `pop_off` | every other component; interrupts |
| Processes and scheduler (`kernel/proc.c`, `swtch.S`) | `proc[NPROC]` (state, chan, parent, pid, xstate, context, pages), `c->proc`, `initproc`, `nextpid`, `wait_lock`, `pid_lock` | `scheduler`, `sched`, `yield`, `sleep`, `wakeup`, `create_process`, `exit_process`, `wait_process`, `userinit`, `forkret` | locks, timer, page allocator, page tables |
| Timer and traps (`kernel/trap.c`, `kernelvec.S`) | `ticks`, `tickslock`, CSRs `sepc`, `sstatus`, `stimecmp` | `kerneltrap`, `devintr`, `timer_interrupt` | preempts processes (`yield`), wakes sleepers on `&ticks` |
| Self test (`simple_task`, `init_task`, `main`) | two simple_task processes and init | create, wait, exit, check status 88 | process API |
| Page allocator (`kernel/mm/kalloc.c`) | `kmem.freelist`, linked through the free pages, `kmem.lock` | `pmm_init`, `freerange`, `alloc_page`, `free_page`, `alloc_pages` | process creation and reaping, page tables |
| Page tables (`kernel/mm/vm.c`) | trees of page-table pages | `walk_create`, `walk_lookup`, `map_page`, `unmap_page`, `create_pagetable`, `destroy_pagetable`, `kvmmap`, `kvminit`, `kvminithart` | page allocator, `proc_pagetable`, `proc_freepagetable`, `procinit` |
| Boot (`boot/entry.S`, `boot/start.c`, `main.c`, `kernel.ld`) | machine-mode CSRs, `stvec`, the timer, order of initialisation | `_entry`, `start`, `main` | everything |
| Output (`printf.c`, `console.c`, `uart.c`) | `printlock`, `noff`/`intena`, the UART's transmit FIFO | `printf`, `printint`, `printptr`, `panic`, `uart_putc`, `uart_puts`, `uartinit` | called from anywhere, handlers included |
| PLIC and UART interrupts (`plic.c`, `uart.c`, `devintr`) | PLIC priority, enable, pending, claimed; receive FIFO | `plicinit`, `plicinithart`, `plic_claim`, `plic_complete`, `uart_intr`, `uartgetc` | linked, not connected in this build: nothing calls `plicinit`, nothing sets `sie.SEIE`, and `kvminit` maps no page of the PLIC |
| User mode entry (`trampoline.S`) | the page at TRAPFRAME, `sscratch`, `satp`, the registers | `uservec`, `userret` | linked, not executed in this build, and not executable: `kvminit` does not map TRAMPOLINE |

What is hard here: kernel code can be interrupted wherever `SIE` is set, the
handler takes locks and may switch to another thread, and that thread inherits
the hart's `noff`, `intena`, `sepc` and `sstatus`.  A process stops running in
several steps (state, lock, swtch) that others must not observe half done.
`wait_process` and `exit_process` meet through `sleep`/`wakeup` and two kinds of
locks.  Resources (slots, pages) can run out in the middle of an operation.
`PROJECT.json` lists these hazards line by line.

What makes each part correct:

* locks: mutual exclusion; interrupts off inside; the interrupt state given back
  exactly; no assertion ever fails; on one hart nobody ever waits;
* processes: one runner; no half-stopped process is touched; no lost wakeup; no
  dangling parent; unique pids; every zombie with a parent is reaped; the table
  behaves as a tree of pids; pages are conserved;
* traps: an interrupted thread resumes where it was, with interrupts as it left
  them; `wfi` never sleeps through work; preemption starves nobody;
* page allocator: the list survives the memsets done outside the lock; every
  page is free, in one call's hands or owned by one thread; an owner's data stay;
* page tables: a translation appears or disappears in one step whatever a walk
  is doing; every page has one use; the kernel survives switching paging on and
  its stacks are guarded;
* boot: nothing an early timer interrupt uses is missing; `main` gets through;
* output: nothing lost or torn, a panic is reported (but for one window, see
  `HangsOnlyInWindow`), numbers read back, the format is followed to its end and
  not beyond;
* external interrupts, once connected: every character is read unless SIE stays
  off or the access to the PLIC faults, interrupts stop when devices do;
* user mode entry: a process gets back the registers it trapped with.

## 2. Modules

| Module | Models | State and actions |
|---|---|---|
| `Spinlock` | `spinlock.c`, any number of harts | one label per access to the lock word, the owner, `SIE` or `noff`/`intena`; `CallAcquire`, `CallRelease`, `CallMyproc` start a call, the other actions are its instructions; `TakeInterrupt`/`Sret` nest a handler that runs the same code |
| `MCSpinlock` | instance | two harts, two locks nested in one order; the kernel's cyclic order on its one hart is covered by theorem `OneHartNeverSpins` only |
| `SpinlockProof` | proofs | see section 5 |
| `Proc` | `proc.c`, the timer path of `trap.c`, `kernelvec.S`, one hart | thread 0 is `main`/`scheduler`, thread p the kernel thread of slot p; `pc[t]` is where a thread is, `cur` who is on the hart, `hart` holds SIE/noff/intena; one action per step between two points where something else can run |
| `ProcInv`, `ProcProof` | proofs about `Proc` | the inductive invariant and what each action does to it; the theorems |
| `ProcLive` | fairness and liveness for preempted tasks | |
| `ProcTree` | what create/exit/wait promise, in pids only | `Spawn`, `Disown`, `Exit`, `Reap` |
| `ProcRefinesTree` | refinement mapping from `Proc` to `ProcTree` | a slot is in the tree once it is past `USED`; the parent pointer is read as a pid |
| `ProcTreeProof` | proof of that refinement | |
| `SimpleTask` | `simple_task` and `init_task` on top of `Proc` | `stage[p]` is how far the function has got; every kernel step is Proc's |
| `PhysMem` | `kalloc.c` | `freelist`, `word[p]` (the first word of page p: a link or what a memset or an owner wrote), `lock`; threads that allocate, write and free, one action per access; `stack` is a history variable, the list as it should be |
| `PageAlloc` | what the allocator promises | sets of free, handed and owned pages: `Take`, `Give`, `Refuse`, `HandIn`, `Put` |
| `PhysMemProof` | proofs about `PhysMem`, its refinement of `PageAlloc` included | |
| `AllocPages` | `alloc_pages` beside `PhysMem` | its loop, lock free, one action per round; the caller gets the n pages linked from what it returns (`Given`) |
| `PageTable`, `MCPageTable` | `vm.c`'s tables, `proc_pagetable`, `proc_freepagetable` | `mem` holds the entries, `root` the tables, `calls` the map/unmap/destroy calls an operation has left; `walk_create` is a step per store |
| `PageTableProof` | proofs about `PageTable`, its refinement of `AddressSpace` included | |
| `AddressSpace` | what the tables promise the hardware | per table a map from addresses: `Map`, `Unmap`, `Destroy` |
| `Kvmmap` | `kvmmap` with `map_page`'s checks | the arguments, `a`, `last`, `pa`; `U64` and `SV39` are the numbers of addresses and of virtual addresses |
| `KernelMap` | `kvminit`, `kvminithart`, `procinit`'s stacks | the mapped regions, counted in pages, with the real addresses of `memlayout.h` |
| `Boot`, `MCBoot` | `entry.S`, `start`, `main`, composed with `KernelMap` | `pc` in the program, the steps `done`, the timer; the steps of `kvminit`, `kvminithart` and `procinit` are KernelMap's |
| `BootProof` | proofs about `KernelMap`, `Boot` and `Kvmmap` | |
| `Console`, `MCConsole` | `uart_puts`, `printf`, `panic`, the tick's output, exceptions | a stack of calls in progress on the hart, `printlock`, `noff`/`intena`/SIE, the UART's FIFO; `acquire` and `release` are a step per store, since an exception hits anywhere |
| `ConsoleProof` | proofs about `Console`, `Printint` and `Printf` | |
| `Printint` | `printint`, `printptr`, `va_arg`'s conversions | `x`, `buf`, one action per digit |
| `Printf` | the format loop | `i` and what has been looked at, fetched and handled |
| `ExtIntr` | `devintr`'s PLIC branch, `plic.c`, `uart_intr`, `uartgetc` | the PLIC's and the UART's registers, SIE, SEIE, whether paging is on, where `devintr` is; a claim may return the UART, the disk, a source nobody serves, or 0 |
| `Trampoline`, `MCTrampoline` | `uservec`, `userret` | registers, `sscratch`, `satp`, the frames at TRAPFRAME; after a `csrw satp` the code runs on only if the new table maps TRAMPOLINE (`Fetched`) |

`Boot` with `KernelMap`, `SimpleTask` with `Proc`, and `AllocPages` with `PhysMem`
are compositions: one state space, steps interleaved.  Two instance modules
also run parts beside the main one, each on its own: `unit`, fixed at the start,
says which (`MCBoot`: `Kvmmap` and `ExtIntr`; `MCConsole`: `Printint` and `Printf`).  These parts share no state with the
main one at the level they are modelled, so nothing would be gained by mixing.

Reading `Proc`: the prefix of a label names the function (`a_` alloc_process,
`u_` userinit, `c_` create_process, `s_` scheduler, `f_` forkret, `w_` wait_process, `sl_`
sleep, `e_` exit_process, `y_` yield, `t_` kerneltrap).  `home[t]` is the label
of the thread's own code: `s_init` for the boot thread, `w_acq` for init (its
loop calls `wait_process`), `run` for a task.  It stands for `context.s0`, which
`swtch` overwrites: if a thread is switched out before `forkret` has read its
entry point there, `home` becomes `none` (`Sched`, `ForkretCall`).

Abstractions in `Proc`, and why they are sound:

* With a lock held, SIE is clear and nothing else runs on the only hart, so a
  loop under a lock (`wakeup`, the scan of `wait_process`, reparenting) is one
  step, and `pid_lock`, `kmem.lock`, `printlock` are taken and released inside a
  step.  That every acquire finds its lock free is not assumed: the guards of
  `Acquire` and `Swap` demand it and `NoPanic` checks it; `SpinlockProof` proves the
  underlying fact (`OneHartNeverSpins`).
* `panic` is a state where the code can reach it (table full, out of memory, a
  task that returns, `forkret` preempted before it read its entry point); for
  assertions it is a guard, with `NoPanic` stating that the guard holds.
* Tasks are arbitrary code that may call the process API, sleep on `&ticks`, call
  `intr_on`/`intr_off`, or return, holding no lock; `Calls` selects which.  The
  tasks of the repository do none of the last four; `SimpleTask` is exactly them.
* A process's memory is a number of pages: one trapframe and the three
  page-table pages that map TRAMPOLINE and TRAPFRAME.
* A local variable is reset once dead.  `p->killed` is never set by any code.
* Operators commented `mutant:` are wrong versions of the definition that
  follows them.  They are used by no specification; each property is shown to
  fail when one of them replaces the real definition.

Abstractions in the other modules:

* `PhysMem`: of a page only the first word matters, the one the list uses.  An
  address is a small number, so that rounding and the bounds tests are real.
* `PageTable`: two entries per table instead of 512, still three levels.  A walk
  is done by one caller at a time (boot, or a process with `p->lock` held), and
  the hardware's view is `Translate`, the Sv39 walk, on every state in between.
  `alloc_page` panics when no page is left, as `kalloc.c` does.
* `KernelMap` counts pages: every address involved is page aligned.  Its
  assumption is that the memory below PHYSTOP holds the linked kernel and what
  boot allocates: at most three pages per process and 70 more.
* `Console`: characters are known by the call they belong to.  `panic` and an
  exception may hit anywhere, inside a `printf` that holds `printlock` and between
  the stores of its `acquire` and `release` too.
* `Printint`: `LL` and `INT` are the numbers of values of `long long` and `int`.
  What is assumed of them is true of 2^64, 2^32, `Nibbles` 16 and `BufSize` 20: `LL`
  is 16 to the `Nibbles`, and `buf[]` holds `LL` and, beside a sign, half of it.
* `Printf`: five kinds of characters stand for all.
* `ExtIntr` and `Trampoline` model code this build links and does not reach.
  What would connect it is external: boot code that calls `plicinit` and
  `plicinithart` and sets SEIE, `usertrap` and `usertrapret`, and the devices.
  `kvminit` maps neither the PLIC nor TRAMPOLINE.  In `ExtIntr` the boot code may
  run before or after `kvminithart`, and every access to the PLIC after it is a
  page fault and a panic (`PageFault`); tasks may leave SIE off for good
  (`Toggle`), as `simple_task_idle` shows they do.  In `Trampoline`,
  `KernelMapsTrampoline` says whether the kernel's table maps TRAMPOLINE.

## 3. Runs

| Run | What it asks | Bounds and why they are enough |
|---|---|---|
| `spinlock` | exclusion, interrupts, restoration, no panic, no deadlock, no waiting for oneself | 2 harts, 2 locks: contention, nesting and a handler on each hart all occur; symmetric harts |
| `preemption` | assertions, one runner, interrupt state, traps, `wfi` | 3 slots (init, a task, its child), pids up to 6: slot reuse and a full table; tasks use every call and may return; the timer fires anywhere, before `forkret` has called its task too |
| `process_tree` | wakeups, parents, pages, refinement of `ProcTree` (which needs unique pids) | 5 slots and 16 pages for at most 4 processes: the only way to inherit a zombie while init sleeps on another child needs four live processes and five pids; the fifth creation runs out of memory |
| `liveness` | starvation, sleepers on `&ticks` (out of `wfi` too), orphans, return of `wait_process` | 3 slots, no slot reuse and no returning task, so that the only panic is that of a preempted `forkret`, which each property allows for; only tasks with a parent sleep on `&ticks`, which still has every process asleep at once |
| `simple_task` | does the repository's test pass? | the program as it is |
| `simple_task_idle` | does the scheduler regain control? (violation) | the program as it is |
| `page_allocator` | is the list intact, is each page in one place, do an owner's data stay; refinement of `PageAlloc` | 2 threads, 4 pages, an `end` inside a page, stray addresses (0 among them) below, inside and above the range |
| `alloc_pages_shared` | does `alloc_pages` take what it returns off the list? (violation) | one thread, five pages, n = 1 and n = 2 |
| `page_tables` | one use per page, no panic in unmap and destroy, refinement of `AddressSpace` | 9 pages for two tables that need more: memory runs out in every walk; addresses that share none, one or both upper levels |
| `trampoline_shared` | are a process's registers restored with the mapping of TRAPFRAME `proc_pagetable` makes? (violation) | 2 user processes whose register contents differ by process, register and time; a kernel that maps TRAMPOLINE, since without it user mode is not reached and nothing about TRAPFRAME would show |
| `console` | output lost, torn, silent panics; where `printf` can hang; conversions; formats | one call, one tick, two exceptions: an exception inside the report of another; a 20-bit `long long` (arguments `MCRaws`: around every power of 2 and of 10) with a `buf[7]` that, like `buf[20]` for 64 bits, is exactly long enough for the longest unsigned number and for the longest negative one; formats up to 5 characters |
| `boot` | may the timer come too early, is the kernel's map sound, does boot end; `kvmmap` for all arguments; external interrupts if they were connected | the real program with 64 stacks and 4 kernel sizes; a tick between any two steps after the first millisecond; every `va` and `sz` of 5 bits (`U64` = 32) with 4-bit virtual addresses (`SV39` = 16) and 4-byte pages, so that overflow, aliasing and every alignment occur; 3 characters of input, a 2-deep FIFO, 2 transmit interrupts, a disk interrupt, 2 of a source nobody serves |

`MaxPid` bounds the pids tasks create, `MaxCalls`, `MaxTicks`, `MaxFaults`,
`MaxInput`, `MaxOutput`, `MaxDisk`, `MaxStray` what may happen from outside, `MaxLen` the
length of a format, `TickGap` the steps between two ticks; `Statuses`,
`TotalPages`, `Strays`, `PAs`, `Procs`, `Values`, `Raws` are small sets or numbers.  There is no other bound.
Deadlock is checked in every run: the system never stops, since `panic` loops,
and a sequential part that has returned is given an explicit step to stay there.

`Slack` in `Boot` is an assumption about time: `start` arms the timer 10,000
cycles ahead and sets SIE before `main` has set `stvec`.  With three steps or
more before the timer expires (`mret`, `uartinit`, `trapinithart`: a few hundred
instructions) `HandlerReady` holds; with `Slack = 2` it fails.

### Findings

`simple_task_idle`.  `scheduler()` enables interrupts for an instant, disables
them, and then acquires `p->lock`; `push_off` therefore records "interrupts
off", and the process it switches to runs with SIE clear for good, because no
task calls `intr_on`.  After its test the tester loops forever; the timer stays
pending, and neither init nor anyone else runs again.  The comment above
`scheduler()` says that a process eventually transfers control back, and
`kerneltrap` is written to preempt.  Exploring tasks that do call `intr_on`
(`preemption`, `liveness`) shows that the rest of the mechanism is sound, and
that a thread created later starts with whatever interrupt state the last
process left in the scheduler.

`alloc_pages_shared`.  `alloc_pages(n)` moves the head of the free list n - 1
times, so that the last of its n pages stays on the list.  The trace is a single
call of `alloc_pages(1)`: the page it returns is still the head, and the next
`alloc_page` returns it again, which the assertion of `test_physical_memory`
(`kalloc.c:105`, `page1 != page2`) excludes.  Nothing calls `alloc_pages` yet, and
`defs.h:25` calls it not correctly implemented.  It also takes no `kmem.lock`,
which `note.txt:7` asks for; that is read off the code, the run has one thread.

`trampoline_shared`.  `proc_pagetable` maps TRAPFRAME to the physical page at
PGSIZE in every process, not to `p->trapframe`: `userret` would load registers
nobody stored.  `trampoline.S:32` explains why each process needs its own frame.
The run grants a second thing the code does not do, a kernel table that maps
TRAMPOLINE: as it is, the first return to user mode would already fail to fetch
`userret`.  Nothing is claimed about `trampoline.S` with other mappings.

Seen while modelling, stated here only:

* `alloc_page` panics on an empty list (`kalloc.c:70`); `kalloc.c:71` says it
  returns 0, and the cleanup its callers have for that (`proc.c:81`, `vm.c:33`)
  never runs.
* `kvminit` does not map TRAMPOLINE; `memlayout.h:42` says it is mapped in user
  and kernel space, and `trampoline.S:5-8` relies on it.  `MapSound` leaves open
  whether it is mapped.
* `kvminit` does not map the PLIC (`vm.c:157-165` map text, data and the UART), so
  `plic_claim` and `plic_complete` would be page faults after `kvminithart`.  Nothing
  reaches them: SEIE is never set, and tasks run with SIE clear.
* `forkret` reads `p->context.s0` after it released `p->lock`.  If the thread starts
  with interrupts on and is preempted in between, `swtch` has stored `sched`'s frame
  pointer there, and `forkret` jumps into its stack and panics.  A thread starts
  with interrupts on only after some task has called `intr_on`, which no task of
  the repository does.  `NoPanic` says that with interrupts off the entry point is
  there; the liveness properties end in "or panicked" because of it.
* An exception other than a page fault that hits `acquire(&printlock)` or its
  `release` between the store to `locked` and the one to `cpu` is not reported:
  `kerneltrap` calls `printf` before `panic`, `holding` is false, and `acquire` waits
  for a lock this hart has.  `HangsOnlyInWindow` shows that this is the only way
  the output can hang; `PanicReported` excepts it.
* `kernel.ld:42` puts `ebss` before `*(.bss)`: `entry.S` clears `.sbss` only, and
  zero locks and tables in `.bss` are the loader's doing (`LoaderZeroes`).
* `nextpid` wraps after 2^32 creations; then a pid is no longer unique.
* The endless loop `note.txt:18` fears in `kvmmap` when `va + sz` overflows does
  not happen (`Completes`): `a` comes round to `last`, or `map_page` meets an
  entry it has written and panics.

## 4. Fairness

* The hart keeps executing: weak fairness of kernel steps (and of the program's
  steps in `SimpleTask`; in `ProcLive` tasks may compute forever).
* The timer runs out: weak fairness of `TimerExpire`; `timer_interrupt` re-arms
  it every time.
* A pending interrupt is taken at one of the moments SIE is set: strong fairness
  of `TakeInterrupt`.  The RISC-V privileged architecture has the hart evaluate
  pending interrupts after every write of `sstatus` and every `sret`; without
  this the instant between `intr_on()` and `intr_off()` in `scheduler()` would be
  worthless.
* Interrupted code gets on: strong fairness of the steps outside handlers.  The
  timer is re-armed 10,000,000 counts ahead, about a second, so a handler is not
  followed by another interrupt forever.
* `Console`: the hart executes, the UART sends what it was given.
* `Boot`: the hart executes; a pending interrupt is taken before the next step.
* `ExtIntr`: the handler executes (weak fairness), each gateway of the PLIC
  latches a line that stays up (weak fairness, per source), and an interrupt
  that is pending and enabled again and again is taken (strong fairness of `Trap`).
  Nothing makes the connecting boot code run or SIE be set again:
  `InputConsumed` is conditional on SIE and SEIE being set again and again, and
  `StormEnds` on the line of the source nobody serves staying down at last.
* `Kvmmap`: the loop executes.
* In `ProcLive` only: tasks turn interrupts on at some point.  This is an
  assumption on tasks, not a fact about `simple_task`.

## 5. Proofs

`SpinlockProof` proves, for every set of harts and every finite set of locks,
the six invariants of run `spinlock`, and, as a corollary of the last one, that
with one hart `acquire` never waits (`OneHartNeverSpins`), whatever order locks
are nested in: the kernel nests `wait_lock` and `p->lock` both ways.  The only
assumption is `SpinlockAssumption` (the null values are not harts or locks, the
locks are finitely many).

None of the invariants is inductive.  While `acquire` or `release` is half way,
`locked`, `owner` and the caller's critical sections disagree, and what
`pop_off` will restore depends on the count.  The inductive invariant `IInv` is
`TypeOK /\ LockInv /\ NestInv`:

* `LockInv`: a lock word is set exactly when one hart possesses the lock, where
  a hart possesses what it is inside of and what a half-done call has won or not
  yet given back; no two harts possess the same lock; `lk->cpu` names the hart
  from the end of `acquire` to the second step of `release`.
* `NestInv`: `noff` is the number of locks held plus one between a call's
  `push_off` and `pop_off`; SIE is clear when `noff > 0`; `intena` (or, before
  it is written, `old`, or with nothing pushed SIE itself) is the state the code
  wants; a handler only ever interrupts code that is before its `intr_off`.

`TypeStep`, `LockStep`, `NestSelf` and `NestOther` show that each of the sixteen
actions keeps it, `Interruptible` is the fact about where interrupts can hit.

`PhysMemProof` proves, for any finite number of threads, pages and owners' data,
that the free list is intact whenever `kmem.lock` is free (`ListIntact`), that
every page is in one place (`PageOnce`), that what an owner wrote stays
(`OwnerData`), and that `PhysMem` implements `PageAlloc` (`Implementation`), from
`PhysMemAssumption` alone.  The list itself is not inductive: between the read
of `freelist->next` and the store of it, and between the memset and the push,
only the locals of the call say where the page is.  The invariant is `TypeInv`,
`LockInv` (who holds `kmem.lock` at which label), `FreeListIntact`, `CallInv` (what a
call's locals are worth at each label), `RangeInv` (an accepted address is one
of the pages) and `PlaceInv` (free, in a call's hands or owned: exactly one of
them).  Attempting this proof showed that the model had one label for two
panics, after which `free_page`'s page could not be placed; they are now
two.

`ProcInv` and `ProcProof` prove the invariants of runs `preemption` and
`process_tree` and `TrapTransparent` for any size of the process table, any set of
calls a task may make and any number of pages, under `ProcAssumption`:
`TypeCorrect`, `Assertions` (`NoPanic`), `Runner` (`OneRunner`), `InterruptState`,
`Child` (`ChildStillThere`), `Idle`, `NoLost` (`NoLostWakeup`), `Parents`
(`ParentAlive`), `Pages` (`PagesConserved`) and `Trap`.  The inductive invariant
`IInv` has these parts, each needed by the ones after it:

* `CtlInv`: who is on the hart; the scheduler is in `s_back` exactly while a
  process runs, and a process that is not running stands at a point where it
  called `sched` (or has never run, or is dead).
* `LockInv`: which lock the running thread holds at each label.  `NoPanic` is a
  consequence: every `acquire` finds its lock free, and `sched` exactly one held.
* `IrqInv`: SIE, `noff` and `intena` agree with that lock, and a thread inside a
  handler has the interrupted place and the interrupt state saved.
* `StateInv`: what each `p->state` says about the place where the thread is, so
  that a half-stopped process is never picked up.
* `InitInv`: init exists, never exits, and is in its loop of `wait_process`; a thread
  has its entry point in `home`, which only a preempted `forkret` that started with
  interrupts on has lost (`HomeInv`).
* `PassInv`: slots the scheduler has passed without `found` are not runnable,
  because nobody can have run since; this gives `Idle`.
* `TreeInv`: parents are live processes created earlier, pids are unique and
  below `nextpid`, what a creating thread holds is a slot nobody else uses.
* `WakeInv`: a sleeper in `wait_process` has a child that is not a zombie, or the
  exiting child is still to call `wakeup`.
* `PageInv`: pages are conserved, and a used slot has all its pages.

`ProcInv` holds the invariant, a lemma per action or group of actions that
states its effect, and the steps for control, locks and interrupts;
`ProcProof` the other steps and the theorems.

`ProcTreeProof` proves that `Proc` implements `ProcTree` (`Implementation`).  Five
actions are steps of the tree (the ends of `userinit` and `create_process`, the
reparenting, the zombie state, the reaping); all others leave the mapped
variables alone.  Because pids are unique (`TreeInv`) a parent pointer can be
read as a pid.  Beside `IInv` it needs `ExitInv`: a slot is given back with
`xstate` cleared, and an exiting process holds the status it was called with.

`BootProof` proves `MapSound` and `SurvivesPaging` for every NPROC and every size
of the kernel `KernelMapAssumption` allows (`Sound`, `Survives`): `MapInv` says what
every region is (`RegionInv`) and counts the pages allocated (`TableInv`), so that
a kernel stack can never be a page of the kernel.  `Ready` proves `HandlerReady`
under the two hypotheses the code leaves to its surroundings, `LoaderZeroes` and
`Slack >= 3`; `BootInv` ties the steps done to the place in the program and
counts the steps the timer still leaves.

`ConsoleProof` proves `OutputIntact` (`OutputSafe`, if the FIFO takes two characters;
the 16550's takes 16), `PrintfNeverPanics` (`PrintfSafe`) and `HangsOnlyInWindow`
(`HangsInWindow`), for any length of message and any number of calls, ticks and
exceptions.  The invariant says who
can have run on top of an interrupted call: `ShapeInv` (a tick only ever sits on
a call that holds no printlock; nothing returns to what an exception hit),
`NestInv` (SIE set means `noff` 0 and printlock free; who prints holds it),
`FifoInv` (at most one character is queued when `uart_putc` writes), `IdInv` (under
which names a call can have printed so far), `RunInv` (what the call on top
has printed is the end of what was sent) and `WinInv` (a lock that is taken and has
no owner means that some call, the one on top or an interrupted one, stands
between the two stores).

`PageTableProof` proves, for any number of frames, any index set, and any mappings
the callers ask for (`PageTableAssumption`, `MapsAssumption`: a caller maps a page
of its own or one that is not the allocator's; in a user table only
`proc_pagetable` does the latter), that every page has one use (`OneUse`), that
no call panics but for want of memory (`NeverPanics`), and that the tables
implement `AddressSpace` (`Implementation`).  `EachFrameOneUse` speaks of the pages
reachable from a root, and reachability is not inductive.  The invariant `Inv`
has three parts:

* `Shape`: every page can be given a kind (its level as a table, leaf, free, in
  hand), a table and the one entry that points to it, such that kinds and
  entries agree both ways (`Tree`).  These functions are no state of the model;
  `Shape` says they exist, and the lemmas `TreeTake`, `TreeRoot`, `TreeSet`,
  `TreeHang` and `TreeDestroy` say how a store changes them and what
  `walk_lookup` then finds.  `TreeHang` is where the memset before the link is
  needed, `TreeDestroy` where the unmapping before the destruction is.
* `Stage`: which calls are left, and what the user table maps to pages that are
  not the allocator's: TRAMPOLINE and TRAPFRAME between operations, fewer while
  `proc_pagetable` or `proc_freepagetable` is at work.
* `Locals`: `pt` and `level` are on the way to `va` in the table, the entry a new
  page will go to is still invalid, the new page is cleared before the link.

The refinement then needs only that the hardware's walk and `walk_lookup` agree
(`TransView`): no entry of an upper table has permissions.

The sequential parts are proved about in the proof modules of the components
they belong to.  Each of them is a loop, and its invariant says what the rounds
done so far have achieved.

* `MapsRange` (`BootProof`): `MapsExactly`, for any page size and any `U64` and `SV39`
  that are multiples of it.  `KInv`: what is mapped is the part of the range below
  `a`, and `a` has not passed `last`; the rest is arithmetic modulo `U64` (the
  lemmas `Division` to `WrapAligned`).
* `PrintsNumbers` (`ConsoleProof`): `PrintsValue`, for any register contents and any
  widths `PrintintConstants` allows.  `NInv`: dividing the magnitude has produced
  the digits in `buf[]` and left `x` (`Divided`), and `x` is below 10 to the number
  of places left, so that the loop ends before `buf[]` does; what is printed and
  what is still in `buf[]` make up the number (`Split`); what `printptr` has shifted
  out and what is left make up the pointer (`Shifted`).
* `FormatWalk` (`ConsoleProof`): `FormatFollowed`, for formats of any length.  `FInv`:
  what has been handled is the text up to `i`, one argument was fetched for each
  conversion up to `i`, and an even number of percent signs stands directly
  before `i` (`Edge`), without which `%%d` could not be told from `%d`.

These proofs need facts about every number of digits and every power.  The
induction theorems of the library cannot be used for them (they take an operator
as a parameter), but the existence of a minimal element in a well-founded order
can: `Least`.  A statement is shown by refuting the least counterexample, as in
`HornerUnique` (what a string of digits is worth) and `PowersExist`.

Every invariant, action property and refinement that a passing run checks is now
also proved.  Model-checked only are the liveness properties (`NoStarvation`,
`OrphansReaped`, `WaitReturns`, `TestPasses`, `PanicReported`, `InterruptsServed`,
`Completes`), since fairness and ENABLED are outside the prover's reach, and with
them `ExtIntr` and `SimpleTask`, which are only there for such properties; and the
three violations, `AllocPages` and `Trampoline` with them.

## 6. Not modelled

* Weak memory order: fences are taken at their word.
* More than one hart in `Proc` (NCPU is 1; with two harts the lock order p->lock /
  wait_lock of `create_process` against `exit_process` would deadlock).
* The depth of kernel stacks (a property of the compiled code), terminal escape
  sequences, the wording of messages.
* `dump_pagetable`, `test_virtual_memory` and `walk`: they print, or call what is
  modelled, and nothing calls them.
* `kernel/mm/spinlock.c`, an identical copy of `kernel/spinlock.c` that is unused.
* 32-bit wrap of pids.

## 7. State

Everything planned is modelled, checked and, where the prover reaches, proved.
What could be added: the 32-bit wrap of pids, which needs pids that are reused in
`ProcTree`; and more than one hart in `Proc`, once the code supports it.
