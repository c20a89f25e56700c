# Domovoy in TLA+

Domovoy is a diagnostics library linked into a C++ program. It tracks heap
allocations and file descriptors, watches for busy threads, and catches crashes.
It does this from inside the process it watches: its hooks run on every thread of
the application, its pool must not depend on the application's heap, and it may be
switched on and off again while all of that goes on. This directory holds TLA+
models of those parts, TLC runs over small instances, and TLAPS proofs.

Paths below are relative to the repository root. Line numbers of the code each
definition models are in `PROJECT.json` under `map`.

## The system's parts

| part | state | operations | what makes it hard | what makes it correct |
|---|---|---|---|---|
| IsolatedAllocator (`src/allocator.cpp`) | list of OS mappings with a bump pointer each, one mutex | Initialize, Allocate, Deallocate (ignores its arguments), Shutdown | every other part allocates from it, on any thread; the list grows under the lock; mmap may fail | ranges in bounds, disjoint, aligned; lock always released; no growth while there is room |
| allocation hooks (`src/memory/linux_alloc_hooks.cpp`) | `g_allocations`, the real functions' pointers, the bootstrap buffer | malloc, free, calloc, realloc, memalign, posix_memalign | no lock covers the real call and the map; addresses are reused at once; leak detection is switched on and off by sessions | the map agrees with the heap: no entry without block, no tracked block without entry |
| MemoryAnalyzer (`src/memory/memory_analyzer.cpp`) | none | RunLeakDetection: enumerate, filter, sort, group, resolve types | walks the map without a lock; reads the reported blocks | the report names exactly the live tracked blocks |
| IoMonitor and IO hooks (`src/io/`) | `enabled_`, `open_fds_`, a mutex | Enable, Disable, OnOpen, OnSocket, OnClose, ReportLeakedFds; open*, socket, close | `enabled_` is read without the lock; the report is written with it held; descriptors are reused | tracked descriptors are those open; no leak missed, no closed descriptor named |
| CpuMonitor (`src/profiler/cpu_monitor.cpp`) | `running_`, a thread, per-thread times | Start, Stop, MonitorLoop, CheckThreadsForHighCpu | a thread of its own beside Init and Shutdown; thread ids are reused | it ends when asked; reports the threads that spin and no others; never uses a dead reporter |
| CrashHandler (`src/crash_handler.cpp`) | `installed_`, saved signal actions | Install, Uninstall, HandleCrashSignal | runs in a signal handler, may interrupt the allocator; chain to the application's handler | the application's handlers come back; a crash is reported and ends the process |
| DomovoyCore (`src/core.cpp`) | `initialized_`, `config_`, `reporter_` | Init, Shutdown | starts and stops all of the above; a step may throw | enabled parts run, Shutdown ends and leaves nothing |
| JsonFileReporter (`src/reporter.cpp`) | output directory | one Report method per kind, WriteToFile | file names from a millisecond clock | no report lost |

They interact by calls: Init and Shutdown call each part; hooks read
`DomovoyCore::GetConfig()` or IoMonitor's flag; the analyzer, the monitors and the
crash handler report through `DomovoyCore::GetReporter()`; everything is allocated
through the pool.

`PROJECT.json` lists, under `hazards`, where each of these can go wrong, with the
properties that would notice.

## Modules

`RangePool` is the abstract specification of the pool, a set of address ranges held by
callers: hand one out, give one back, take all away.

`IsolatedAllocator` is `src/allocator.cpp`. `blocks` is the list from `head_block_`
with `memory`, `size` and `used` of each block; `pc`, `req`, `curr` and `hit` are each
thread's place and locals in Allocate; `live` is what callers hold. Allocate is split
at the lock, the implicit first block, each turn of the loop, the bump, and the growth.
Initialize and Shutdown are one critical section and one step each. Each mapping goes
to an address of `Bases` that overlaps no other, as the kernel's choice.

`AllocHooks` is the Linux hooks together with the enumeration. `heap` is what the C
library really has allocated, `tracked` is the map. A hook is a few steps: the real
call, the read of the flag, the update of the map. `ReallocOutcomes` says what the C
library's realloc may do (stay in place, move, fail, release for size 0). `CoreInit`,
`BeginScan`, `Visit`, `EndScan` and `CoreShutdown` are the core's session around it.
The history variables `seen` (the hook found leak detection enabled) and `quiet` (no
hook ran since the enumeration began) are read by no guard and only serve properties; so
does `displaced` (a realloc has moved, failed or released its block).

`OnceInit` is the abstract specification of a lazy initialisation: one thread wins, looks
every function up once and publishes; a real function is called only when it has been
looked up. `HookInit` is what the two hook files do before that can be taken for granted:
`EnsureInit`, `InitHooks` and the bootstrap buffer, and `EnsureIoInit` with
`InitIoHooks`. `part` says which of the two a behaviour is about. Each thread has a
`stack` of hook calls, because dlsym calls malloc, calloc and free on the thread that is
inside `InitHooks`. `bootstrap_idx` and `in_dlsym` are plain globals in the code. The index
is read for the check of the room (`BootCheck`), for the pointer (`BootTake`) and for the
addition (`BootLoad`), and stored (`BootStore`): each is a step, and a build that keeps the
index in a register is the case in which nothing happens in between. `raced` is history: a
thread passed the check while another was behind its own and had not stored yet.
`OnceSpec` is the refinement.

`LeakReport` is `RunLeakDetection` behind the enumeration: filter, sort, and the loop
that groups the leaks, one step per leak. `InOrder` is what `std::sort` promises. The
properties say what the report is, without a loop and without a sort. `resolve_type` is
modelled by the pointers it follows and what becomes of them; what memory holds is
arbitrary.

`IoMonitor` is `IoMonitor` and the Linux IO hooks, in the same style: `files` is the
kernel's table, `open_fds_` the map. `mutex_` is only held across steps by the report.
`CloseUnhooked` is a descriptor closed by a call that has no hook (fclose, dup2).

`DomovoyCore` is Init and Shutdown, one action per step of the main thread (`ctl`), an
action for each exception that can leave it, and the profiler's thread. EnsureInit of
the hooks is one step here; if it throws, `hooks_initializing` stays set and the next
Init spins forever, so the model has no step there.

`JsonFileReporter` is `src/reporter.cpp`: a directory that may not be writable, and files
named after the kind of report and the millisecond. `OpenReport` creates or truncates the
file and `WriteReport` puts the text into it later, as `std::ofstream` does; the content of
a file is the set of reports written since it was truncated. The module has no behaviour of
its own; the two modules that report from other threads extend it.

`CpuMonitor` extends it with the profiler: the sleep, the list of tasks, and for each
task the read of `stat`, the read of the clock and the verdict. The kernel's account of a
thread is exact, `stat` shows whole ticks of user and system time, and the monitor may be
held up between `stat` and the clock. Threads end and ids are used again (`gen` tells
them apart; the code cannot). The difference of times is modulo `Modulus`, 2^64 in the
code (65,536 in the run), and the clock stays below it (`MaxTime`). `truth` and
`verdict` are history: what the thread really used, for an id that changed hands all that
the new thread has used, and whether the time that `stat` shows has fallen.

`CrashHandler` extends it with Install, Uninstall and the signal handler, a stack of
`frames` for each thread, the kernel's table of actions `disp`, and as much of the core
as owns the reporter. `mutex_` stands for the locks of the C heap and of the pool; a handler
takes it (`Allocate`) while it puts the report together, opens the file and writes it, and
a fault that comes meanwhile nests another handler on a thread that holds the lock. A fault
of a signal whose handler is running ends the process; SIGABRT is different, since `abort`
(of glibc before 2.41, such as that of the repository's Ubuntu 22.04) unblocks it first.
The reporter's clock is any of `MaxMs` milliseconds at each reading: `system_clock` may stand
still or be set back.
A thread may crash inside an allocator, inside a handler, on a full stack, or while
Shutdown is between Uninstall and the end of the reporter.

`MC*` modules give constants their values. `*_proofs` modules hold theorems.
Operators marked `Mutant:` are faulty variants of the operator that follows; nothing
uses them except the mutation check listed under `mutants` in `PROJECT.json`, which
shows that each property notices a plausible mistake in the code.

## Runs

| run | cfg | states | result |
|---|---|---|---|
| allocator | MCIsolatedAllocator | 128,886 | in bounds, disjoint and aligned, refines RangePool, grows only when full, lock released |
| hooks | MCAllocHooks | 1,164,452 | first session: entries true of the heap, undisturbed report sound; until a realloc displaces a block: map complete, report exact, entries leave only in hooks that own the pointer |
| hook_init | MCHookInit | 167,316 | refines OnceInit, bootstrap blocks inside the buffer and disjoint unless two threads race in it, hooks return |
| leak_report | MCLeakReport | 13,264 | summary and details exact |
| io | MCIoMonitor | 161,392 | tracked descriptors stay tracked, no leak missed, none falsely reported in the first session, Shutdown ends |
| cpu | MCCpuMonitor | 5,576,247 | alarms justified, spinning threads caught |
| crash | MCCrashHandler | 559,578 | crashes leave a report unless its file has just been truncated by another one, and end the process unless one came inside an allocator |
| core | MCDomovoyCore | 12,627 | reporter outlives its users, enabled parts run, Shutdown returns and leaves nothing |
| hooks_realloc | MCAllocHooksRealloc | | violated: see below |
| hooks_sessions | MCAllocHooksSessions | | violated: see below |
| io_race | MCIoMonitorRace | | violated: see below |
| hook_init_race | MCHookInitRace | | violated: see below |

The passing runs take between a few seconds and two minutes with two workers; the others
stop at their counterexample within seconds.

Four runs show where the code does not do what its documentation says:

* `hooks_realloc`: `realloc` calls the real function first and removes the old entry
  afterwards. If the block moved, another thread may already own the old address and
  loses its entry; if realloc failed, the block is still there and loses its entry.
* `hooks_sessions`: `free` leaves the map alone while leak detection is off, and the map
  is never cleared. A second session reports, and reads, blocks freed in between.
* `io_race`: `OnOpen` tests `enabled_` before it locks. An entry inserted behind
  Disable's swap is reported by the next session although its descriptor is closed.
* `hook_init_race`: two threads in the bootstrap at once are given the same bytes
  (`BootBlocks`). If the second takes its pointer after the first has moved the index, it is
  given bytes past the end of the buffer, for which the first had left no room.

This is why `EntriesTrue`, `ReportSound`, `ReportExact` and `ReportedAreOpenFirst` speak
of the first session, and `CompleteInPlace` and `ReportExact` of behaviours in which no
realloc has displaced a block.

For the same reason `BootSafe` speaks of behaviours in which no two threads raced.

Other windows have no run of their own. The models have them, and a property that meets
one names it as its exception: it says that nothing else goes wrong there, and does not
catch the window itself. Without its exception TLC finds each of the first five properties
violated:

* `HooksReturn`: while dlsym looks up `free`, `real_malloc` is set and `real_free` is
  not. If dlsym frees a block of the C heap there, its thread spins in EnsureInit for
  the initialisation that it is itself in (`SelfWait`). If the pool throws in InitHooks,
  `hooks_initializing` stays set and whoever comes to EnsureInit spins (`failed`).
* `DetailsExact`: if every leak has size 0, their group has no `size`, since the loop
  starts with `current_size = 0` and never opens the group.
* `AlarmsJustified`: the id of a thread that has ended may go to a new one. If that one has
  used less CPU time, the unsigned difference is huge and the idle thread is reported.
* `CrashReported`: the file name is made of the millisecond, and opening it truncates it. A
  second thread that crashes in the same millisecond truncates the report of the first, and
  if the first ends the process before the second has written, the file is empty
  (`Truncated`). Crashes after Shutdown has begun are left out as well: their handler may
  find the reporter destroyed.
* `CrashEnds`: a thread that crashes inside an allocator, be it in the application's call or
  in one of its own handler, waits for a lock that it holds (`Wedged`); and a signal that the
  application ignores is raised forever (`NotDefault`).
* `EnabledPartsRun`, `ShutdownLeavesNothing`: a part whose own start threw stays off, and
  behind an Install that threw the application's handlers are lost.
* `ReportSound`, `ReportExact`: enumerations that a hook disturbed (`quiet`).

Some more that the models show and no property speaks of: the hooks map the pool's first
block before `Initialize`, so that on Linux the configured capacity is ignored; two busy
threads of one sample whose reports come in the same millisecond leave one file; a second
thread's crash may be cut short by the end of the process; a stack overflow outside the
thread that called Init has no handler.

### Bounds

* allocator: two threads; a minimum block of 8 bytes, requests of 2 and 6 and
  alignment 4, at bases that need padding, so that a request fits with and without
  padding, fills a block, and makes the pool grow up to three blocks; a fourth mapping
  is refused, which leaves only `BadAlloc`. The proofs remove these bounds.
* hooks: two threads and two addresses: the shortest race is one thread between the
  real call and the map and another that reuses the address. Sizes 0 and 1 (and 2 for
  calloc) give realloc its size 0 case and in-place changes of size. `MaxSessions = 2`:
  the second session meets what the first left. Addresses are symmetric.
* io: three threads (one inside Shutdown, one opening, one closing), two descriptors,
  two sessions.
* hook_init: two threads; a buffer of five bytes and requests of two: two fit, and a third
  would overrun the buffer if it were not refused; one call per dlsym. Of the six functions
  of each part four and two are kept, in the code's order: the others only add look-ups of
  the same form at the end. The proof of `BootSafe` has any sizes.
* leak_report: four addresses, sizes 0, 1 and 2 with a word of 2 bytes, two samples per
  group: groups of one to four leaks, below, at and above the limit of samples; pointers
  into a module and elsewhere.
* cpu: the program's numbers, in units of 5 ms: a tick of 10 ms, a sleep of 500 ms (and
  5 ms late). Two threads: one sleeps, runs for 90% of the time or spins in each interval,
  the other one spins (`Shares`). Three samples, one delay of 25 or 100 ms, one exit, one
  restart of the monitor, at most 2 s (`MaxTime`), which three samples do not use up.
  `Slack` (30 ms) is as much delay as a thread that spins may meet and still be caught;
  `MonitorAssumption` relates it to period and tick.
* crash: two threads, one signal raised by an instruction and one by abort, handlers nested
  two deep. All crashes come in one millisecond, where their reports meet in one file; the
  proof of `CrashReported` has any number. Actions are default or the application's own; to
  Domovoy's handler an ignored signal, or SIG_DFL with SA_SIGINFO, is the same as a handler
  of the application that returns.
* core: `MaxInits = 3`, so that two calls may throw before one succeeds, or two sessions
  follow each other behind a failure. A capacity above and one at the minimum.
  When the calls of Init are used up the model stops, and so does a main thread that
  spins in EnsureInit: CHECK_DEADLOCK is off here, and in the runs where the system
  itself comes to an end or to a standstill (a finished report, an ended process, threads
  that spin in EnsureInit, the monitor's bound on samples).

### Fairness

* allocator: weak fairness of the steps of a thread that holds the lock, since the
  kernel keeps scheduling it. No thread has to call, and none is promised the lock:
  std::mutex is not fair.
* io: weak fairness of the steps of Shutdown.
* hook_init: weak fairness of each thread's steps inside a hook. Nobody has to call one.
* crash: weak fairness of the step out of an allocator and strong fairness of a thread's
  handler: a handler that waits for an allocator gets its lock in the end when it is
  free again and again. std::mutex does not promise that, but the crashing threads are
  finitely many and the kernel wakes waiters.
* core: weak fairness of the steps of Shutdown and of the profiler's thread, and
  strong fairness of the end of a sample: a sample visits the finitely many entries of
  `/proc/self/task`, so it does not find busy threads forever. Init has no fairness.

The hook runs check safety only: the hooks block on nothing but the submap locks, which
are held for one step.

## Proofs

Every safety property of the passing runs, invariant or action property, is proved for
every value of the constants, and so are the two refinements. A proof module begins with
the parts of its inductive invariant `IInv`, which TLC has checked as an invariant of the
component's run; then come the lemmas, one per action or one per part, and last the
theorems. Where a part says little about the code (types, what a step's arguments look
like) it is there because the provers need it.

`IsolatedAllocator_proofs`: the allocator is well typed, in bounds (`InBounds`), hands
out disjoint aligned ranges (`LiveDisjoint`), grows only when full (`GrowOnlyWhenFull`),
and implements `RangePool` (`PoolSpec`). Assumptions: alignments are positive and at most
half the minimum block (`BlockAssumption`), which is what makes the unchecked first
request of a grown block fit; a mapping starts behind room for its header; mmap returns
memory that overlaps no block. `InBounds` and `LiveDisjoint` are not inductive, since
Bump uses what an earlier step computed. `IInv` adds the lock discipline (`LockInv`:
exactly the holder is in the critical section), that mapped blocks do not overlap
(`Layout`), that the address and padding a thread has computed still describe its block
(`HitInv`), and that the blocks a scan has passed have no room (`ScanInv`). Alignment is
by division, which for powers of two is what the code's mask computes.

`AllocHooks_proofs`: no lock covers a hook, so the argument is one of ownership. A block
is in the hands of the application or of exactly one hook (`OwnPart`, `LivePart`), and an
entry is only changed by the hook that owns the block. A hook that is about to insert
knows the size the block still has (`NewPart`). From this follow `EntriesTrue` and, while
no realloc has displaced a block, `CompleteInPlace`, `ReportExact` and the action property
`EraseOnlyTaken`. A displaced block is where ownership ends: the hook still erases by the
old address, which is what `hooks_realloc` shows. `UntrackedPart` and `FirstPart` say what
is true before and during the first session, and `QuietPart` what an enumeration has
collected so far.

`HookInit_proofs`: `StackPart` is about every call on every thread's stack. The steps of
InitHooks are only found in the outermost call of the thread that won the exchange, before
publication, and only a call inside dlsym has another one on top of it. With `GuardPart`
(publication comes after every look-up) this gives the refinement of `OnceInit`. `BootSafe`
needs `BootPart`: unless two threads raced, at most one is between the check and the store,
so that the three reads of the index agree, the room that was checked is still there, and
no byte from the index on has been handed out. Assumption: each part has at least one
function to look up.

`IoMonitor_proofs`: again ownership, of descriptors (`OwnPart`, `OpenPart`). The lock
matters in the report alone: while it is held the map is what was copied (`LockPart`).
`FirstPart` has what a close under way has already done to the map, which is why the
first session's report names no closed descriptor.

`CpuMonitor_proofs`: for every tick, period, set of wake-ups and delays. `MapPart` ties
what is stored of an id to what its thread had really used when `stat` was read (less than
two ticks are hidden), and `TodoPart` says that the sample before is at least a period
old. `Fresh` says that a thread's CPU time does not fall and that a later thread of the
same id has another generation. `AlarmsJustified` and `SpinnersCaught` are then linear
arithmetic; the second needs the assumption 10 (Period - 2 Tick) > 9 (Period + Slack),
which the code's numbers satisfy with a slack of 30 ms. The clock is below `Modulus`
(584 years of nanoseconds), so that the difference wraps only if an id changed hands and
the CPU time has fallen; without the fall a reused id gives no false alarm.

`CrashHandler_proofs`: the report is written many steps before the process ends, by a
handler that others may interrupt. So `FramePart` speaks of every frame of every thread:
one that is past its reporter has reported, unless Shutdown has begun, and its file still
exists. `FilePart` says that a file is empty only while some handler is between opening it
and writing to it. `PhasePart` adds that the reporter lives while Domovoy's actions are set, and
that no handler runs before they are; `KillerPart` carries the fact past the end of the
process. Milliseconds begin at 1, as 0 stands for "not reported".

`LeakReport_proofs`: the loop invariant of RunLeakDetection. The closed groups are those
of the sizes seen except the current one (`GroupPart`, `ListPart`), the open group holds
the leaks seen of the current size (`CurrentPart`), and since the leaks are sorted no more
of a closed group's size are to come (`SortPart`). Assumptions: addresses are finitely
many natural numbers. The total of bytes is the sum over a set on both sides; no theorem
says more about that sum.

`DomovoyCore_proofs`: `TypeOK`, `ReporterAlive`, `EnabledPartsRun` and
`ShutdownLeavesNothing` for any number of Init calls and any set of throwing steps. The
invariant relates the place of the main thread to the life of the profiler's thread: it
exists only between the end of Init and the join (`ThreadPart`), while the reporter exists
from MakeReporter to Destroy (`ReporterPart`).

Two proof attempts corrected a module: `CrashHandler` had allowed `MaxMs = 0`, a clock
that has no value, and `CpuMonitor` had let time run past its modulus, where `MapPart`
is false.

Only model-checked: the liveness properties (`HolderReleases`, `ShutdownEnds`,
`ShutdownReturns`, `HooksReturn`, `CrashEnds`), which need fairness and ENABLED; and the
runs that expect a violation, whose properties are false.

## What is not modelled

* What the C library does with a bootstrap block that is freed or reallocated when
  `real_free` is set: `free` no longer recognises it.
* The text of reports, the path of a descriptor, backtraces, the demangling of a name
  (which reads it to its end).
* Which bytes `resolve_type` reads. `dladdr` is asked about a vptr and a type_info, while the
  word in front of the one and the two words from the other on are read; whether these are
  mapped at the edge of a module depends on the linker and the page size.
* What a hook or `dlsym` does with a block past the bootstrap buffer, and what the C library
  makes of a heap that has been overwritten.
* The locks of the C heap and the pool are one lock in `CrashHandler`, since the handler
  needs both.
* `MarkReachability`, which nothing calls; `ScanDataSegments` and `ScanThreadStacks` are
  empty, so nothing is ever marked.
* Exhaustion of the pool inside hooks, reports or the profiler's thread, other than as
  `ReportThrows` of `DomovoyCore`; requests near SIZE_MAX.
* A rehash of `g_allocations` under the unlocked enumeration is undefined behaviour.
  The properties of a report are about enumerations that no hook disturbed.
* The macOS and Windows versions of the parts; tests, benchmarks and scripts. On
  Windows `Install` sets `installed_` and then tests that it is not set, so the filter is
  never set, and `Uninstall` replaces the application's filter by null.
* The README of the repository describes a profiler that samples every 100 ms; the code's
  500 ms are used here.

## Plan

The components are modelled and their safety properties proved. What could follow:

1. Action properties about order that the invariants imply only in part: that an entry of
   `open_fds_` is replaced only by the hook that owns the number, that `resolved` never
   falls, that a report on disk is only overwritten by one of its name.
2. An abstract tracker (begin, end, report) that `IoMonitor` and, until a realloc displaces
   a block, `AllocHooks` both implement, in the way the allocator implements `RangePool`.
