----------------------------- MODULE DomovoyCore -----------------------------
(***************************************************************************)
(* The life cycle of the framework on Linux: DomovoyCore::Init and         *)
(* Shutdown (src/core.cpp), step by step as the main thread runs them, and *)
(* the thread of the CPU profiler that runs beside them                    *)
(* (src/profiler/cpu_monitor.cpp).                                         *)
(*                                                                         *)
(* Init starts the parts one after the other and a step may throw (mmap    *)
(* fails, a thread cannot be created); nothing is undone and initialized_  *)
(* stays false, so the application may call Init again.  The reports of    *)
(* Shutdown may throw as well, and Shutdown may then be called again.  Of  *)
(* each part only the state that Init and Shutdown change is kept here;    *)
(* IsolatedAllocator, AllocHooks and IoMonitor have modules of their own.  *)
(***************************************************************************)
EXTENDS Integers

CONSTANTS
    Capacities,   \* values of config.allocator_capacity_bytes
    MinBlock,     \* the 2 MB minimum of the pool's first block
    Failures,     \* steps that may throw, a subset of Throwing
    MaxInits      \* bound on calls of Init

\* The steps of Init and Shutdown that allocate from the pool or create a thread.
Throwing == {"hooks", "pool", "reporter", "install", "start", "report"}

ASSUME CoreAssumption ==
    /\ Capacities \subseteq Nat
    /\ MinBlock \in Nat \ {0}
    /\ Failures \subseteq Throwing
    /\ MaxInits \in Nat

VARIABLES
    ctl,          \* the main thread: "app", a step of Init, or a step of Shutdown
    initialized_, \* DomovoyCore's flag
    config_,      \* the configuration the parts read
    hooks,        \* of EnsureInit: "none", "initializing", "initialized"
    pool,         \* size of the pool's head block, 0 when there is none
    reporter_,    \* "null", "alive", or "destroyed" before it is set to null
    installed_,   \* CrashHandler's flag
    handler,      \* whose signal handlers are in place: "app", "domovoy", "default"
    saved,        \* old_actions: "none" until sigaction has filled it
    ioEnabled,    \* IoMonitor's enabled_
    running_,     \* CpuMonitor's flag
    monitor,      \* the profiler's thread, see MonitorSteps
    inits,        \* calls of Init so far
    threw         \* history: the steps that have thrown

vars == <<ctl, initialized_, config_, hooks, pool, reporter_, installed_, handler,
          saved, ioEnabled, running_, monitor, inits, threw>>
mem == <<hooks, pool>>
crash == <<installed_, handler, saved>>
cpu == <<running_, monitor>>
counts == <<inits, threw>>

Config == [cap : Capacities, crash : BOOLEAN, io : BOOLEAN, cpu : BOOLEAN]

InitSteps == {"hooks", "pool", "reporter", "install", "enable", "start", "done"}
ShutdownSteps == {"uninstall", "stop", "join", "report", "disable", "destroy", "reset"}

\* none: not created, or joined; test: at `while (running_)`; sleep; use: it has read
\* the reporter's pointer and calls ReportHighCpu; exited: MonitorLoop has returned.
MonitorSteps == {"none", "test", "sleep", "use", "exited"}

DefaultConfig == [cap |-> MinBlock, crash |-> FALSE, io |-> FALSE, cpu |-> FALSE]

Larger(m, n) == IF m >= n THEN m ELSE n

Init ==
    /\ ctl = "app"
    /\ initialized_ = FALSE
    /\ config_ = DefaultConfig
    /\ hooks = "none"
    /\ pool = 0
    /\ reporter_ = "null"
    /\ installed_ = FALSE
    /\ handler = "app"
    /\ saved = "none"
    /\ ioEnabled = FALSE
    /\ running_ = FALSE
    /\ monitor = "none"
    /\ inits = 0
    /\ threw = {}

-----------------------------------------------------------------------------
(* Init(config) *)

\* `if (initialized_) return`, then config_ = config.
Call(cfg) ==
    /\ ctl = "app" /\ ~initialized_
    /\ inits < MaxInits
    /\ config_' = cfg
    /\ inits' = inits + 1
    /\ ctl' = "hooks"
    /\ UNCHANGED <<initialized_, mem, reporter_, crash, ioEnabled, cpu, threw>>

\* domovoy_linux_alloc_hooks_init() calls EnsureInit.  The first call places
\* g_allocations in the pool, whose Allocate maps a block of the minimum size when
\* there is none.  Behind a first call that threw, hooks_initializing stays set and
\* the next one spins forever.
HooksInit ==
    /\ ctl = "hooks"
    /\ hooks # "initializing"
    /\ pool' = IF hooks = "none" /\ pool = 0 THEN MinBlock ELSE pool
    /\ hooks' = "initialized"
    /\ ctl' = "pool"
    /\ UNCHANGED <<initialized_, config_, reporter_, crash, ioEnabled, cpu, counts>>

\* mmap fails under that first call.
HooksThrow ==
    /\ ctl = "hooks" /\ "hooks" \in Failures
    /\ hooks = "none" /\ pool = 0
    /\ hooks' = "initializing"
    /\ threw' = threw \cup {ctl}
    /\ ctl' = "app"
    /\ UNCHANGED <<initialized_, config_, pool, reporter_, crash, ioEnabled, cpu, inits>>

\* IsolatedAllocator::Initialize(config.allocator_capacity_bytes)
PoolInit ==
    /\ ctl = "pool"
    /\ pool' = IF pool = 0 THEN Larger(config_.cap, MinBlock) ELSE pool
    /\ ctl' = "reporter"
    /\ UNCHANGED <<initialized_, config_, hooks, reporter_, crash, ioEnabled, cpu, counts>>

\* reporter_ = new (rep_mem) JsonFileReporter(out_dir)
MakeReporter ==
    /\ ctl = "reporter"
    /\ reporter_' = "alive"
    /\ ctl' = "install"
    /\ UNCHANGED <<initialized_, config_, mem, crash, ioEnabled, cpu, counts>>

\* Mutant: Install without its `if (installed_) return` saves its own handler.
InstallAgain ==
    /\ ctl = "install"
    /\ IF config_.crash
       THEN installed_' = TRUE /\ saved' = handler /\ handler' = "domovoy"
       ELSE UNCHANGED crash
    /\ ctl' = "enable"
    /\ UNCHANGED <<initialized_, config_, mem, reporter_, ioEnabled, cpu, counts>>

\* CrashHandler::Install, which saves the handlers it replaces.
Install ==
    /\ ctl = "install"
    /\ IF config_.crash /\ ~installed_
       THEN installed_' = TRUE /\ saved' = handler /\ handler' = "domovoy"
       ELSE UNCHANGED crash
    /\ ctl' = "enable"
    /\ UNCHANGED <<initialized_, config_, mem, reporter_, ioEnabled, cpu, counts>>

\* Its Allocate for the signal stack throws after installed_ has been set.
InstallThrows ==
    /\ ctl = "install" /\ "install" \in Failures
    /\ config_.crash /\ ~installed_
    /\ installed_' = TRUE
    /\ threw' = threw \cup {ctl}
    /\ ctl' = "app"
    /\ UNCHANGED <<initialized_, config_, mem, reporter_, handler, saved, ioEnabled,
                   cpu, inits>>

\* IoMonitor::Enable
EnableIo ==
    /\ ctl = "enable"
    /\ ioEnabled' = (ioEnabled \/ config_.io)
    /\ ctl' = "start"
    /\ UNCHANGED <<initialized_, config_, mem, reporter_, crash, cpu, counts>>

\* CpuMonitor::Start, which returns early when running_ is set.
Start ==
    /\ ctl = "start"
    /\ IF config_.cpu /\ ~running_
       THEN running_' = TRUE /\ monitor' = "test"
       ELSE UNCHANGED <<running_, monitor>>
    /\ ctl' = "done"
    /\ UNCHANGED <<initialized_, config_, mem, reporter_, crash, ioEnabled, counts>>

\* The constructor of std::thread throws after running_ has been set.
StartThrows ==
    /\ ctl = "start" /\ "start" \in Failures
    /\ config_.cpu /\ ~running_
    /\ running_' = TRUE
    /\ threw' = threw \cup {ctl}
    /\ ctl' = "app"
    /\ UNCHANGED <<initialized_, config_, mem, reporter_, crash, ioEnabled, monitor, inits>>

\* std::bad_alloc out of Init: Initialize needs a first block, or the reporter needs
\* memory that the pool has to map.
InitThrows ==
    /\ ctl \in {"pool", "reporter"} \cap Failures
    /\ ctl = "pool" => pool = 0
    /\ threw' = threw \cup {ctl}
    /\ ctl' = "app"
    /\ UNCHANGED <<initialized_, config_, mem, reporter_, crash, ioEnabled, cpu, inits>>

Initialized ==
    /\ ctl = "done"
    /\ initialized_' = TRUE
    /\ ctl' = "app"
    /\ UNCHANGED <<config_, mem, reporter_, crash, ioEnabled, cpu, counts>>

InitStep ==
    \/ HooksInit \/ HooksThrow \/ PoolInit \/ MakeReporter \/ Install \/ InstallThrows
    \/ EnableIo \/ Start \/ StartThrows \/ InitThrows \/ Initialized

-----------------------------------------------------------------------------
(* Shutdown() *)

\* `if (!initialized_) return`, else the steps below.
CallShutdown ==
    /\ ctl = "app" /\ initialized_
    /\ ctl' = "uninstall"
    /\ UNCHANGED <<initialized_, config_, mem, reporter_, crash, ioEnabled, cpu, counts>>

\* Mutant: the flag is cleared, the application's handlers are not put back.
UninstallFlagOnly ==
    /\ ctl = "uninstall"
    /\ installed_' = FALSE
    /\ ctl' = "stop"
    /\ UNCHANGED <<initialized_, config_, mem, reporter_, handler, saved, ioEnabled,
                   cpu, counts>>

\* Mutant: the handlers are put back and the flag stays set.
UninstallKeepsFlag ==
    /\ ctl = "uninstall"
    /\ handler' = IF ~installed_ THEN handler
                  ELSE IF saved = "none" THEN "default" ELSE saved
    /\ ctl' = "stop"
    /\ UNCHANGED <<initialized_, config_, mem, reporter_, installed_, saved, ioEnabled,
                   cpu, counts>>

\* CrashHandler::Uninstall; a zeroed old_actions entry is the default disposition.
Uninstall ==
    /\ ctl = "uninstall"
    /\ installed_' = FALSE
    /\ handler' = IF ~installed_ THEN handler
                  ELSE IF saved = "none" THEN "default" ELSE saved
    /\ ctl' = "stop"
    /\ UNCHANGED <<initialized_, config_, mem, reporter_, saved, ioEnabled, cpu, counts>>

\* Mutant: Stop asks the thread to join without telling it to stop.
StopKeepsRunning ==
    /\ ctl = "stop"
    /\ ctl' = IF running_ THEN "join" ELSE "report"
    /\ UNCHANGED <<initialized_, config_, mem, reporter_, crash, ioEnabled, cpu, counts>>

\* CpuMonitor::Stop clears running_ ...
Stop ==
    /\ ctl = "stop"
    /\ running_' = FALSE
    /\ ctl' = IF running_ THEN "join" ELSE "report"
    /\ UNCHANGED <<initialized_, config_, mem, reporter_, crash, ioEnabled, monitor, counts>>

\* Mutant: Stop returns without waiting for the thread.
JoinSkipped ==
    /\ ctl = "join"
    /\ ctl' = "report"
    /\ UNCHANGED <<initialized_, config_, mem, reporter_, crash, ioEnabled, cpu, counts>>

\* ... and waits for the thread, unless there is none to join.
Join ==
    /\ ctl = "join"
    /\ monitor \in {"none", "exited"}
    /\ monitor' = "none"
    /\ ctl' = "report"
    /\ UNCHANGED <<initialized_, config_, mem, reporter_, crash, ioEnabled, running_, counts>>

\* RunLeakDetection and ReportLeakedFds report through reporter_.
Report ==
    /\ ctl = "report"
    /\ ctl' = "disable"
    /\ UNCHANGED <<initialized_, config_, mem, reporter_, crash, ioEnabled, cpu, counts>>

\* std::bad_alloc out of building a report: the steps of Shutdown before it are done,
\* those behind it are not, and initialized_ stays set.
ReportThrows ==
    /\ ctl = "report" /\ "report" \in Failures
    /\ threw' = threw \cup {ctl}
    /\ ctl' = "app"
    /\ UNCHANGED <<initialized_, config_, mem, reporter_, crash, ioEnabled, cpu, inits>>

\* IoMonitor::Disable
DisableIo ==
    /\ ctl = "disable"
    /\ ioEnabled' = FALSE
    /\ ctl' = "destroy"
    /\ UNCHANGED <<initialized_, config_, mem, reporter_, crash, cpu, counts>>

\* reporter_->~Reporter()
Destroy ==
    /\ ctl = "destroy"
    /\ reporter_' = "destroyed"
    /\ ctl' = "reset"
    /\ UNCHANGED <<initialized_, config_, mem, crash, ioEnabled, cpu, counts>>

\* reporter_ = nullptr; config_ = DomovoyConfig(); initialized_ = false
Reset ==
    /\ ctl = "reset"
    /\ reporter_' = "null"
    /\ config_' = DefaultConfig
    /\ initialized_' = FALSE
    /\ ctl' = "app"
    /\ UNCHANGED <<mem, crash, ioEnabled, cpu, counts>>

ShutdownStep ==
    \/ Uninstall \/ Stop \/ Join \/ Report \/ ReportThrows
    \/ DisableIo \/ Destroy \/ Reset

-----------------------------------------------------------------------------
(* MonitorLoop, in the profiler's own thread *)

\* while (running_)
MonitorTest ==
    /\ monitor = "test"
    /\ monitor' = IF running_ THEN "sleep" ELSE "exited"

\* The interval is over and CheckThreadsForHighCpu samples every thread: it finds a
\* busy one and reads reporter_ for the report, or finds none.
MonitorSample ==
    /\ monitor = "sleep"
    /\ \/ monitor' = "use" /\ reporter_ # "null"
       \/ monitor' = "test"

\* reporter->ReportHighCpu(report); there may be further busy threads.
MonitorUse ==
    /\ monitor = "use"
    /\ monitor' \in {"sleep", "test"}

MonitorStep ==
    /\ MonitorTest \/ MonitorSample \/ MonitorUse
    /\ UNCHANGED <<ctl, initialized_, config_, mem, reporter_, crash, ioEnabled,
                   running_, counts>>

Next ==
    \/ \E cfg \in Config : Call(cfg)
    \/ InitStep
    \/ CallShutdown
    \/ ShutdownStep
    \/ MonitorStep

Spec == Init /\ [][Next]_vars

\* The main thread inside Shutdown and the profiler's thread are scheduled again and
\* again, and a sample of the threads finds finitely many busy ones.
Fairness ==
    /\ WF_vars(ShutdownStep)
    /\ WF_vars(MonitorStep)
    /\ SF_vars(MonitorStep /\ monitor' = "test")

FairSpec == Spec /\ Fairness

-----------------------------------------------------------------------------
\* Every variable holds values of its type.
TypeOK ==
    /\ ctl \in {"app"} \cup InitSteps \cup ShutdownSteps
    /\ initialized_ \in BOOLEAN
    /\ config_ \in Config \cup {DefaultConfig}
    /\ hooks \in {"none", "initializing", "initialized"}
    /\ pool \in Nat
    /\ reporter_ \in {"null", "alive", "destroyed"}
    /\ installed_ \in BOOLEAN
    /\ handler \in {"app", "domovoy", "default"}
    /\ saved \in {"none", "app", "default"}
    /\ ioEnabled \in BOOLEAN
    /\ running_ \in BOOLEAN
    /\ monitor \in MonitorSteps
    /\ inits \in 0 .. MaxInits
    /\ threw \subseteq Throwing

\* Whoever calls through reporter_ finds a live object: the profiler's thread, which
\* reads the pointer without a lock, and the reports of Shutdown itself.
ReporterAlive == (monitor = "use" \/ ctl = "report") => reporter_ = "alive"

\* Between Init and Shutdown every part the configuration enables is at work, also
\* when earlier calls of Init have thrown, unless it was the part's own start that
\* threw; a Shutdown that threw ends this.
EnabledPartsRun ==
    initialized_ /\ ctl = "app" /\ "report" \notin threw =>
        /\ reporter_ = "alive"
        /\ config_.crash /\ "install" \notin threw => handler = "domovoy"
        /\ config_.io => ioEnabled
        /\ config_.cpu /\ "start" \notin threw => monitor \notin {"none", "exited"}

\* When Shutdown returns nothing of Domovoy is left at work, whatever calls of Init or
\* Shutdown that threw came before: no thread, no hook, no reporter, and the signal handlers are
\* the application's again (unless Install itself has thrown).
ShutdownLeavesNothing ==
    [][ ctl = "reset" =>
            /\ monitor = "none" /\ ~running_
            /\ ~ioEnabled
            /\ reporter_' = "null"
            /\ ~installed_ /\ ("install" \notin threw => handler = "app") ]_vars

\* A call of Shutdown comes to an end, by return or by throw: the join of the
\* profiler's thread does not wait forever.
ShutdownReturns == ctl \in ShutdownSteps ~> ctl = "app"
=============================================================================
