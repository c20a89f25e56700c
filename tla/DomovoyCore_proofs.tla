-------------------------- MODULE DomovoyCore_proofs --------------------------
(***************************************************************************)
(* Proofs about the life cycle for every set of capacities, every bound on *)
(* the calls of Init and every choice of the steps of Init that may throw. *)
(*                                                                         *)
(* None of the properties is inductive.  That the reporter is alive when   *)
(* the profiler's thread calls it rests on where the main thread can be    *)
(* while that thread exists (ThreadPart): Start comes after the reporter   *)
(* is made, no step between it and the end of Init throws, and Shutdown    *)
(* destroys the reporter only behind the join.                             *)
(***************************************************************************)
EXTENDS DomovoyCore, TLAPS

\* Where the main thread may be while DomovoyCore is initialised, and in Init.
FlagPart ==
    /\ initialized_ => ctl \in {"app"} \cup ShutdownSteps
    /\ ctl \in ShutdownSteps => initialized_

\* While the profiler's thread exists the main thread is between the end of Init and
\* the join, and only Stop has cleared running_.
ThreadPart ==
    monitor # "none" =>
        /\ \/ ctl = "done"
           \/ initialized_ /\ ctl \in {"app", "uninstall", "stop", "join"}
        /\ running_ \/ ctl = "join"

\* From MakeReporter to Destroy there is a reporter.
ReporterPart ==
    /\ initialized_ /\ ctl # "reset" => reporter_ = "alive"
    /\ ctl \in {"install", "enable", "start", "done"} => reporter_ = "alive"

\* What the steps of Shutdown so far have switched off.
ShutdownPart ==
    /\ ctl \in {"join", "report", "disable", "destroy", "reset"} => ~running_
    /\ ctl \in {"destroy", "reset"} => ~ioEnabled
    /\ ctl \in ShutdownSteps \ {"uninstall"} => ~installed_

\* Unless Install has thrown, installed_ says whose handlers are in place, and the
\* application's are saved while they are replaced.
HandlerPart ==
    /\ handler = "domovoy" => installed_
    /\ "install" \notin threw =>
        IF installed_ THEN handler = "domovoy" /\ saved = "app" ELSE handler = "app"

\* Init has returned, and neither Shutdown nor a report of it that threw came since.
AtWork == initialized_ /\ ctl = "app" /\ "report" \notin threw

\* Behind the step of Init that starts a part, and until Shutdown, the part's flag is
\* set if the configuration asks for it; the profiler's flag means a thread at work.
WorkPart ==
    /\ ctl \in {"enable", "start", "done"} \/ AtWork =>
            (config_.crash => installed_)
    /\ ctl \in {"start", "done"} \/ AtWork =>
            (config_.io => ioEnabled)
    /\ ctl = "done" \/ AtWork => (config_.cpu => running_)
    /\ running_ => monitor # "exited" /\ ("start" \notin threw => monitor # "none")

\* Everything the invariant says beyond the types.
Control ==
    FlagPart /\ ThreadPart /\ ReporterPart /\ ShutdownPart /\ HandlerPart /\ WorkPart

IInv == TypeOK /\ Control

-----------------------------------------------------------------------------
\* Every step of the main thread and of the profiler's thread keeps the types; that
\* Install saves no handler of its own rests on HandlerPart.
LEMMA StepTyped ==
    ASSUME TypeOK, HandlerPart, [Next]_vars
    PROVE  TypeOK'
<1> USE DEF TypeOK, HandlerPart, InitSteps, ShutdownSteps, mem, crash, cpu, counts
<1>1. ASSUME NEW cfg \in Config, Call(cfg) PROVE TypeOK'
    BY <1>1, CoreAssumption DEF Call
<1>2. CASE HooksInit
    BY <1>2, CoreAssumption DEF HooksInit
<1>3. CASE HooksThrow
    BY <1>3 DEF HooksThrow, Throwing
<1>4. CASE PoolInit
    <2>1. config_.cap \in Nat /\ MinBlock \in Nat
        <3>1. CASE config_ \in Config
            BY <3>1, CoreAssumption DEF Config
        <3>2. CASE config_ = DefaultConfig
            BY <3>2, CoreAssumption DEF DefaultConfig
        <3> QED
            BY <3>1, <3>2
    <2>2. pool' \in Nat
        BY <1>4, <2>1 DEF PoolInit, Larger
    <2>3. ctl' \in {"app"} \cup InitSteps \cup ShutdownSteps
        BY <1>4 DEF PoolInit
    <2> HIDE DEF InitSteps, ShutdownSteps
    <2> QED
        BY <1>4, <2>2, <2>3 DEF PoolInit
<1>5. CASE MakeReporter
    BY <1>5 DEF MakeReporter
<1>6. CASE Install
    BY <1>6 DEF Install
<1>7. CASE InstallThrows
    BY <1>7 DEF InstallThrows, Throwing
<1>8. CASE EnableIo
    BY <1>8 DEF EnableIo
<1>9. CASE Start
    <2>1. running_' \in BOOLEAN /\ monitor' \in MonitorSteps
        BY <1>9 DEF Start, MonitorSteps
    <2> QED
        BY <1>9, <2>1 DEF Start
<1>10. CASE StartThrows
    BY <1>10 DEF StartThrows, Throwing
<1>11. CASE InitThrows
    BY <1>11 DEF InitThrows, Throwing
<1>12. CASE Initialized
    BY <1>12 DEF Initialized
<1>13. CASE CallShutdown
    BY <1>13 DEF CallShutdown
<1>14. CASE Uninstall
    BY <1>14 DEF Uninstall
<1>15. CASE Stop
    BY <1>15 DEF Stop
<1>16. CASE Join
    BY <1>16 DEF Join, MonitorSteps
<1>17. CASE Report
    BY <1>17 DEF Report
<1>18. CASE ReportThrows
    BY <1>18 DEF ReportThrows, Throwing
<1>19. CASE DisableIo
    BY <1>19 DEF DisableIo
<1>20. CASE Destroy
    BY <1>20 DEF Destroy
<1>21. CASE Reset
    BY <1>21 DEF Reset
<1>22. CASE MonitorStep
    BY <1>22 DEF MonitorStep, MonitorTest, MonitorSample, MonitorUse, MonitorSteps
<1>23. CASE UNCHANGED vars
    BY <1>23 DEF vars
<1> QED
    BY <1>1, <1>2, <1>3, <1>4, <1>5, <1>6, <1>7, <1>8, <1>9, <1>10, <1>11,
       <1>12, <1>13, <1>14, <1>15, <1>16, <1>17, <1>18, <1>19, <1>20, <1>21,
       <1>22, <1>23 DEF Next, InitStep, ShutdownStep

\* Every step of the main thread and of the profiler's thread keeps the invariant.
LEMMA StepKeeps ==
    ASSUME IInv, [Next]_vars
    PROVE  Control'
<1> USE DEF IInv, TypeOK, Control, FlagPart, ThreadPart, ReporterPart, ShutdownPart,
            HandlerPart, WorkPart, AtWork, InitSteps, ShutdownSteps, mem, crash, cpu, counts
<1>1. ASSUME NEW cfg \in Config, Call(cfg) PROVE Control'
    BY <1>1, CoreAssumption DEF Call
<1>2. CASE HooksInit
    BY <1>2, CoreAssumption DEF HooksInit
<1>3. CASE HooksThrow
    BY <1>3 DEF HooksThrow, Throwing
<1>4. CASE PoolInit
    BY <1>4, CoreAssumption DEF PoolInit, Larger, Config, DefaultConfig
<1>5. CASE MakeReporter
    BY <1>5 DEF MakeReporter
<1>6. CASE Install
    BY <1>6 DEF Install
<1>7. CASE InstallThrows
    BY <1>7 DEF InstallThrows, Throwing
<1>8. CASE EnableIo
    BY <1>8 DEF EnableIo
<1>9. CASE Start
    BY <1>9 DEF Start, MonitorSteps
<1>10. CASE StartThrows
    BY <1>10 DEF StartThrows, Throwing
<1>11. CASE InitThrows
    BY <1>11 DEF InitThrows, Throwing
<1>12. CASE Initialized
    BY <1>12 DEF Initialized
<1>13. CASE CallShutdown
    BY <1>13 DEF CallShutdown
<1>14. CASE Uninstall
    BY <1>14 DEF Uninstall
<1>15. CASE Stop
    BY <1>15 DEF Stop
<1>16. CASE Join
    BY <1>16 DEF Join, MonitorSteps
<1>17. CASE Report
    BY <1>17 DEF Report
<1>18. CASE ReportThrows
    BY <1>18 DEF ReportThrows, Throwing
<1>19. CASE DisableIo
    BY <1>19 DEF DisableIo
<1>20. CASE Destroy
    BY <1>20 DEF Destroy
<1>21. CASE Reset
    BY <1>21 DEF Reset
<1>22. CASE MonitorStep
    BY <1>22 DEF MonitorStep, MonitorTest, MonitorSample, MonitorUse, MonitorSteps
<1>23. CASE UNCHANGED vars
    BY <1>23 DEF vars
<1> QED
    BY <1>1, <1>2, <1>3, <1>4, <1>5, <1>6, <1>7, <1>8, <1>9, <1>10, <1>11,
       <1>12, <1>13, <1>14, <1>15, <1>16, <1>17, <1>18, <1>19, <1>20, <1>21,
       <1>22, <1>23 DEF Next, InitStep, ShutdownStep

-----------------------------------------------------------------------------
\* The inductive invariant holds in every state of every life cycle of the framework.
THEOREM InductiveInvariant == Spec => []IInv
<1>1. Init => IInv
    <2>1. Init => TypeOK
        <3> SUFFICES ASSUME Init PROVE TypeOK
            OBVIOUS
        <3>1. pool \in Nat /\ inits \in 0 .. MaxInits /\ threw \subseteq Throwing
            BY CoreAssumption DEF Init
        <3>2. /\ initialized_ \in BOOLEAN /\ installed_ \in BOOLEAN
              /\ ioEnabled \in BOOLEAN /\ running_ \in BOOLEAN
              /\ config_ \in Config \cup {DefaultConfig}
            BY DEF Init
        <3>3. /\ ctl \in {"app"} \cup InitSteps \cup ShutdownSteps
              /\ reporter_ \in {"null", "alive", "destroyed"}
              /\ handler \in {"app", "domovoy", "default"}
              /\ saved \in {"none", "app", "default"}
              /\ monitor \in MonitorSteps
              /\ hooks \in {"none", "initializing", "initialized"}
            BY DEF Init, MonitorSteps
        <3> QED
            BY <3>1, <3>2, <3>3 DEF TypeOK
    <2>2. Init => Control
        BY DEF Init, Control, FlagPart, ThreadPart, ReporterPart, ShutdownPart, HandlerPart,
           WorkPart, AtWork, ShutdownSteps
    <2> QED
        BY <2>1, <2>2 DEF IInv
<1>2. IInv /\ [Next]_vars => IInv'
    BY StepTyped, StepKeeps DEF IInv, Control
<1> QED
    BY <1>1, <1>2, PTL DEF Spec

\* Init, Shutdown and the profiler's thread keep every variable in its type.
THEOREM TypeCorrect == Spec => []TypeOK
<1>1. IInv => TypeOK
    BY DEF IInv
<1> QED
    BY <1>1, InductiveInvariant, PTL

\* Nobody calls through reporter_ after Shutdown has destroyed it: neither the
\* profiler's thread (cpu_monitor.cpp:248) nor the reports of Shutdown.
THEOREM ReporterSafe == Spec => []ReporterAlive
<1>1. IInv => ReporterAlive
    BY DEF IInv, Control, FlagPart, ThreadPart, ReporterPart, ShutdownSteps, ReporterAlive
<1> QED
    BY <1>1, InductiveInvariant, PTL

\* Between Init and Shutdown every enabled part is at work, whatever earlier calls of
\* Init have thrown.
THEOREM EnabledPartsWork == Spec => []EnabledPartsRun
<1>1. IInv => EnabledPartsRun
    BY DEF IInv, Control, ReporterPart, HandlerPart, WorkPart, AtWork,
       EnabledPartsRun
<1> QED
    BY <1>1, InductiveInvariant, PTL

\* Shutdown leaves no thread, hook, reporter or signal handler of Domovoy behind.
THEOREM ShutdownIsClean == Spec => ShutdownLeavesNothing
<1> DEFINE Clean ==
        ctl = "reset" =>
            /\ monitor = "none" /\ ~running_
            /\ ~ioEnabled
            /\ reporter_' = "null"
            /\ ~installed_ /\ ("install" \notin threw => handler = "app")
<1>1. ASSUME IInv, [Next]_vars PROVE [Clean]_vars
    <2> SUFFICES ASSUME ctl = "reset", Next PROVE Clean
        BY <1>1 DEF vars
    <2>1. monitor = "none"
        BY <1>1 DEF IInv, Control, ThreadPart
    <2>2. ctl # "app" /\ ctl \notin InitSteps /\ ~MonitorStep
        BY <2>1 DEF InitSteps, MonitorStep, MonitorTest, MonitorSample, MonitorUse
    <2>3. Reset
        BY <2>2, CoreAssumption DEF Next, Call, InitStep, HooksInit, HooksThrow,
           PoolInit, MakeReporter, Install, InstallThrows, EnableIo, Start, StartThrows,
           InitThrows, Initialized, CallShutdown, ShutdownStep, Uninstall, Stop, Join,
           Report, ReportThrows, DisableIo, Destroy, Throwing
    <2> QED
        BY <1>1, <2>1, <2>3 DEF Reset, IInv, Control, ShutdownPart, HandlerPart, ShutdownSteps
<1> QED
    BY <1>1, InductiveInvariant, PTL DEF Spec, ShutdownLeavesNothing
=============================================================================
