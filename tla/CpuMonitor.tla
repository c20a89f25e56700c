----------------------------- MODULE CpuMonitor -----------------------------
(***************************************************************************)
(* The CPU profiler on Linux (src/profiler/cpu_monitor.cpp): a thread that *)
(* samples /proc/self/task/*/stat every Period and reports the threads     *)
(* whose CPU time grew by more than 90% of the time that passed.           *)
(*                                                                         *)
(* Time is counted in units of which a clock tick of the kernel has Tick.  *)
(* The kernel's account of a thread is exact; stat shows it in whole       *)
(* ticks, user and system time apart.  The monitor reads stat first and    *)
(* the clock afterwards, and may be delayed in between; threads begin and  *)
(* end at any moment and thread ids are used again.                        *)
(***************************************************************************)
EXTENDS Integers, Sequences, FiniteSets, JsonFileReporter

CONSTANTS
    Tids,        \* thread ids
    NoTid,       \* no thread is being examined
    Tick,        \* units in a clock tick: 1e9 / clk_tck
    Period,      \* units of the monitor's sleep: 500 ms
    Slack,       \* a delay between stat and clock under which no spinner is missed
    Shares,      \* how much of the time each thread may run, in percent
    Wakes,       \* how long a sleep may take, in units
    Delays,      \* how long the monitor may be delayed elsewhere
    Modulus,     \* a uint64_t counts modulo 2^64
    MaxTime,     \* bound on the clock: 2^64 ns are five centuries
    MaxSamples, MaxDelays, MaxExits, MaxStarts   \* bounds

ASSUME MonitorAssumption ==
    /\ NoTid \notin Tids
    /\ Tick \in Nat \ {0} /\ Period \in Nat /\ Slack \in Nat
    /\ Modulus \in Nat /\ MaxTime \in Nat /\ MaxTime < Modulus
    /\ \A w \in Wakes : w \in Nat /\ w >= Period
    /\ Delays \subseteq Nat
    /\ \A t \in Tids : Shares[t] \subseteq 0 .. 100
    /\ 10 * (Period - 2 * Tick) > 9 * (Period + Slack)

VARIABLES
    now,            \* steady_clock and, in milliseconds, system_clock
    tasks,          \* the kernel's tasks: user and system time of a live thread, and,
                    \* to tell it from others of its id, the exits before its birth
    exits,
    running_,
    pc,             \* of the monitor's thread
    todo,           \* entries of /proc/self/task not yet examined
    cur,            \* the entry being examined: id, cpu_time and now as read, the time
                    \* in the name of its report; history: the exact CPU time, the time
                    \* and the generation when stat was read
    thread_states_, \* the map: last_cpu_time_ns and last_check_time_ns of an id
    truth,          \* history: the same of the last sample, and how late its clock was
    verdict,        \* history: the comparison just made
    samples, delays, starts

world == <<now, tasks, exits>>
history == <<truth, verdict>>
bounds == <<samples, delays, starts>>
monitor == <<running_, pc, todo, cur, thread_states_>>
vars == <<world, monitor, history, bounds, reporter>>

NoTask == [tid |-> NoTid, cpu |-> 0, now |-> 0, ms |-> 0, exact |-> 0, at |-> 0, gen |-> 0]
NoVerdict == [alarm |-> FALSE, reused |-> TRUE, fell |-> FALSE, used |-> 0, window |-> 0,
              skew |-> 0]
NoMap == [t \in {} |-> {}]
Live == DOMAIN tasks

NewTask(gen) == [utime |-> 0, stime |-> 0, gen |-> gen]

Set(map, key, value) ==
    [k \in DOMAIN map \cup {key} |-> IF k = key THEN value ELSE map[k]]

Init ==
    /\ now = 0
    /\ tasks = [t \in Tids |-> NewTask(0)]
    /\ exits = 0
    /\ running_ = FALSE
    /\ pc = "none"
    /\ todo = {}
    /\ cur = NoTask
    /\ thread_states_ = NoMap
    /\ truth = NoMap
    /\ verdict = NoVerdict
    /\ samples = 0 /\ delays = 0 /\ starts = 0
    /\ InitReporter

-----------------------------------------------------------------------------
\* What thread t does in d units: it sleeps, or runs for some of them or for all, half
\* the time in user and half in system mode.
Loads(t, d) ==
    {[utime |-> run - run \div 2, stime |-> run \div 2] :
        run \in {(d * share) \div 100 : share \in Shares[t]}}

\* d units pass.
Elapse(d) ==
    /\ now + d <= MaxTime
    /\ now' = now + d
    /\ \E load \in {f \in [Live -> UNION {Loads(t, d) : t \in Live}] :
                        \A t \in Live : f[t] \in Loads(t, d)} :
         tasks' = [t \in Live |-> [utime |-> tasks[t].utime + load[t].utime,
                                   stime |-> tasks[t].stime + load[t].stime,
                                   gen |-> tasks[t].gen]]
    /\ UNCHANGED exits

Exit(t) ==
    /\ t \in Live /\ exits < MaxExits
    /\ tasks' = [u \in Live \ {t} |-> tasks[u]]
    /\ exits' = exits + 1
    /\ UNCHANGED <<now, monitor, history, bounds, reporter>>

\* A new thread, with an id that has been used before.
Spawn(t) ==
    /\ t \notin Live
    /\ tasks' = Set(tasks, t, NewTask(exits))
    /\ UNCHANGED <<now, exits, monitor, history, bounds, reporter>>

-----------------------------------------------------------------------------
Start ==
    /\ ~running_ /\ pc = "none" /\ starts < MaxStarts
    /\ running_' = TRUE
    /\ pc' = "test"
    /\ starts' = starts + 1
    /\ UNCHANGED <<world, todo, cur, thread_states_, history, samples, delays, reporter>>

StopFlag ==
    /\ running_
    /\ running_' = FALSE
    /\ UNCHANGED <<world, pc, todo, cur, thread_states_, history, bounds, reporter>>

\* Mutant: the map survives Stop.
MapKept == thread_states_

\* ThreadMap().swap(thread_states_)
MapAfterStop == NoMap

\* Stop has joined the monitor's thread and drops the map.
Join ==
    /\ ~running_ /\ pc = "exited"
    /\ pc' = "none"
    /\ thread_states_' = MapAfterStop
    /\ truth' = NoMap
    /\ UNCHANGED <<world, running_, todo, cur, verdict, bounds, reporter>>

-----------------------------------------------------------------------------
\* while (running_)
LoopTest ==
    /\ pc = "test"
    /\ pc' = IF running_ THEN "sleep" ELSE "exited"
    /\ UNCHANGED <<world, running_, todo, cur, thread_states_, history, bounds, reporter>>

\* The sleep ends and the tasks are listed; no task is when opendir fails.
Wake(d) ==
    /\ pc = "sleep" /\ samples < MaxSamples
    /\ Elapse(d)
    /\ todo' \in {Live, {}}
    /\ pc' = "list"
    /\ samples' = samples + 1
    /\ UNCHANGED <<running_, cur, thread_states_, history, delays, starts, reporter>>

\* The monitor does not run for d units.
Delay(d) ==
    /\ pc \in {"clock", "report", "write"} /\ delays < MaxDelays
    /\ Elapse(d)
    /\ delays' = delays + 1
    /\ UNCHANGED <<monitor, history, samples, starts, reporter>>

\* cpu_time: whole ticks of user and of system time.
CpuTime(task) == Tick * (task.utime \div Tick + task.stime \div Tick)

\* The stat file of a listed thread is read, unless the thread has gone.
ReadStat(t) ==
    /\ pc = "list" /\ t \in todo
    /\ todo' = todo \ {t}
    /\ IF t \in Live
       THEN /\ cur' = [tid |-> t, cpu |-> CpuTime(tasks[t]), now |-> 0, ms |-> 0, at |-> now,
                       exact |-> tasks[t].utime + tasks[t].stime, gen |-> tasks[t].gen]
            /\ pc' = "clock"
       ELSE UNCHANGED <<cur, pc>>
    /\ verdict' = NoVerdict
    /\ UNCHANGED <<world, running_, thread_states_, truth, bounds, reporter>>

\* Unsigned subtraction.
Minus(a, b) == (a - b) % Modulus

\* Mutant: a thread is busy from 80% on.
BusyFrom80(cpu_delta, time_delta) == time_delta > 0 /\ 10 * cpu_delta >= 8 * time_delta

\* cpu_usage > 0.90, where time has passed at all.
Busy(cpu_delta, time_delta) == time_delta > 0 /\ 10 * cpu_delta > 9 * time_delta

\* Mutant: the time of the check is not stored.
CheckedFirst(tid, cpu, time) ==
    [cpu |-> cpu, now |-> IF tid \in DOMAIN thread_states_ THEN thread_states_[tid].now
                          ELSE time]

\* The values kept for the next sample.
Checked(tid, cpu, time) == [cpu |-> cpu, now |-> time]

Store(tid, cpu, time) ==
    /\ thread_states_' = Set(thread_states_, tid, Checked(tid, cpu, time))
    /\ pc' = "list"
    /\ cur' = NoTask

\* The clock is read and the thread judged; the first sample of an id only stores.
\* History: the CPU time that the thread has used in the window between the two reads of
\* stat, all it has used if it is younger, how much later than stat the clock was read,
\* this time less last time, and whether stat shows less than it did.
ReadClock ==
    /\ pc = "clock"
    /\ LET t == cur.tid
           known == t \in DOMAIN thread_states_
           old == thread_states_[t]
           alarm == known /\ Busy(Minus(cur.cpu, old.cpu), Minus(now, old.now))
           last == truth[t]
       IN /\ verdict' = IF known
                        THEN [alarm |-> alarm, reused |-> last.gen # cur.gen,
                              fell |-> cur.cpu < old.cpu,
                              used |-> IF last.gen = cur.gen THEN cur.exact - last.exact
                                       ELSE cur.exact,
                              window |-> cur.at - last.at,
                              skew |-> now - cur.at - last.late]
                        ELSE NoVerdict
          /\ truth' = Set(truth, t, [exact |-> cur.exact, at |-> cur.at, gen |-> cur.gen,
                                     late |-> now - cur.at])
          /\ IF alarm
             THEN /\ pc' = "report"
                  /\ cur' = [cur EXCEPT !.now = now]
                  /\ UNCHANGED thread_states_
             ELSE Store(t, cur.cpu, now)
    /\ UNCHANGED <<world, running_, todo, bounds, reporter>>

\* CaptureBacktraceForThread puts the report together and calls the reporter, which
\* opens the file of this millisecond,
Capture ==
    /\ pc = "report"
    /\ OpenReport("high_cpu", now)
    /\ cur' = [cur EXCEPT !.ms = now]
    /\ pc' = "write"
    /\ UNCHANGED <<world, running_, todo, thread_states_, history, bounds>>

\* and writes it; then the thread's values are stored.
Written ==
    /\ pc = "write"
    /\ WriteReport("high_cpu", cur.ms, cur.tid)
    /\ Store(cur.tid, cur.cpu, cur.now)
    /\ UNCHANGED <<world, running_, todo, truth, verdict, bounds>>

EndSample ==
    /\ pc = "list" /\ todo = {}
    /\ pc' = "test"
    /\ verdict' = NoVerdict
    /\ UNCHANGED <<world, running_, todo, cur, thread_states_, truth, bounds,
                   reporter>>

Next ==
    \/ \E t \in Tids : Exit(t) \/ Spawn(t) \/ ReadStat(t)
    \/ Start \/ StopFlag \/ Join
    \/ LoopTest \/ ReadClock \/ Capture \/ Written \/ EndSample
    \/ \E d \in Wakes : Wake(d)
    \/ \E d \in Delays : Delay(d)

Spec == Init /\ [][Next]_vars

-----------------------------------------------------------------------------
\* Every variable holds values of its type; the map and the kernel's account of what
\* was read always have the same ids.
TypeOK ==
    /\ now \in Nat
    /\ Live \subseteq Tids
    /\ \A t \in Live : tasks[t] \in [utime : Nat, stime : Nat, gen : Nat]
    /\ running_ \in BOOLEAN
    /\ pc \in {"none", "test", "sleep", "list", "clock", "report", "write", "exited"}
    /\ todo \subseteq Tids
    /\ pc \in {"clock", "report", "write"} <=> cur.tid \in Tids
    /\ DOMAIN thread_states_ = DOMAIN truth
    /\ \A t \in DOMAIN thread_states_ : thread_states_[t] \in [cpu : Nat, now : Nat]

\* "If any thread consumed > 90% CPU in the last interval" (README.md:786): a thread
\* that is reported did, up to the two ticks that stat may hide and to the delays
\* between stat and clock, also when its id was another thread's before.  The exception
\* is a younger thread that has used less than the old one had: there the unsigned
\* difference wraps, and no thread sees its own time fall.
AlarmsJustified ==
    verdict.alarm /\ ~(verdict.reused /\ verdict.fell) =>
        10 * (verdict.used + 2 * Tick) > 9 * (verdict.window + verdict.skew)

\* A thread that has been sampled before and has spun ever since is reported, whatever
\* ticks stat hides, unless the monitor was held up for more than Slack between stat
\* and clock: the check time of each sample is the one of the sample before.
SpinnersCaught ==
    ~verdict.reused /\ verdict.used = verdict.window /\ verdict.skew <= Slack
        => verdict.alarm
=============================================================================
