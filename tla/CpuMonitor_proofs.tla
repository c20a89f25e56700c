-------------------------- MODULE CpuMonitor_proofs --------------------------
(***************************************************************************)
(* Proofs about the CPU monitor for every tick, period and set of threads, *)
(* as long as the clock has not wrapped round.                             *)
(*                                                                         *)
(* The monitor compares two readings of stat, each of which hides up to    *)
(* two ticks, with two readings of a clock taken a little later.  The      *)
(* invariant ties what is stored of an id to the truth of the moment it    *)
(* was read (MapPart), says that a sample is a Period older than the next  *)
(* one (TodoPart), and that the CPU time of one thread never falls, while  *)
(* an id that has passed to another thread is told by its generation       *)
(* (Fresh).                                                                *)
(***************************************************************************)
EXTENDS CpuMonitor, TLAPS

\* What the thread of generation gen had used when cpu was read is not more than the
\* thread with its id has used now, if it is the same thread; no later thread is taken
\* for it.
Fresh(t, gen, cpu) ==
    /\ gen <= exits
    /\ IF t \in Live THEN tasks[t].gen = gen => cpu <= CpuTime(tasks[t])
       ELSE gen < exits

\* stat hides less than a tick of user and a tick of system time.
Shows(cpu, exact) == cpu <= exact /\ exact < cpu + 2 * Tick

ClockPart ==
    /\ now <= MaxTime /\ exits \in Nat
    /\ \A t \in Live : tasks[t].utime + tasks[t].stime <= now /\ tasks[t].gen <= exits

Reading == [tid : Tids, cpu : Nat, now : Nat, ms : Nat, exact : Nat, at : Nat, gen : Nat]
Sample == [cpu : Nat, now : Nat]
Account == [exact : Nat, at : Nat, gen : Nat, late : Nat]

\* What a reading of stat says of its thread.
ReadingTrue(c) ==
    /\ c \in Reading
    /\ Shows(c.cpu, c.exact)
    /\ c.exact <= c.at /\ c.at <= now
    /\ Fresh(c.tid, c.gen, c.cpu)

\* What a sample m of t says of its thread, r being the truth when it was taken.
SampleTrue(t, m, r) ==
    /\ t \in Tids /\ m \in Sample /\ r \in Account
    /\ Shows(m.cpu, r.exact)
    /\ m.now = r.at + r.late /\ m.now <= now
    /\ Fresh(t, r.gen, m.cpu)

\* The entry being examined.
CurPart ==
    pc \in {"clock", "report", "write"} => ReadingTrue(cur) /\ cur.tid \notin todo

\* What the map holds of t when the report of t, if one is being made, is out.
Stored(t) ==
    IF pc \in {"report", "write"} /\ t = cur.tid THEN [cpu |-> cur.cpu, now |-> cur.now]
    ELSE thread_states_[t]

MapPart == \A t \in DOMAIN truth : SampleTrue(t, Stored(t), truth[t])

\* What is yet to be examined was last examined a period ago; what is being examined
\* has used no less than then, if it is the same thread.
TodoPart ==
    /\ \A t \in todo \cap DOMAIN truth : thread_states_[t].now + Period <= now
    /\ pc = "clock" /\ cur.tid \in DOMAIN truth =>
        /\ thread_states_[cur.tid].now + Period <= cur.at
        /\ truth[cur.tid].gen = cur.gen => thread_states_[cur.tid].cpu <= cur.cpu
    /\ pc \in {"report", "write"} => cur.tid \in DOMAIN truth

Control ==
    /\ ClockPart /\ CurPart /\ MapPart /\ TodoPart
    /\ AlarmsJustified /\ SpinnersCaught

IInv == TypeOK /\ Control
-----------------------------------------------------------------------------
\* Arithmetic of ticks and of unsigned numbers.
LEMMA Division ==
    ASSUME NEW u \in Nat
    PROVE  /\ u \div Tick \in Nat
           /\ Tick * (u \div Tick) <= u
           /\ u < Tick * (u \div Tick) + Tick
    BY MonitorAssumption, Z3

LEMMA Multiplication ==
    ASSUME NEW a \in Nat, NEW b \in Nat
    PROVE  /\ Tick * a \in Nat
           /\ Tick * (a + b) = Tick * a + Tick * b
           /\ a < b => Tick * a + Tick <= Tick * b
    BY MonitorAssumption, Z3

LEMMA DivisionMonotone ==
    ASSUME NEW u \in Nat, NEW v \in Nat, u <= v
    PROVE  Tick * (u \div Tick) <= Tick * (v \div Tick)
<1>1. CASE v \div Tick < u \div Tick
    <2>1. Tick * (v \div Tick) + Tick <= Tick * (u \div Tick)
        BY <1>1, Division, Multiplication
    <2> QED
        BY <2>1, Division, MonitorAssumption
<1>2. CASE v \div Tick = u \div Tick
    <2>1. u \div Tick \in Nat /\ Tick * (u \div Tick) \in Nat
        BY Division, Multiplication
    <2> QED
        BY <1>2, <2>1
<1>3. CASE u \div Tick < v \div Tick
    <2>1. Tick * (u \div Tick) + Tick <= Tick * (v \div Tick)
        BY <1>3, Division, Multiplication
    <2>2. Tick * (u \div Tick) \in Nat /\ Tick * (v \div Tick) \in Nat
        BY Division, Multiplication
    <2> QED
        BY <2>1, <2>2, MonitorAssumption
<1> QED
    BY <1>1, <1>2, <1>3, Division

LEMMA NoWrap ==
    ASSUME NEW a \in Nat, a <= MaxTime
    PROVE  a % Modulus = a
    BY MonitorAssumption, Z3

Task == [utime : Nat, stime : Nat, gen : Nat]

\* What stat shows of a thread.
LEMMA StatShows ==
    ASSUME NEW task \in Task
    PROVE  CpuTime(task) \in Nat /\ Shows(CpuTime(task), task.utime + task.stime)
<1>1. PICK u \in Nat, v \in Nat : u = task.utime /\ v = task.stime
    BY DEF Task
<1>2. CpuTime(task) = Tick * (u \div Tick) + Tick * (v \div Tick)
    BY <1>1, Division, Multiplication DEF CpuTime
<1>3. Tick * (u \div Tick) \in Nat /\ Tick * (v \div Tick) \in Nat
    BY Division, Multiplication
<1>4. /\ Tick * (u \div Tick) <= u /\ u < Tick * (u \div Tick) + Tick
      /\ Tick * (v \div Tick) <= v /\ v < Tick * (v \div Tick) + Tick
    BY Division
<1> QED
    BY <1>1, <1>2, <1>3, <1>4, MonitorAssumption DEF Shows

\* A thread that has used more does not show less.
LEMMA StatMonotone ==
    ASSUME NEW a \in Task, NEW b \in Task, a.utime <= b.utime, a.stime <= b.stime
    PROVE  CpuTime(a) <= CpuTime(b)
<1>1. PICK u \in Nat, v \in Nat : u = a.utime /\ v = a.stime
    BY DEF Task
<1>2. PICK x \in Nat, y \in Nat : x = b.utime /\ y = b.stime
    BY DEF Task
<1>3. /\ CpuTime(a) = Tick * (u \div Tick) + Tick * (v \div Tick)
      /\ CpuTime(b) = Tick * (x \div Tick) + Tick * (y \div Tick)
    BY <1>1, <1>2, Division, Multiplication DEF CpuTime
<1>4. /\ Tick * (u \div Tick) <= Tick * (x \div Tick)
      /\ Tick * (v \div Tick) <= Tick * (y \div Tick)
    BY <1>1, <1>2, DivisionMonotone
<1>5. /\ Tick * (u \div Tick) \in Nat /\ Tick * (v \div Tick) \in Nat
      /\ Tick * (x \div Tick) \in Nat /\ Tick * (y \div Tick) \in Nat
    BY Division, Multiplication
<1> QED
    BY <1>3, <1>4, <1>5

-----------------------------------------------------------------------------
\* A share of the time is not more than all of it.
LEMMA ShareOfTime ==
    ASSUME NEW d \in Nat, NEW share \in 0 .. 100
    PROVE  (d * share) \div 100 \in Nat /\ (d * share) \div 100 <= d
<1>1. d * share \in Nat /\ d * share <= d * 100
    BY Z3
<1>2. PICK p \in Nat : p = d * share
    BY <1>1
<1>3. p <= d * 100
    BY <1>1, <1>2
<1>4. p \div 100 \in Nat /\ p \div 100 <= d
    BY <1>3
<1> QED
    BY <1>2, <1>4

\* The world in d units.
LEMMA ElapseEffect ==
    ASSUME TypeOK, ClockPart, NEW d \in Nat, Elapse(d)
    PROVE  /\ now' = now + d /\ now' \in Nat /\ now' <= MaxTime
           /\ exits' = exits /\ Live' = Live
           /\ \A t \in Live :
                /\ tasks'[t] \in Task
                /\ tasks'[t].gen = tasks[t].gen
                /\ tasks[t].utime <= tasks'[t].utime /\ tasks[t].stime <= tasks'[t].stime
                /\ tasks'[t].utime + tasks'[t].stime <= now'
<1>1. PICK load \in {f \in [Live -> UNION {Loads(t, d) : t \in Live}] :
                        \A t \in Live : f[t] \in Loads(t, d)} :
        tasks' = [t \in Live |-> [utime |-> tasks[t].utime + load[t].utime,
                                  stime |-> tasks[t].stime + load[t].stime,
                                  gen |-> tasks[t].gen]]
    BY DEF Elapse
<1>2. now' = now + d /\ now' \in Nat /\ now' <= MaxTime /\ exits' = exits /\ Live' = Live
    <2>1. now' = now + d /\ now + d <= MaxTime /\ exits' = exits /\ now \in Nat
        BY DEF Elapse, TypeOK
    <2>2. Live' = Live
        BY <1>1 DEF Live
    <2> QED
        BY <2>1, <2>2
<1>3. ASSUME NEW t \in Live
      PROVE  /\ tasks'[t] \in Task
             /\ tasks'[t].gen = tasks[t].gen
             /\ tasks[t].utime <= tasks'[t].utime /\ tasks[t].stime <= tasks'[t].stime
             /\ tasks'[t].utime + tasks'[t].stime <= now'
    <2>1. PICK u, v : /\ u = load[t].utime /\ v = load[t].stime
                      /\ u \in Nat /\ v \in Nat /\ u + v <= d
        <3>1. load[t] \in Loads(t, d) /\ Shares[t] \subseteq 0 .. 100
            BY MonitorAssumption DEF TypeOK
        <3>2. PICK share \in 0 .. 100 :
                LET run == (d * share) \div 100
                IN  load[t] = [utime |-> run - run \div 2, stime |-> run \div 2]
            BY <3>1 DEF Loads
        <3>3. PICK run \in Nat : run <= d /\ run = (d * share) \div 100
            BY ShareOfTime
        <3>4. /\ load[t].utime = run - run \div 2 /\ load[t].stime = run \div 2
              /\ run \div 2 \in Nat /\ run - run \div 2 \in Nat
              /\ (run - run \div 2) + run \div 2 <= d
            BY <3>2, <3>3
        <3> QED
            BY <3>4
    <2>2. tasks[t] \in Task /\ tasks[t].utime + tasks[t].stime <= now
        BY DEF TypeOK, ClockPart, Task
    <2>3. tasks'[t] = [utime |-> tasks[t].utime + u, stime |-> tasks[t].stime + v,
                       gen |-> tasks[t].gen]
        BY <1>1, <2>1
    <2>4. /\ tasks'[t].utime = tasks[t].utime + u /\ tasks'[t].stime = tasks[t].stime + v
          /\ tasks'[t].gen = tasks[t].gen /\ tasks'[t] \in Task
        BY <2>1, <2>2, <2>3 DEF Task
    <2>5. PICK a \in Nat, b \in Nat : a = tasks[t].utime /\ b = tasks[t].stime
        BY <2>2 DEF Task
    <2>6. now \in Nat
        BY DEF TypeOK
    <2>7. a + u + (b + v) <= now + d /\ a <= a + u /\ b <= b + v
        <3>1. a + b <= now
            BY <2>2, <2>5
        <3>2. u \in Nat /\ v \in Nat /\ u + v <= d
            BY <2>1
        <3> HIDE <1>1
        <3> QED
            BY <2>6, <3>1, <3>2, Z3
    <2> QED
        BY <1>2, <2>4, <2>5, <2>7
<1> QED
    BY <1>2, <1>3

\* A reading of a thread stays one, whatever happens to it.
FreshStable ==
    \A t \in Tids, gen \in Nat, cpu \in Nat : Fresh(t, gen, cpu) => Fresh(t, gen, cpu)'

LEMMA ElapseFresh ==
    ASSUME TypeOK, ClockPart, NEW d \in Nat, Elapse(d)
    PROVE  FreshStable
<1> SUFFICES ASSUME NEW t \in Tids, NEW gen \in Nat, NEW cpu \in Nat, Fresh(t, gen, cpu)
             PROVE  Fresh(t, gen, cpu)'
    BY DEF FreshStable
<1>1. CASE t \in Live
    <2>1. tasks[t] \in Task /\ tasks'[t] \in Task /\ tasks'[t].gen = tasks[t].gen
        BY <1>1, ElapseEffect DEF TypeOK, Task
    <2>2. CpuTime(tasks[t]) <= CpuTime(tasks'[t])
        BY <1>1, <2>1, ElapseEffect, StatMonotone
    <2>3. CpuTime(tasks[t]) \in Nat /\ CpuTime(tasks'[t]) \in Nat
        BY <2>1, StatShows
    <2>4. Live' = Live /\ exits' = exits
        BY ElapseEffect
    <2>5. CpuTime(tasks[t])' = CpuTime(tasks'[t])
        BY DEF CpuTime
    <2>6. gen <= exits' /\ t \in Live'
        BY <1>1, <2>4 DEF Fresh
    <2>7. tasks'[t].gen = gen => cpu <= CpuTime(tasks[t])'
        BY <1>1, <2>1, <2>2, <2>3, <2>5 DEF Fresh
    <2> QED
        BY <2>6, <2>7 DEF Fresh
<1>2. CASE t \notin Live
    BY <1>2, ElapseEffect DEF Fresh
<1> QED
    BY <1>1, <1>2

LEMMA WorldStep ==
    ASSUME TypeOK, ClockPart, [Next]_vars
    PROVE  /\ FreshStable /\ ClockPart' /\ now' \in Nat /\ now <= now'
           /\ Live' \subseteq Tids /\ \A t \in Live' : tasks'[t] \in Task
<1> DEFINE P == /\ FreshStable /\ ClockPart' /\ now' \in Nat /\ now <= now'
                /\ Live' \subseteq Tids /\ \A t \in Live' : tasks'[t] \in Task
<1>1. ASSUME NEW d \in Nat, Elapse(d) PROVE P
    <2>1. /\ now' \in Nat /\ now <= now'
          /\ Live' \subseteq Tids /\ \A t \in Live' : tasks'[t] \in Task
        BY <1>1, ElapseEffect DEF TypeOK
    <2>2. ClockPart'
        BY <1>1, ElapseEffect DEF ClockPart
    <2> QED
        BY <1>1, <2>1, <2>2, ElapseFresh
<1>2. ASSUME NEW t \in Tids, Exit(t) PROVE P
    <2>1. FreshStable
        BY <1>2 DEF Exit, FreshStable, Fresh, Live, CpuTime, ClockPart
    <2>2. ClockPart'
        BY <1>2 DEF Exit, ClockPart, TypeOK, Live
    <2> QED
        BY <1>2, <2>1, <2>2 DEF Exit, TypeOK, Live, Task
<1>3. ASSUME NEW t \in Tids, Spawn(t) PROVE P
    <2>1. FreshStable
        BY <1>3 DEF Spawn, Set, NewTask, FreshStable, Fresh, Live, CpuTime, ClockPart
    <2>2. ClockPart'
        BY <1>3 DEF Spawn, Set, NewTask, ClockPart, TypeOK, Live
    <2> QED
        BY <1>3, <2>1, <2>2 DEF Spawn, Set, NewTask, TypeOK, Live, Task, ClockPart
<1>4. CASE UNCHANGED world
    BY <1>4 DEF world, FreshStable, Fresh, Live, CpuTime, ClockPart, TypeOK, Task
<1>5. Wakes \subseteq Nat /\ Delays \subseteq Nat
    BY MonitorAssumption
<1> HIDE DEF P
<1> QED
    BY <1>1, <1>2, <1>3, <1>4, <1>5
    DEF Next, P, ReadStat, Start, StopFlag, Join, LoopTest, ReadClock, Capture, Written,
        EndSample, Wake, Delay, vars

-----------------------------------------------------------------------------
\* What was true of a reading or of a sample stays true.
LEMMA ReadingKept ==
    ASSUME TypeOK, ClockPart, [Next]_vars, NEW c, ReadingTrue(c)
    PROVE  ReadingTrue(c)'
<1>1. /\ c.tid \in Tids /\ c.gen \in Nat /\ c.cpu \in Nat /\ c.at \in Nat
    BY DEF ReadingTrue, Reading
<1>2. Fresh(c.tid, c.gen, c.cpu)'
    BY <1>1, WorldStep DEF FreshStable, ReadingTrue
<1>3. c.at <= now'
    <2>1. c.at <= now /\ now <= now' /\ now \in Nat /\ now' \in Nat
        BY WorldStep DEF ReadingTrue, TypeOK
    <2> QED
        BY <1>1, <2>1
<1> QED
    BY <1>2, <1>3 DEF ReadingTrue

LEMMA SampleKept ==
    ASSUME TypeOK, ClockPart, [Next]_vars, NEW t, NEW m, NEW r, SampleTrue(t, m, r)
    PROVE  SampleTrue(t, m, r)'
<1>1. t \in Tids /\ r.gen \in Nat /\ m.cpu \in Nat /\ m.now \in Nat
    BY DEF SampleTrue, Sample, Account
<1>2. Fresh(t, r.gen, m.cpu)'
    BY <1>1, WorldStep DEF FreshStable, SampleTrue
<1>3. m.now <= now'
    <2>1. m.now <= now /\ now <= now' /\ now \in Nat /\ now' \in Nat
        BY WorldStep DEF SampleTrue, TypeOK
    <2> QED
        BY <1>1, <2>1
<1> QED
    BY <1>2, <1>3 DEF SampleTrue

\* Steps that leave the map alone.
LEMMA MapUntouched ==
    ASSUME TypeOK, ClockPart, MapPart, [Next]_vars,
           UNCHANGED <<thread_states_, truth>>,
           \/ UNCHANGED <<pc, cur>>
           \/ {pc, pc'} \cap {"report", "write"} = {}
    PROVE  MapPart'
<1> SUFFICES ASSUME NEW t \in DOMAIN truth
             PROVE  SampleTrue(t, Stored(t), truth[t])'
    BY DEF MapPart
<1>1. PICK m, r : m = Stored(t) /\ r = truth[t]
    OBVIOUS
<1>2. SampleTrue(t, m, r)'
    BY <1>1, SampleKept DEF MapPart
<1>3. Stored(t)' = m /\ truth'[t] = r
    BY <1>1 DEF Stored
<1> QED
    BY <1>2, <1>3 DEF SampleTrue, Fresh

LEMMA CurUntouched ==
    ASSUME TypeOK, ClockPart, CurPart, [Next]_vars, UNCHANGED <<pc, cur, todo>>
    PROVE  CurPart'
<1> SUFFICES ASSUME pc' \in {"clock", "report", "write"}
             PROVE  ReadingTrue(cur)' /\ cur'.tid \notin todo'
    BY DEF CurPart
<1>1. PICK c : c = cur
    OBVIOUS
<1>2. ReadingTrue(c)'
    BY <1>1, ReadingKept DEF CurPart
<1> QED
    BY <1>1, <1>2 DEF CurPart, ReadingTrue, Fresh

LEMMA TodoUntouched ==
    ASSUME TypeOK, ClockPart, TodoPart, [Next]_vars,
           UNCHANGED <<thread_states_, truth>>, todo' \subseteq todo,
           \/ UNCHANGED <<pc, cur>>
           \/ pc' \notin {"clock", "report", "write"}
    PROVE  TodoPart'
<1>1. ASSUME NEW t \in todo' \cap DOMAIN truth'
      PROVE  thread_states_'[t].now + Period <= now'
    <2>1. thread_states_[t].now + Period <= now
        BY DEF TodoPart
    <2>2. thread_states_[t].now \in Nat /\ now \in Nat /\ now' \in Nat /\ now <= now'
        BY WorldStep DEF TypeOK
    <2> QED
        BY <2>1, <2>2, MonitorAssumption
<1>2. CASE UNCHANGED <<pc, cur>>
    BY <1>1, <1>2 DEF TodoPart
<1>3. CASE pc' \notin {"clock", "report", "write"}
    BY <1>1, <1>3 DEF TodoPart
<1> QED
    BY <1>2, <1>3

Readings == CurPart /\ MapPart /\ TodoPart

LEMMA StartEffect ==
    ASSUME IInv, Next,
           \/ Start \/ StopFlag \/ LoopTest \/ EndSample
           \/ \E t \in Tids : Exit(t) \/ Spawn(t)
           \/ \E d \in Delays : Delay(d)
    PROVE  Readings'
<1> USE DEF IInv, Control, Readings
<1>1. CASE Start \/ LoopTest \/ EndSample
    <2>1. /\ UNCHANGED <<thread_states_, truth, todo>>
          /\ pc \notin {"clock", "report", "write"} /\ pc' \notin {"clock", "report", "write"}
        BY <1>1 DEF Start, LoopTest, EndSample, history
    <2> QED
        BY <2>1, MapUntouched, TodoUntouched DEF CurPart
<1>2. CASE \/ StopFlag \/ \E t \in Tids : Exit(t) \/ Spawn(t)
           \/ \E d \in Delays : Delay(d)
    <2>1. UNCHANGED <<thread_states_, truth, todo, pc, cur>>
        BY <1>2 DEF StopFlag, Exit, Spawn, Delay, history, monitor
    <2> QED
        BY <2>1, MapUntouched, TodoUntouched, CurUntouched
<1> QED
    BY <1>1, <1>2

LEMMA JoinEffect ==
    ASSUME IInv, Join
    PROVE  Readings'
    BY DEF IInv, Control, Join, Readings, CurPart, MapPart, TodoPart, NoMap

LEMMA WakeEffect ==
    ASSUME IInv, NEW d \in Wakes, Wake(d)
    PROVE  Readings'
<1> USE DEF IInv, Control, Readings
<1>1. Next /\ UNCHANGED <<thread_states_, truth>> /\ pc = "sleep" /\ pc' = "list"
    BY DEF Next, Wake, history
<1>2. MapPart'
    BY <1>1, MapUntouched
<1>3. ASSUME NEW t \in todo' \cap DOMAIN truth'
      PROVE  thread_states_'[t].now + Period <= now'
    <2>1. thread_states_[t].now <= now /\ thread_states_[t].now \in Nat /\ now \in Nat
        BY <1>1 DEF MapPart, SampleTrue, Stored, TypeOK
    <2>2. now' = now + d /\ d \in Nat /\ d >= Period
        BY MonitorAssumption DEF Wake, Elapse
    <2> QED
        BY <1>1, <2>1, <2>2, MonitorAssumption
<1> QED
    BY <1>1, <1>2, <1>3 DEF CurPart, TodoPart

LEMMA ReadStatEffect ==
    ASSUME IInv, NEW t \in Tids, ReadStat(t)
    PROVE  Readings'
<1> USE DEF IInv, Control, Readings
<1>1. /\ Next /\ UNCHANGED <<thread_states_, truth, world>>
      /\ pc = "list" /\ t \in todo /\ todo' = todo \ {t}
    BY DEF Next, ReadStat
<1>2. CASE t \notin Live
    <2>1. UNCHANGED <<pc, cur>>
        BY <1>2 DEF ReadStat
    <2> QED
        BY <1>1, <2>1, MapUntouched, TodoUntouched DEF CurPart
<1>3. CASE t \in Live
    <2>1. PICK c : /\ c = cur'
                   /\ c = [tid |-> t, cpu |-> CpuTime(tasks[t]), now |-> 0, ms |-> 0,
                           at |-> now, exact |-> tasks[t].utime + tasks[t].stime,
                           gen |-> tasks[t].gen]
        BY <1>3 DEF ReadStat
    <2>2. pc' = "clock"
        BY <1>3 DEF ReadStat
    <2>3. PICK k \in Task : k = tasks[t]
        BY <1>3 DEF TypeOK, Task
    <2>4. /\ CpuTime(k) \in Nat /\ Shows(CpuTime(k), k.utime + k.stime)
          /\ k.utime \in Nat /\ k.stime \in Nat /\ k.gen \in Nat
        BY StatShows DEF Task
    <2>5. k.utime + k.stime <= now /\ k.gen <= exits /\ now \in Nat /\ exits \in Nat
        BY <1>3, <2>3 DEF ClockPart, TypeOK
    <2>6. /\ c.tid = t /\ c.cpu = CpuTime(k) /\ c.now = 0 /\ c.at = now
          /\ c.exact = k.utime + k.stime /\ c.gen = k.gen
        BY <2>1, <2>3
    <2>7. c \in Reading
        <3>1. k.utime + k.stime \in Nat
            BY <2>4
        <3> QED
            BY <2>1, <2>3, <2>4, <2>5, <3>1 DEF Reading
    <2>8. Fresh(t, k.gen, CpuTime(k))
        BY <1>3, <2>3, <2>4, <2>5 DEF Fresh
    <2>9. ReadingTrue(c)
        BY <2>4, <2>5, <2>6, <2>7, <2>8 DEF ReadingTrue
    <2>10. ReadingTrue(c)'
        BY <1>1, <2>9, ReadingKept
    <2>11. CurPart'
        BY <1>1, <2>1, <2>6, <2>10 DEF CurPart, ReadingTrue, Fresh
    <2>12. MapPart'
        BY <1>1, <2>2, MapUntouched
    <2>13. ASSUME t \in DOMAIN truth
           PROVE  /\ thread_states_[t].now + Period <= now
                  /\ truth[t].gen = c.gen => thread_states_[t].cpu <= c.cpu
        <3>1. SampleTrue(t, thread_states_[t], truth[t])
            BY <1>1, <2>13 DEF MapPart, Stored
        <3> QED
            BY <1>1, <1>3, <2>3, <2>6, <2>13, <3>1 DEF TodoPart, SampleTrue, Fresh
    <2>14. \A u \in todo' \cap DOMAIN truth' : thread_states_'[u].now + Period <= now'
        BY <1>1 DEF TodoPart, world
    <2>15. TodoPart'
        BY <1>1, <2>1, <2>2, <2>6, <2>13, <2>14 DEF TodoPart
    <2> QED
        BY <2>11, <2>12, <2>15
<1> QED
    BY <1>2, <1>3

\* What ReadClock and Written leave behind.
LEMMA ReadClockCases ==
    ASSUME IInv, ReadClock
    PROVE  \E c, m, r :
             /\ c = cur /\ m = [cpu |-> c.cpu, now |-> now]
             /\ SampleTrue(c.tid, m, r) /\ truth' = Set(truth, c.tid, r)
             /\ pc = "clock" /\ UNCHANGED <<now, todo>>
             /\ \/ /\ pc' = "report" /\ cur' = [c EXCEPT !.now = now]
                   /\ UNCHANGED thread_states_ /\ c.tid \in DOMAIN thread_states_
                \/ /\ pc' = "list" /\ cur' = NoTask
                   /\ thread_states_' = Set(thread_states_, c.tid, m)
<1> USE DEF IInv, Control
<1>1. PICK c : c = cur
    OBVIOUS
<1>2. pc = "clock" /\ ReadingTrue(c)
    BY <1>1 DEF ReadClock, CurPart
<1> DEFINE m == [cpu |-> c.cpu, now |-> now]
           r == [exact |-> c.exact, at |-> c.at, gen |-> c.gen, late |-> now - c.at]
<1>3. /\ c.tid \in Tids /\ c.cpu \in Nat /\ c.exact \in Nat /\ c.at \in Nat
      /\ c.gen \in Nat /\ now \in Nat /\ c.at <= now
    BY <1>2 DEF ReadingTrue, Reading, TypeOK
<1>4. now - c.at \in Nat /\ now = c.at + (now - c.at) /\ now <= now
    BY <1>3
<1>5. m \in Sample /\ r \in Account
    BY <1>3, <1>4 DEF Sample, Account
<1>6. SampleTrue(c.tid, m, r)
    BY <1>2, <1>3, <1>4, <1>5 DEF SampleTrue, ReadingTrue
<1>7. truth' = Set(truth, c.tid, r) /\ UNCHANGED <<now, todo>>
    BY <1>1 DEF ReadClock, world
<1>8. \/ /\ pc' = "report" /\ cur' = [c EXCEPT !.now = now]
         /\ UNCHANGED thread_states_ /\ c.tid \in DOMAIN thread_states_
      \/ /\ pc' = "list" /\ cur' = NoTask
         /\ thread_states_' = Set(thread_states_, c.tid, m)
    BY <1>1 DEF ReadClock, Store, Checked
<1> QED
    BY <1>1, <1>2, <1>6, <1>7, <1>8

LEMMA ReadClockEffect ==
    ASSUME IInv, ReadClock
    PROVE  Readings'
<1> USE DEF IInv, Control, Readings
<1>1. PICK c, m, r :
             /\ c = cur /\ m = [cpu |-> c.cpu, now |-> now]
             /\ SampleTrue(c.tid, m, r) /\ truth' = Set(truth, c.tid, r)
             /\ pc = "clock" /\ UNCHANGED <<now, todo>>
             /\ \/ /\ pc' = "report" /\ cur' = [c EXCEPT !.now = now]
                   /\ UNCHANGED thread_states_ /\ c.tid \in DOMAIN thread_states_
                \/ /\ pc' = "list" /\ cur' = NoTask
                   /\ thread_states_' = Set(thread_states_, c.tid, m)
    BY ReadClockCases
<1>2. Next
    BY DEF Next
<1>3. SampleTrue(c.tid, m, r)'
    BY <1>1, <1>2, SampleKept
<1>4. /\ DOMAIN truth' = DOMAIN truth \cup {c.tid}
      /\ truth'[c.tid] = r
      /\ \A t \in DOMAIN truth : t # c.tid => truth'[t] = truth[t]
    BY <1>1 DEF Set
<1>5. ReadingTrue(c) /\ c.tid \notin todo
    BY <1>1 DEF CurPart
<1>6. \A t \in DOMAIN truth : t # c.tid =>
        thread_states_'[t] = thread_states_[t] /\ Stored(t)' = thread_states_[t]
    <2>1. DOMAIN truth = DOMAIN thread_states_
        BY DEF TypeOK
    <2>2. CASE pc' = "report"
        <3>1. cur'.tid = c.tid
            BY <1>1, <1>5, <2>2 DEF ReadingTrue, Reading
        <3> QED
            BY <1>1, <2>2, <3>1 DEF Stored
    <2>3. CASE pc' = "list"
        BY <1>1, <2>1, <2>3 DEF Stored, Set
    <2> QED
        BY <1>1, <2>2, <2>3
<1>7. Stored(c.tid)' = m
    <2>1. CASE pc' = "report"
        <3>1. cur'.tid = c.tid /\ cur'.cpu = c.cpu /\ cur'.now = now
            BY <1>1, <1>5, <2>1 DEF ReadingTrue, Reading
        <3> QED
            BY <1>1, <2>1, <3>1 DEF Stored
    <2>2. CASE pc' = "list"
        BY <1>1, <2>2 DEF Stored, Set
    <2> QED
        BY <1>1, <2>1, <2>2
<1>8. MapPart'
    <2> SUFFICES ASSUME NEW t \in DOMAIN truth'
                 PROVE  SampleTrue(t, Stored(t), truth[t])'
        BY DEF MapPart
    <2>1. CASE t = c.tid
        BY <1>3, <1>4, <1>7, <2>1 DEF SampleTrue, Fresh
    <2>2. CASE t # c.tid
        <3>1. PICK x, y : x = thread_states_[t] /\ y = truth[t]
            OBVIOUS
        <3>2. SampleTrue(t, x, y)
            BY <1>1, <1>4, <2>2, <3>1 DEF MapPart, Stored
        <3>3. SampleTrue(t, x, y)'
            BY <1>2, <3>2, SampleKept
        <3> QED
            BY <1>4, <1>6, <2>2, <3>1, <3>3 DEF SampleTrue, Fresh
    <2> QED
        BY <2>1, <2>2
<1>9. TodoPart'
    <2>1. ASSUME NEW t \in todo' \cap DOMAIN truth'
          PROVE  thread_states_'[t].now + Period <= now'
        <3>1. t # c.tid /\ t \in todo \cap DOMAIN truth
            BY <1>1, <1>4, <1>5
        <3> QED
            BY <1>1, <1>6, <3>1 DEF TodoPart
    <2>2. pc' = "report" => cur'.tid \in DOMAIN truth'
        BY <1>1, <1>4, <1>5 DEF ReadingTrue, Reading
    <2> QED
        BY <1>1, <2>1, <2>2 DEF TodoPart
<1>10. CurPart'
    <2> SUFFICES ASSUME pc' = "report"
                 PROVE  ReadingTrue(cur)' /\ cur'.tid \notin todo'
        BY <1>1 DEF CurPart
    <2>0. PICK n \in Nat : n = now
        BY DEF TypeOK
    <2>1. PICK b : b = cur' /\ b = [c EXCEPT !.now = n]
        BY <1>1, <2>0
    <2>2. /\ b \in Reading /\ b.tid = c.tid /\ b.cpu = c.cpu /\ b.exact = c.exact
          /\ b.at = c.at /\ b.gen = c.gen
        BY <1>5, <2>1 DEF ReadingTrue, Reading
    <2>3. ReadingTrue(b)
        BY <1>5, <2>2 DEF ReadingTrue
    <2>4. ReadingTrue(b)'
        BY <1>2, <2>3, ReadingKept
    <2> QED
        BY <1>1, <1>5, <2>1, <2>2, <2>4 DEF ReadingTrue, Fresh
<1> QED
    BY <1>8, <1>9, <1>10

LEMMA CaptureEffect ==
    ASSUME IInv, Capture
    PROVE  Readings'
<1> USE DEF IInv, Control, Readings
<1>1. PICK c, n : c = cur /\ n = now /\ n \in Nat
    BY DEF TypeOK
<1>2. /\ pc = "report" /\ pc' = "write" /\ cur' = [c EXCEPT !.ms = n]
      /\ UNCHANGED <<now, todo, thread_states_, truth>>
    BY <1>1 DEF Capture, world, history
<1>3. Next
    BY DEF Next
<1>4. ReadingTrue(c) /\ c.tid \notin todo
    BY <1>1, <1>2 DEF CurPart
<1>5. PICK b : b = cur' /\ b = [c EXCEPT !.ms = n]
    BY <1>2
<1>6. /\ b \in Reading /\ b.tid = c.tid /\ b.cpu = c.cpu /\ b.exact = c.exact
      /\ b.at = c.at /\ b.gen = c.gen /\ b.now = c.now
    BY <1>1, <1>4, <1>5 DEF ReadingTrue, Reading
<1>7. ReadingTrue(b)
    BY <1>4, <1>6 DEF ReadingTrue
<1>8. ReadingTrue(b)'
    BY <1>3, <1>7, ReadingKept
<1>9. CurPart'
    BY <1>2, <1>4, <1>5, <1>6, <1>8 DEF CurPart, ReadingTrue, Fresh
<1>10. \A t \in DOMAIN truth : Stored(t)' = Stored(t)
    BY <1>1, <1>2, <1>5, <1>6 DEF Stored
<1>11. MapPart'
    <2> SUFFICES ASSUME NEW t \in DOMAIN truth
                 PROVE  SampleTrue(t, Stored(t), truth[t])'
        BY <1>2 DEF MapPart
    <2>1. PICK x, y : x = Stored(t) /\ y = truth[t]
        OBVIOUS
    <2>2. SampleTrue(t, x, y)'
        BY <1>3, <2>1, SampleKept DEF MapPart
    <2> QED
        BY <1>2, <1>10, <2>1, <2>2 DEF SampleTrue, Fresh
<1>12. TodoPart'
    BY <1>1, <1>2, <1>5, <1>6 DEF TodoPart
<1> QED
    BY <1>9, <1>11, <1>12

LEMMA WrittenEffect ==
    ASSUME IInv, Written
    PROVE  Readings'
<1> USE DEF IInv, Control, Readings
<1>1. PICK c, m : c = cur /\ m = [cpu |-> c.cpu, now |-> c.now]
    OBVIOUS
<1>2. /\ pc = "write" /\ pc' = "list" /\ UNCHANGED <<now, todo, truth>>
      /\ thread_states_' = Set(thread_states_, c.tid, m)
    BY <1>1 DEF Written, Store, Checked, world
<1>3. Next
    BY DEF Next
<1>4. c.tid \notin todo
    BY <1>1, <1>2 DEF CurPart
<1>5. \A t \in DOMAIN truth : Stored(t)' = Stored(t)
    BY <1>1, <1>2 DEF Stored, Set, TypeOK
<1>6. MapPart'
    <2> SUFFICES ASSUME NEW t \in DOMAIN truth
                 PROVE  SampleTrue(t, Stored(t), truth[t])'
        BY <1>2 DEF MapPart
    <2>1. PICK x, y : x = Stored(t) /\ y = truth[t]
        OBVIOUS
    <2>2. SampleTrue(t, x, y)'
        BY <1>3, <2>1, SampleKept DEF MapPart
    <2> QED
        BY <1>2, <1>5, <2>1, <2>2 DEF SampleTrue, Fresh
<1>7. \A t \in todo' \cap DOMAIN truth' : thread_states_'[t].now + Period <= now'
    BY <1>1, <1>2, <1>4 DEF TodoPart, Set, TypeOK
<1> QED
    BY <1>2, <1>6, <1>7 DEF CurPart, TodoPart

-----------------------------------------------------------------------------
\* The comparison that ReadClock makes: the stored sample against the one just taken,
\* both off from the truth by what stat hides and by the delays before the clock.
LEMMA Comparison ==
    ASSUME NEW cpu \in Nat, NEW exact \in Nat, NEW at \in Nat, NEW time \in Nat,
           NEW oldCpu \in Nat, NEW oldExact \in Nat, NEW oldAt \in Nat, NEW late \in Nat,
           cpu <= exact, exact < cpu + 2 * Tick, exact <= at, at <= time, time <= MaxTime,
           oldCpu <= oldExact, oldExact < oldCpu + 2 * Tick,
           oldAt + late + Period <= at, oldCpu <= cpu
    PROVE  /\ Busy(Minus(cpu, oldCpu), Minus(time, oldAt + late)) =>
                 10 * ((exact - oldExact) + 2 * Tick) > 9 * ((at - oldAt) + (time - at - late))
           /\ exact - oldExact = at - oldAt /\ time - at - late <= Slack
                 => Busy(Minus(cpu, oldCpu), Minus(time, oldAt + late))
<1>1. Tick \in Nat /\ Period \in Nat /\ Slack \in Nat /\ MaxTime \in Nat
    BY MonitorAssumption
<1>2. cpu - oldCpu \in Nat /\ cpu - oldCpu <= MaxTime
    BY <1>1
<1>3. time - (oldAt + late) \in Nat /\ time - (oldAt + late) <= MaxTime
    BY <1>1
<1>4. /\ Minus(cpu, oldCpu) = cpu - oldCpu
      /\ Minus(time, oldAt + late) = time - (oldAt + late)
    BY <1>2, <1>3, NoWrap DEF Minus
<1>5. Period > 0 /\ 10 * (Period - 2 * Tick) > 9 * (Period + Slack)
    BY MonitorAssumption
<1>6. Busy(cpu - oldCpu, time - (oldAt + late)) =>
        10 * ((exact - oldExact) + 2 * Tick) > 9 * ((at - oldAt) + (time - at - late))
    BY <1>1 DEF Busy
<1>7. ASSUME exact - oldExact = at - oldAt, time - at - late <= Slack
      PROVE  Busy(cpu - oldCpu, time - (oldAt + late))
    <2>1. time - (oldAt + late) > 0
        BY <1>1, <1>5
    <2>2. 10 * (cpu - oldCpu) > 9 * (time - (oldAt + late))
        BY <1>1, <1>5, <1>7
    <2> QED
        BY <2>1, <2>2 DEF Busy
<1> QED
    BY <1>4, <1>6, <1>7

LEMMA VerdictKept ==
    ASSUME IInv, ReadClock
    PROVE  AlarmsJustified' /\ SpinnersCaught'
<1> USE DEF IInv, Control
<1>1. PICK c, n : c = cur /\ n = now
    OBVIOUS
<1>2. CASE c.tid \notin DOMAIN thread_states_
    <2>1. verdict' = NoVerdict
        BY <1>1, <1>2 DEF ReadClock
    <2> QED
        BY <2>1 DEF AlarmsJustified, SpinnersCaught, NoVerdict
<1>3. CASE c.tid \in DOMAIN thread_states_
    <2>0. PICK old, last, v :
            old = thread_states_[c.tid] /\ last = truth[c.tid] /\ v = verdict'
        OBVIOUS
    <2> DEFINE alarm == Busy(Minus(c.cpu, old.cpu), Minus(n, old.now))
    <2>1. v = [alarm |-> c.tid \in DOMAIN thread_states_ /\ alarm,
               reused |-> last.gen # c.gen,
               fell |-> c.cpu < old.cpu,
               used |-> IF last.gen = c.gen THEN c.exact - last.exact ELSE c.exact,
               window |-> c.at - last.at,
               skew |-> n - c.at - last.late]
        BY <1>1, <1>3, <2>0 DEF ReadClock
    <2>2. pc = "clock" /\ ReadingTrue(c) /\ n \in Nat /\ n <= MaxTime
        BY <1>1 DEF ReadClock, CurPart, TypeOK, ClockPart
    <2>3. SampleTrue(c.tid, old, last)
        BY <1>3, <2>0, <2>2 DEF MapPart, Stored, TypeOK
    <2>4. /\ old.now + Period <= c.at
          /\ last.gen = c.gen => old.cpu <= c.cpu
        BY <1>1, <1>3, <2>0, <2>2 DEF TodoPart, TypeOK
    <2>5. /\ c.cpu \in Nat /\ c.exact \in Nat /\ c.at \in Nat /\ c.gen \in Nat
          /\ old.cpu \in Nat /\ last.exact \in Nat /\ last.at \in Nat
          /\ last.late \in Nat /\ last.gen \in Nat
        BY <2>2, <2>3 DEF ReadingTrue, SampleTrue, Reading, Sample, Account
    <2>6. /\ c.cpu <= c.exact /\ c.exact < c.cpu + 2 * Tick
          /\ c.exact <= c.at /\ c.at <= n
          /\ old.cpu <= last.exact /\ last.exact < old.cpu + 2 * Tick
          /\ old.now = last.at + last.late
        BY <1>1, <2>2, <2>3 DEF ReadingTrue, SampleTrue, Shows
    <2>7. ASSUME old.cpu <= c.cpu
          PROVE  /\ alarm => 10 * ((c.exact - last.exact) + 2 * Tick)
                              > 9 * ((c.at - last.at) + (n - c.at - last.late))
                 /\ c.exact - last.exact = c.at - last.at /\ n - c.at - last.late <= Slack
                        => alarm
        <3>1. PICK cpu \in Nat, exact \in Nat, at \in Nat, oldCpu \in Nat,
                   oldExact \in Nat, oldAt \in Nat, late \in Nat :
                /\ cpu = c.cpu /\ exact = c.exact /\ at = c.at /\ oldCpu = old.cpu
                /\ oldExact = last.exact /\ oldAt = last.at /\ late = last.late
            BY <2>5
        <3>2. /\ cpu <= exact /\ exact < cpu + 2 * Tick /\ exact <= at /\ at <= n
              /\ oldCpu <= oldExact /\ oldExact < oldCpu + 2 * Tick
              /\ oldAt + late + Period <= at /\ oldCpu <= cpu /\ n <= MaxTime /\ n \in Nat
            BY <2>2, <2>4, <2>6, <2>7, <3>1
        <3>3. alarm = Busy(Minus(cpu, oldCpu), Minus(n, oldAt + late))
            BY <2>6, <3>1
        <3>4. /\ Busy(Minus(cpu, oldCpu), Minus(n, oldAt + late)) =>
                    10 * ((exact - oldExact) + 2 * Tick) > 9 * ((at - oldAt) + (n - at - late))
              /\ exact - oldExact = at - oldAt /\ n - at - late <= Slack
                    => Busy(Minus(cpu, oldCpu), Minus(n, oldAt + late))
            BY <3>2, Comparison
        <3> QED
            BY <3>1, <3>3, <3>4
    <2> HIDE DEF alarm
    <2>8. /\ v.alarm = (c.tid \in DOMAIN thread_states_ /\ alarm)
          /\ v.reused = (last.gen # c.gen)
          /\ v.fell = (c.cpu < old.cpu)
          /\ v.used = IF last.gen = c.gen THEN c.exact - last.exact ELSE c.exact
          /\ v.window = c.at - last.at
          /\ v.skew = n - c.at - last.late
        BY <2>1
    <2>9. ASSUME v.alarm, ~(v.reused /\ v.fell)
          PROVE  10 * (v.used + 2 * Tick) > 9 * (v.window + v.skew)
        <3>5. last.gen = c.gen \/ ~(c.cpu < old.cpu)
            BY <2>8, <2>9, Zenon
        <3>1. old.cpu <= c.cpu
            BY <2>4, <2>5, <3>5
        <3>2. 10 * ((c.exact - last.exact) + 2 * Tick) > 9 * (v.window + v.skew)
            BY <2>7, <2>8, <2>9, <3>1
        <3>3. v.used \in Int /\ v.used >= c.exact - last.exact
            BY <2>5, <2>8
        <3>4. PICK w \in Int : w = v.window + v.skew
            BY <2>2, <2>5, <2>8
        <3> QED
            BY <2>5, <3>2, <3>3, <3>4, MonitorAssumption
    <2>10. ~v.reused /\ v.used = v.window /\ v.skew <= Slack => v.alarm
        BY <1>3, <2>4, <2>7, <2>8
    <2> QED
        BY <2>0, <2>9, <2>10 DEF AlarmsJustified, SpinnersCaught
<1> QED
    BY <1>2, <1>3

-----------------------------------------------------------------------------
\* The types of the monitor's own variables.
MonitorTypes ==
    /\ running_ \in BOOLEAN
    /\ pc \in {"none", "test", "sleep", "list", "clock", "report", "write",
              "exited"}
    /\ todo \subseteq Tids
    /\ pc \in {"clock", "report", "write"} <=> cur.tid \in Tids
    /\ DOMAIN thread_states_ = DOMAIN truth
    /\ \A t \in DOMAIN thread_states_ : thread_states_[t] \in Sample

LEMMA TypeParts ==
    ASSUME [Next]_vars, TypeOK, ClockPart, MonitorTypes'
    PROVE  TypeOK'
    BY WorldStep DEF TypeOK, MonitorTypes, Task, Sample

LEMMA TypesKept ==
    ASSUME IInv, [Next]_vars
    PROVE  MonitorTypes'
<1> USE DEF IInv, Control
<1>0. MonitorTypes
    BY DEF TypeOK, MonitorTypes, Sample
<1>n. NoTask.tid \notin Tids
    BY MonitorAssumption DEF NoTask
<1>1. CASE UNCHANGED vars \/ \E t \in Tids : Exit(t) \/ Spawn(t)
    BY <1>0, <1>1 DEF vars, Exit, Spawn, MonitorTypes, monitor, history
<1>2. CASE Start \/ StopFlag \/ LoopTest \/ EndSample
    BY <1>0, <1>2 DEF Start, StopFlag, LoopTest, EndSample, MonitorTypes, history
<1>3. CASE Join
    BY <1>0, <1>3 DEF Join, MapAfterStop, NoMap, MonitorTypes
<1>4. ASSUME NEW d \in Wakes, Wake(d) PROVE MonitorTypes'
    BY <1>0, <1>4 DEF Wake, MonitorTypes, history, TypeOK
<1>5. ASSUME NEW d \in Delays, Delay(d) PROVE MonitorTypes'
    BY <1>0, <1>5 DEF Delay, MonitorTypes, history, monitor
<1>6. ASSUME NEW t \in Tids, ReadStat(t) PROVE MonitorTypes'
    <2>1. CASE t \in Live
        <3>1. cur'.tid = t /\ pc' = "clock"
            BY <1>6, <2>1 DEF ReadStat
        <3> QED
            BY <1>0, <1>6, <3>1 DEF ReadStat, MonitorTypes
    <2>2. CASE t \notin Live
        BY <1>0, <1>6, <2>2 DEF ReadStat, MonitorTypes
    <2> QED
        BY <2>1, <2>2
<1>7. CASE ReadClock
    <2>1. PICK c, m, r :
             /\ c = cur /\ m = [cpu |-> c.cpu, now |-> now]
             /\ SampleTrue(c.tid, m, r) /\ truth' = Set(truth, c.tid, r)
             /\ pc = "clock" /\ UNCHANGED <<now, todo>>
             /\ \/ /\ pc' = "report" /\ cur' = [c EXCEPT !.now = now]
                   /\ UNCHANGED thread_states_ /\ c.tid \in DOMAIN thread_states_
                \/ /\ pc' = "list" /\ cur' = NoTask
                   /\ thread_states_' = Set(thread_states_, c.tid, m)
        BY <1>7, ReadClockCases
    <2>2. c \in Reading /\ m \in Sample /\ running_' = running_
        BY <1>7, <2>1 DEF CurPart, ReadingTrue, SampleTrue, ReadClock
    <2>3. pc' = "report" => cur'.tid \in Tids
        BY <2>1, <2>2 DEF Reading
    <2>4. /\ DOMAIN thread_states_' = DOMAIN truth'
          /\ \A t \in DOMAIN thread_states_' : thread_states_'[t] \in Sample
        BY <1>0, <2>1, <2>2 DEF Set, MonitorTypes
    <2> QED
        BY <1>0, <1>n, <2>1, <2>2, <2>3, <2>4 DEF MonitorTypes
<1>8. CASE Capture
    <2>1. PICK c, n : c = cur /\ n = now /\ n \in Nat
        BY DEF TypeOK
    <2>2. /\ pc = "report" /\ pc' = "write" /\ cur' = [c EXCEPT !.ms = n]
          /\ UNCHANGED <<running_, todo, thread_states_, truth>>
        BY <1>8, <2>1 DEF Capture, history
    <2>3. c \in Reading
        BY <2>1, <2>2 DEF CurPart, ReadingTrue
    <2>4. cur'.tid \in Tids
        BY <2>2, <2>3 DEF Reading
    <2> QED
        BY <1>0, <2>2, <2>4 DEF MonitorTypes
<1>9. CASE Written
    <2>1. PICK c, m : c = cur /\ m = [cpu |-> c.cpu, now |-> c.now]
        OBVIOUS
    <2>2. /\ pc = "write" /\ pc' = "list" /\ UNCHANGED <<running_, todo, truth>>
          /\ thread_states_' = Set(thread_states_, c.tid, m) /\ cur' = NoTask
        BY <1>9, <2>1 DEF Written, Store, Checked
    <2>3. c \in Reading /\ c.tid \in DOMAIN truth
        BY <2>1, <2>2 DEF CurPart, ReadingTrue, TodoPart
    <2>4. m \in Sample
        BY <2>1, <2>3 DEF Reading, Sample
    <2>5. /\ DOMAIN thread_states_' = DOMAIN truth'
          /\ \A t \in DOMAIN thread_states_' : thread_states_'[t] \in Sample
        BY <1>0, <2>2, <2>3, <2>4 DEF Set, MonitorTypes
    <2> QED
        BY <1>0, <1>n, <2>2, <2>5 DEF MonitorTypes
<1> QED
    BY <1>1, <1>2, <1>3, <1>4, <1>5, <1>6, <1>7, <1>8, <1>9 DEF Next

-----------------------------------------------------------------------------
LEMMA InitHolds == Init => IInv
<1> SUFFICES ASSUME Init PROVE IInv
    OBVIOUS
<1> USE DEF Init
<1>1. TypeOK
    <2>1. Live = Tids /\ \A t \in Live : tasks[t] \in [utime : Nat, stime : Nat, gen : Nat]
        BY DEF Live, NewTask
    <2>2. cur.tid \notin Tids
        BY MonitorAssumption DEF NoTask
    <2>3. thread_states_ = truth /\ DOMAIN thread_states_ = {}
        BY DEF NoMap
    <2> QED
        BY <2>1, <2>2, <2>3 DEF TypeOK
<1>2. ClockPart
    BY MonitorAssumption DEF ClockPart, Live, NewTask
<1>3. CurPart /\ MapPart /\ TodoPart
    BY DEF CurPart, MapPart, TodoPart, NoMap
<1>4. AlarmsJustified /\ SpinnersCaught
    BY DEF AlarmsJustified, SpinnersCaught, NoVerdict
<1> QED
    BY <1>1, <1>2, <1>3, <1>4 DEF IInv, Control

LEMMA ReadingsKept ==
    ASSUME IInv, [Next]_vars
    PROVE  Readings'
<1>1. CASE UNCHANGED vars
    <2>1. UNCHANGED <<pc, cur, todo, thread_states_, truth>>
        BY <1>1 DEF vars, monitor, history
    <2> QED
        BY <2>1, CurUntouched, MapUntouched, TodoUntouched DEF IInv, Control, Readings
<1>2. CASE Next
    BY <1>2, StartEffect, JoinEffect, WakeEffect, ReadStatEffect, ReadClockEffect,
       CaptureEffect, WrittenEffect, Zenon DEF Next
<1> QED
    BY <1>1, <1>2

LEMMA VerdictsKept ==
    ASSUME IInv, [Next]_vars
    PROVE  AlarmsJustified' /\ SpinnersCaught'
<1>1. CASE verdict' \in {verdict, NoVerdict}
    BY <1>1 DEF IInv, Control, AlarmsJustified, SpinnersCaught, NoVerdict
<1>2. CASE ReadClock
    BY <1>2, VerdictKept
<1> QED
    BY <1>1, <1>2
    DEF Next, Exit, Spawn, ReadStat, Start, StopFlag, Join, LoopTest, Capture, Written,
        EndSample, Wake, Delay, vars, history

LEMMA StepHolds == IInv /\ [Next]_vars => IInv'
<1> SUFFICES ASSUME IInv, [Next]_vars PROVE IInv'
    OBVIOUS
<1>1. ClockPart'
    BY WorldStep DEF IInv, Control
<1>2. TypeOK'
    BY TypesKept, TypeParts DEF IInv, Control
<1> QED
    BY <1>1, <1>2, ReadingsKept, VerdictsKept DEF IInv, Control, Readings

\* The invariant, of the profiler's loop and of what it stores (cpu_monitor.cpp).
THEOREM InductiveInvariant == Spec => []IInv
    BY InitHolds, StepHolds, PTL DEF Spec

\* Every variable keeps its type, and map and truth have the same ids.
THEOREM TypeCorrect == Spec => []TypeOK
<1>1. IInv => TypeOK
    BY DEF IInv
<1> QED
    BY <1>1, InductiveInvariant, PTL

\* A reported thread did use more than 90% of the interval, up to the two ticks stat
\* may hide and to the delays, whatever threads began and ended meanwhile, unless its id
\* was that of a thread that had used more: for every tick and period, while the clock
\* has not wrapped.
THEOREM ReportsJustified == Spec => []AlarmsJustified
<1>1. IInv => AlarmsJustified
    BY DEF IInv, Control
<1> QED
    BY <1>1, InductiveInvariant, PTL

\* A thread that has spun since its last sample is reported, if the monitor was not
\* held up for more than Slack.
THEOREM NoSpinnerMissed == Spec => []SpinnersCaught
<1>1. IInv => SpinnersCaught
    BY DEF IInv, Control
<1> QED
    BY <1>1, InductiveInvariant, PTL
=============================================================================
