--------------------------- MODULE HookInit_proofs ---------------------------
(***************************************************************************)
(* Proofs about the lazy initialisation of the hooks for every set of      *)
(* threads, every list of functions and every size of the bootstrap        *)
(* buffer: the guards implement OnceInit, and the bootstrap hands out      *)
(* disjoint bytes of its buffer unless two threads raced in it.            *)
(*                                                                         *)
(* The argument is about stacks of hook calls.  The steps of InitHooks are *)
(* only ever found in the outermost call of the thread that won the        *)
(* exchange, before the initialisation is published, and the only call     *)
(* that has another one on top of it is a dlsym (StackPart).               *)
(***************************************************************************)
EXTENDS HookInit, SequenceTheorems, TLAPS

\* What holds of frame f when it is the i-th call of thread t.
FrameOK(t, i, f) ==
    /\ f.fn \in Entries
    /\ f.step \in {"lookup", "map", "publish"} => i = 1 /\ t = winner /\ ~initialized
    /\ f.step = "lookup" => resolved < Len(Fns)
    /\ f.step \in {"map", "publish"} => resolved = Len(Fns)
    /\ f.step = "ensured" => initialized
    /\ f.step = "call" => f.fn \in Names(Fns) \ Missing

StackPart ==
    \A t \in Threads : \A i \in 1 .. Len(stack[t]) :
        /\ FrameOK(t, i, stack[t][i])
        /\ i < Len(stack[t]) => stack[t][i].step = "lookup"

\* Publication comes after every look-up, and the first exchange picks the winner.
GuardPart ==
    /\ initialized => resolved = Len(Fns)
    /\ initializing <=> winner # Nobody
    /\ winner = Nobody => ~initialized /\ resolved = 0

\* As long as no two threads were in the bootstrap at once, the room that one of them has
\* checked is still there, what it has read of the index is still the index, and
\* everything below it, and nothing else, is taken.
BootPart ==
    ~raced =>
        /\ ~overlap
        /\ bootstrap_idx <= BufSize
        /\ \A b \in handed : b \in 0 .. bootstrap_idx - 1
        /\ \A t \in Threads : InBoot(t) =>
            /\ bootstrap_idx + Top(t).size <= BufSize
            /\ Top(t).step # "take" => Top(t).ptr = bootstrap_idx
            /\ Top(t).step = "store" => Top(t).idx = bootstrap_idx
        /\ \A t, u \in Threads : InBoot(t) /\ InBoot(u) => t = u

Control == StackPart /\ GuardPart /\ BootPart

IInv == TypeOK /\ Control
-----------------------------------------------------------------------------
\* The three ways in which a thread's stack changes: a new top frame, one frame less,
\* one frame more.
Replaced(t, f) ==
    /\ stack' \in [Threads -> Seq(Frame)]
    /\ \A u \in Threads \ {t} : stack'[u] = stack[u]
    /\ Len(stack'[t]) = Len(stack[t])
    /\ \A i \in 1 .. Len(stack[t]) : i # Len(stack[t]) => stack'[t][i] = stack[t][i]
    /\ stack'[t][Len(stack[t])] = f

Popped(t) ==
    /\ stack' \in [Threads -> Seq(Frame)]
    /\ \A u \in Threads \ {t} : stack'[u] = stack[u]
    /\ Len(stack'[t]) = Len(stack[t]) - 1
    /\ \A i \in 1 .. Len(stack[t]) - 1 : stack'[t][i] = stack[t][i]

Pushed(t, f) ==
    /\ stack' \in [Threads -> Seq(Frame)]
    /\ \A u \in Threads \ {t} : stack'[u] = stack[u]
    /\ Len(stack'[t]) = Len(stack[t]) + 1
    /\ stack'[t][Len(stack[t]) + 1] = f
    /\ \A i \in 1 .. Len(stack[t]) : \E n \in 0 .. MaxDlsymCalls :
         stack'[t][i] = [stack[t][i] EXCEPT !.calls = n]

LEMMA TopFrame ==
    ASSUME TypeOK, NEW t \in Threads, Busy(t)
    PROVE  Len(stack[t]) \in Nat \ {0} /\ Top(t) \in Frame
    BY DEF TypeOK, Busy, Top

LEMMA ReplaceTop ==
    ASSUME TypeOK, NEW t \in Threads, Busy(t), NEW f \in Frame,
           stack' = [stack EXCEPT ![t] = [@ EXCEPT ![Len(stack[t])] = f]]
    PROVE  Replaced(t, f)
<1>1. stack \in [Threads -> Seq(Frame)]
    BY DEF TypeOK
<1>2. Len(stack[t]) \in Nat \ {0}
    BY TopFrame
<1>3. [stack[t] EXCEPT ![Len(stack[t])] = f] \in Seq(Frame)
    BY <1>1, <1>2
<1> QED
    BY <1>1, <1>2, <1>3 DEF Replaced

LEMMA GotoReplaces ==
    ASSUME TypeOK, NEW t \in Threads, Busy(t), NEW step \in Steps, Goto(t, step)
    PROVE  Replaced(t, [Top(t) EXCEPT !.step = step])
<1>1. [Top(t) EXCEPT !.step = step] \in Frame
    BY TopFrame DEF Frame
<1>2. stack' = [stack EXCEPT ![t] = [@ EXCEPT ![Len(stack[t])] = [Top(t) EXCEPT !.step = step]]]
    BY DEF Goto, Top, TypeOK
<1> QED
    BY <1>1, <1>2, ReplaceTop

LEMMA ReturnPops ==
    ASSUME TypeOK, NEW t \in Threads, Busy(t), Return(t)
    PROVE  Popped(t)
<1>1. stack \in [Threads -> Seq(Frame)]
    BY DEF TypeOK
<1>2. Len(stack[t]) \in Nat \ {0}
    BY TopFrame
<1>3. stack' = [stack EXCEPT ![t] = SubSeq(stack[t], 1, Len(stack[t]) - 1)]
    BY <1>1 DEF Return
<1>4. \A i \in 1 .. Len(stack[t]) - 1 : stack[t][i] \in Frame
    BY <1>1, <1>2
<1>5. /\ SubSeq(stack[t], 1, Len(stack[t]) - 1) \in Seq(Frame)
      /\ Len(SubSeq(stack[t], 1, Len(stack[t]) - 1)) = Len(stack[t]) - 1
      /\ \A i \in 1 .. Len(stack[t]) - 1 :
            SubSeq(stack[t], 1, Len(stack[t]) - 1)[i] = stack[t][i]
    <2>1. Len(stack[t]) - 1 \in Int /\ 1 \in Int
        BY <1>2
    <2> HIDE DEF Frame
    <2> QED
        BY <1>2, <1>4, <2>1, SubSeqProperties
<1> QED
    BY <1>1, <1>2, <1>3, <1>5 DEF Popped

LEMMA NewFrameTyped ==
    ASSUME TypeOK, NEW call \in HookCalls
    PROVE  NewFrame(call) \in Frame /\ call.fn \in Entries
<1>1. call.fn \in Entries /\ call.size \in Sizes \cup {0} /\ call.boot \in BOOLEAN
    BY DEF HookCalls
<1>2. Entries \subseteq FunctionNames \cup {"init"}
    BY DEF Entries, FunctionNames, Fns, TypeOK
<1> QED
    BY <1>1, <1>2, HookInitAssumption DEF NewFrame, Frame, Steps

LEMMA EnterPushes ==
    ASSUME TypeOK, NEW t \in Threads, NEW call \in HookCalls, Enter(t, call)
    PROVE  Pushed(t, NewFrame(call))
<1>1. stack \in [Threads -> Seq(Frame)] /\ NewFrame(call) \in Frame
    BY NewFrameTyped DEF TypeOK
<1>2. stack[t] = <<>> /\ stack' = [stack EXCEPT ![t] = <<NewFrame(call)>>]
    BY DEF Enter, Busy
<1> QED
    BY <1>1, <1>2 DEF Pushed

LEMMA DlsymPushes ==
    ASSUME TypeOK, NEW t \in Threads, NEW call \in HookCalls, EnterFromDlsym(t, call)
    PROVE  Pushed(t, NewFrame(call))
<1> DEFINE f == [Top(t) EXCEPT !.calls = @ + 1]
           s == [stack[t] EXCEPT ![Len(stack[t])] = f]
<1>1. stack \in [Threads -> Seq(Frame)] /\ NewFrame(call) \in Frame
    BY NewFrameTyped DEF TypeOK
<1>2. Len(stack[t]) \in Nat \ {0} /\ Top(t) \in Frame
    BY TopFrame DEF EnterFromDlsym, At
<1>3. Top(t).calls + 1 \in 0 .. MaxDlsymCalls
    BY <1>2, HookInitAssumption DEF EnterFromDlsym, Frame
<1>4. f \in Frame
    BY <1>2, <1>3 DEF Frame
<1>5. s \in Seq(Frame) /\ Len(s) = Len(stack[t])
    BY <1>1, <1>2, <1>4
<1>6. stack' = [stack EXCEPT ![t] = Append(s, NewFrame(call))]
    <2>1. stack' = [stack EXCEPT ![t] =
                Append([stack[t] EXCEPT ![Len(stack[t])].calls =
                                        stack[t][Len(stack[t])].calls + 1],
                       NewFrame(call))]
        BY DEF EnterFromDlsym
    <2>2. [stack[t] EXCEPT ![Len(stack[t])].calls = stack[t][Len(stack[t])].calls + 1] = s
        BY DEF Top
    <2> QED
        BY <2>1, <2>2
<1>7. \A i \in 1 .. Len(stack[t]) : \E n \in 0 .. MaxDlsymCalls :
        s[i] = [stack[t][i] EXCEPT !.calls = n]
    <2> TAKE i \in 1 .. Len(stack[t])
    <2>1. CASE i = Len(stack[t])
        <3>1. s[i] = [stack[t][i] EXCEPT !.calls = Top(t).calls + 1]
            BY <1>1, <1>2, <2>1 DEF Top
        <3> QED
            BY <1>3, <3>1
    <2>2. CASE i # Len(stack[t])
        <3>1. stack[t][i] \in Frame /\ s[i] = stack[t][i]
            BY <1>1, <1>2, <2>2
        <3>2. stack[t][i] = [stack[t][i] EXCEPT !.calls = stack[t][i].calls]
            BY <3>1 DEF Frame
        <3> QED
            BY <3>1, <3>2 DEF Frame
    <2> QED
        BY <2>1, <2>2
<1>8. /\ Append(s, NewFrame(call)) \in Seq(Frame)
      /\ Len(Append(s, NewFrame(call))) = Len(stack[t]) + 1
      /\ Append(s, NewFrame(call))[Len(stack[t]) + 1] = NewFrame(call)
      /\ \A i \in 1 .. Len(stack[t]) : Append(s, NewFrame(call))[i] = s[i]
    <2> HIDE DEF s, f
    <2> QED
        BY <1>1, <1>2, <1>5, AppendProperties
<1> HIDE DEF s, f
<1> QED
    BY <1>1, <1>2, <1>6, <1>7, <1>8 DEF Pushed

-----------------------------------------------------------------------------
\* The steps of InitHooks.
InitSteps == {"lookup", "map", "publish"}

\* A step of t changes no shared variable in a way that matters to another frame; when
\* t is in InitHooks, it is the only one there.
Stable(t) ==
    \A u \in Threads, i \in Nat, g \in Frame :
        /\ FrameOK(u, i, g)
        /\ Busy(t) /\ Top(t).step \in InitSteps => g.step \notin InitSteps
        => FrameOK(u, i, g)'

LEMMA OthersStable ==
    ASSUME TypeOK, StackPart, NEW t \in Threads, Stable(t),
           NEW u \in Threads, NEW i \in 1 .. Len(stack[u]), u # t \/ i # Len(stack[t]),
           NEW g, g = stack[u][i]
    PROVE  FrameOK(u, i, g)'
<1>1. i \in Nat /\ g \in Frame /\ FrameOK(u, i, g)
    BY DEF TypeOK, StackPart
<1>2. ASSUME Busy(t), Top(t).step \in InitSteps, g.step \in InitSteps PROVE FALSE
    <2>1. Len(stack[t]) \in 1 .. Len(stack[t])
        BY <1>2, TopFrame
    <2>2. Len(stack[t]) = 1 /\ t = winner
        BY <1>2, <2>1 DEF StackPart, FrameOK, Top, InitSteps
    <2>3. i = 1 /\ u = winner
        BY <1>1, <1>2 DEF FrameOK, InitSteps
    <2> QED
        BY <2>2, <2>3
<1> QED
    BY <1>1, <1>2 DEF Stable

LEMMA ReplaceKept ==
    ASSUME TypeOK, StackPart, NEW t \in Threads, Busy(t), Stable(t),
           NEW n, n = Len(stack[t]), NEW f, Replaced(t, f), FrameOK(t, n, f)'
    PROVE  StackPart'
<1> SUFFICES ASSUME NEW u \in Threads, NEW i \in 1 .. Len(stack'[u])
             PROVE  /\ FrameOK(u, i, stack[u][i])'
                    /\ i < Len(stack'[u]) => stack'[u][i].step = "lookup"
    BY DEF StackPart
<1>1. n \in Nat \ {0} /\ Len(stack'[u]) = Len(stack[u])
    BY TopFrame DEF Replaced
<1>2. CASE u = t /\ i = n
    BY <1>1, <1>2 DEF Replaced, FrameOK
<1>3. CASE u # t \/ i # n
    <2>1. PICK g : g = stack[u][i]
        OBVIOUS
    <2>2. stack'[u][i] = g
        BY <1>1, <1>3, <2>1 DEF Replaced
    <2>3. FrameOK(u, i, g)'
        BY <1>1, <1>3, <2>1, OthersStable
    <2> QED
        BY <1>1, <2>1, <2>2, <2>3 DEF StackPart, FrameOK
<1> QED
    BY <1>2, <1>3

LEMMA PopKept ==
    ASSUME TypeOK, StackPart, NEW t \in Threads, Busy(t), Stable(t), Popped(t)
    PROVE  StackPart'
<1> SUFFICES ASSUME NEW u \in Threads, NEW i \in 1 .. Len(stack'[u])
             PROVE  /\ FrameOK(u, i, stack[u][i])'
                    /\ i < Len(stack'[u]) => stack'[u][i].step = "lookup"
    BY DEF StackPart
<1>1. Len(stack[t]) \in Nat \ {0}
    BY TopFrame
<1>2. /\ i \in 1 .. Len(stack[u]) /\ (u # t \/ i # Len(stack[t]))
      /\ stack'[u][i] = stack[u][i] /\ Len(stack'[u]) <= Len(stack[u])
    <2>1. CASE u = t
        BY <1>1, <2>1 DEF Popped
    <2>2. CASE u # t
        <3>1. stack'[u] = stack[u]
            BY <2>2 DEF Popped
        <3>2. Len(stack[u]) \in Nat
            BY DEF TypeOK
        <3> QED
            BY <2>2, <3>1, <3>2
    <2> QED
        BY <2>1, <2>2
<1>3. PICK g : g = stack[u][i]
    OBVIOUS
<1>4. FrameOK(u, i, g)'
    BY <1>2, <1>3, OthersStable
<1> QED
    BY <1>2, <1>3, <1>4 DEF StackPart, FrameOK, TypeOK

LEMMA PushKept ==
    ASSUME TypeOK, StackPart, NEW t \in Threads, ~Busy(t) \/ At(t, "lookup"), UNCHANGED shared,
           NEW f, f.step = "test", f.fn \in Entries, Pushed(t, f)
    PROVE  StackPart'
<1> SUFFICES ASSUME NEW u \in Threads, NEW i \in 1 .. Len(stack'[u])
             PROVE  /\ FrameOK(u, i, stack'[u][i])
                    /\ i < Len(stack'[u]) => stack'[u][i].step = "lookup"
    BY DEF StackPart, FrameOK, shared, guards, Entries, Fns, Missing
<1>1. Len(stack[u]) \in Nat
    BY DEF TypeOK
<1>2. CASE u # t
    BY <1>2 DEF Pushed, StackPart
<1>3. CASE u = t /\ i = Len(stack[t]) + 1
    BY <1>1, <1>3 DEF Pushed, FrameOK
<1>4. CASE u = t /\ i # Len(stack[t]) + 1
    <2>1. i \in 1 .. Len(stack[t])
        BY <1>1, <1>4 DEF Pushed
    <2>2. PICK n \in 0 .. MaxDlsymCalls : stack'[t][i] = [stack[t][i] EXCEPT !.calls = n]
        BY <2>1 DEF Pushed
    <2>3. stack[t][i] \in Frame
        BY <2>1 DEF TypeOK
    <2>4. stack[t][i].step = "lookup"
        <3>1. CASE i = Len(stack[t])
            BY <2>1, <3>1 DEF At, Top, Busy
        <3>2. CASE i < Len(stack[t])
            BY <2>1, <3>2 DEF StackPart
        <3> QED
            BY <1>1, <2>1, <3>1, <3>2
    <2>5. FrameOK(t, i, stack[t][i])
        BY <2>1 DEF StackPart
    <2> QED
        BY <1>4, <2>2, <2>3, <2>4, <2>5 DEF FrameOK, Frame
<1> QED
    BY <1>2, <1>3, <1>4

-----------------------------------------------------------------------------
LEMMA SharedStable ==
    ASSUME NEW t \in Threads, UNCHANGED <<part, resolved, initialized, winner>>
    PROVE  Stable(t)
    BY DEF Stable, FrameOK, Entries, Fns, Missing

\* The frame a thread is in is the last of its stack.
LEMMA TopOK ==
    ASSUME TypeOK, StackPart, NEW t \in Threads, Busy(t)
    PROVE  FrameOK(t, Len(stack[t]), Top(t))
    BY TopFrame DEF StackPart, Top

\* Going to a step that says nothing of the shared state.
LEMMA GotoPlain ==
    ASSUME TypeOK, StackPart, NEW t \in Threads, Busy(t), NEW step \in Steps,
           step \in {"boot", "take", "ensure", "exchange", "spin"}, Goto(t, step),
           UNCHANGED <<part, resolved, initialized, winner>>
    PROVE  StackPart' /\ stack' \in [Threads -> Seq(Frame)]
<1>1. PICK n, f : n = Len(stack[t]) /\ f = [Top(t) EXCEPT !.step = step]
    OBVIOUS
<1>2. Replaced(t, f)
    BY <1>1, GotoReplaces
<1>3. FrameOK(t, n, f)'
    BY <1>1, TopOK, TopFrame DEF FrameOK, Frame, Entries, Fns
<1> QED
    BY <1>1, <1>2, <1>3, ReplaceKept, SharedStable DEF Replaced

LEMMA ReturnPlain ==
    ASSUME TypeOK, StackPart, NEW t \in Threads, Busy(t), Return(t),
           UNCHANGED <<part, resolved, initialized, winner>>
    PROVE  StackPart' /\ stack' \in [Threads -> Seq(Frame)]
    BY ReturnPops, SharedStable, PopKept DEF Popped

LEMMA TestStack ==
    ASSUME TypeOK, StackPart, NEW t \in Threads, Test(t), UNCHANGED shared
    PROVE  StackPart' /\ stack' \in [Threads -> Seq(Frame)]
<1>1. Busy(t) /\ UNCHANGED <<part, resolved, initialized, winner>>
    BY DEF Test, At, shared, guards
<1>2. CASE Goto(t, "ensure")
    BY <1>1, <1>2, GotoPlain DEF Steps
<1>3. CASE Goto(t, "boot")
    BY <1>1, <1>3, GotoPlain DEF Steps
<1>4. CASE Return(t)
    BY <1>1, <1>4, ReturnPlain
<1>5. CASE Goto(t, "call") /\ Top(t).fn # "init" /\ Top(t).fn \notin Missing
    <2>1. PICK n, f : n = Len(stack[t]) /\ f = [Top(t) EXCEPT !.step = "call"]
        OBVIOUS
    <2>2. Replaced(t, f)
        BY <1>1, <1>5, <2>1, GotoReplaces DEF Steps
    <2>3. FrameOK(t, n, f)'
        BY <1>1, <1>5, <2>1, TopOK, TopFrame DEF FrameOK, Frame, Entries, Fns, Missing
    <2> QED
        BY <1>1, <2>1, <2>2, <2>3, ReplaceKept, SharedStable DEF Replaced
<1> QED
    BY <1>2, <1>3, <1>4, <1>5 DEF Test

LEMMA EnsureStack ==
    ASSUME TypeOK, StackPart, NEW t \in Threads, Ensure(t) \/ Spin(t), UNCHANGED shared
    PROVE  StackPart' /\ stack' \in [Threads -> Seq(Frame)]
<1>1. Busy(t) /\ UNCHANGED <<part, resolved, initialized, winner>>
    BY DEF Ensure, Spin, At, shared, guards
<1>2. CASE Goto(t, "exchange")
    BY <1>1, <1>2, GotoPlain DEF Steps
<1>3. CASE Goto(t, "ensured") /\ initialized
    <2>1. PICK n, f : n = Len(stack[t]) /\ f = [Top(t) EXCEPT !.step = "ensured"]
        OBVIOUS
    <2>2. Replaced(t, f)
        BY <1>1, <1>3, <2>1, GotoReplaces DEF Steps
    <2>3. FrameOK(t, n, f)'
        BY <1>1, <1>3, <2>1, TopOK, TopFrame DEF FrameOK, Frame, Entries, Fns
    <2> QED
        BY <1>1, <2>1, <2>2, <2>3, ReplaceKept, SharedStable DEF Replaced
<1> QED
    BY <1>2, <1>3 DEF Ensure, Spin

LEMMA EnsuredStack ==
    ASSUME TypeOK, StackPart, GuardPart, NEW t \in Threads, Ensured(t) \/ Call(t),
           UNCHANGED shared
    PROVE  StackPart' /\ stack' \in [Threads -> Seq(Frame)]
<1>1. Busy(t) /\ UNCHANGED <<part, resolved, initialized, winner>>
    BY DEF Ensured, Call, At, shared, guards
<1>2. CASE Return(t)
    BY <1>1, <1>2, ReturnPlain
<1>3. CASE Goto(t, "call") /\ Top(t).fn # "init" /\ At(t, "ensured")
    <2>1. PICK n, f : n = Len(stack[t]) /\ f = [Top(t) EXCEPT !.step = "call"]
        OBVIOUS
    <2>2. Replaced(t, f)
        BY <1>1, <1>3, <2>1, GotoReplaces DEF Steps
    <2>3. FrameOK(t, Len(stack[t]), Top(t)) /\ Top(t) \in Frame
        BY <1>1, TopOK, TopFrame
    <2>4. initialized /\ resolved = Len(Fns) /\ Top(t).fn \in Names(Fns)
        BY <1>3, <2>3 DEF FrameOK, At, GuardPart, Entries
    <2>5. Missing = {}
        BY <2>4 DEF Missing, TypeOK
    <2>6. f.step = "call" /\ f.fn = Top(t).fn
        BY <2>1, <2>3 DEF Frame
    <2>7. FrameOK(t, n, f)'
        BY <1>1, <2>3, <2>4, <2>5, <2>6 DEF FrameOK, Entries, Fns, Missing
    <2> QED
        BY <1>1, <2>1, <2>2, <2>7, ReplaceKept, SharedStable DEF Replaced
<1> QED
    BY <1>2, <1>3 DEF Ensured, Call

\* The two reads of the index that end in the thread's frame.
LEMMA BootReplaces ==
    ASSUME TypeOK, NEW t \in Threads, BootTake(t) \/ BootLoad(t)
    PROVE  \E f \in Frame :
             /\ Replaced(t, f)
             /\ f.fn = Top(t).fn /\ f.size = Top(t).size
             /\ \/ BootTake(t) /\ f.step = "load" /\ f.ptr = bootstrap_idx
                \/ /\ BootLoad(t) /\ f.step = "store"
                   /\ f.ptr = Top(t).ptr /\ f.idx = bootstrap_idx
<1>1. Busy(t) /\ Top(t) \in Frame /\ Len(stack[t]) \in Nat \ {0} /\ bootstrap_idx \in Nat
    BY TopFrame DEF BootTake, BootLoad, At, TypeOK
<1>2. CASE BootTake(t)
    <2>1. PICK f : f = [Top(t) EXCEPT !.step = "load", !.ptr = bootstrap_idx]
        OBVIOUS
    <2>2. /\ f \in Frame /\ f.fn = Top(t).fn /\ f.size = Top(t).size
          /\ f.step = "load" /\ f.ptr = bootstrap_idx
        BY <1>1, <2>1 DEF Frame, Steps
    <2>3. stack' = [stack EXCEPT ![t] = [@ EXCEPT ![Len(stack[t])] = f]]
        BY <1>2, <2>1 DEF BootTake, Top, TypeOK
    <2>4. Replaced(t, f)
        BY <1>1, <2>2, <2>3, ReplaceTop
    <2> QED
        BY <1>2, <2>2, <2>4
<1>3. CASE BootLoad(t)
    <2>1. PICK f : f = [Top(t) EXCEPT !.step = "store", !.idx = bootstrap_idx]
        OBVIOUS
    <2>2. /\ f \in Frame /\ f.fn = Top(t).fn /\ f.size = Top(t).size
          /\ f.step = "store" /\ f.ptr = Top(t).ptr /\ f.idx = bootstrap_idx
        BY <1>1, <2>1 DEF Frame, Steps
    <2>3. stack' = [stack EXCEPT ![t] = [@ EXCEPT ![Len(stack[t])] = f]]
        BY <1>3, <2>1 DEF BootLoad, Top, TypeOK
    <2>4. Replaced(t, f)
        BY <1>1, <2>2, <2>3, ReplaceTop
    <2> QED
        BY <1>3, <2>2, <2>4
<1> QED
    BY <1>2, <1>3

LEMMA BootStack ==
    ASSUME TypeOK, StackPart, NEW t \in Threads,
           BootCheck(t) \/ BootTake(t) \/ BootLoad(t) \/ BootStore(t)
    PROVE  StackPart' /\ stack' \in [Threads -> Seq(Frame)]
<1>1. Busy(t) /\ UNCHANGED <<part, resolved, initialized, winner>>
    BY DEF BootCheck, BootTake, BootLoad, BootStore, At, guards, shared
<1>2. CASE Return(t)
    BY <1>1, <1>2, ReturnPlain
<1>3. CASE Goto(t, "take")
    BY <1>1, <1>3, GotoPlain DEF Steps
<1>4. CASE BootTake(t) \/ BootLoad(t)
    <2>1. PICK n : n = Len(stack[t])
        OBVIOUS
    <2>2. PICK f \in Frame : Replaced(t, f) /\ f.fn = Top(t).fn /\ f.step \in {"load", "store"}
        BY <1>4, BootReplaces
    <2>3. FrameOK(t, n, f)'
        BY <1>1, <2>2, TopOK DEF FrameOK, Entries, Fns
    <2> QED
        BY <1>1, <2>1, <2>2, <2>3, ReplaceKept, SharedStable DEF Replaced
<1> QED
    BY <1>2, <1>3, <1>4 DEF BootCheck, BootStore

LEMMA ExchangeStack ==
    ASSUME TypeOK, StackPart, GuardPart, NEW t \in Threads, Exchange(t)
    PROVE  StackPart' /\ stack' \in [Threads -> Seq(Frame)]
<1>1. Busy(t) /\ UNCHANGED <<part, resolved, initialized>> /\ At(t, "exchange")
    BY DEF Exchange, At, guards
<1>2. CASE ~IsFirst(t)
    <2>1. Goto(t, "spin") /\ UNCHANGED winner
        BY <1>2 DEF Exchange
    <2> QED
        BY <1>1, <2>1, GotoPlain DEF Steps
<1>3. CASE IsFirst(t)
    <2>1. Goto(t, "lookup") /\ winner' = t /\ winner = Nobody
        BY <1>3 DEF Exchange, IsFirst, GuardPart
    <2>2. PICK n, f : n = Len(stack[t]) /\ f = [Top(t) EXCEPT !.step = "lookup"]
        OBVIOUS
    <2>3. Replaced(t, f)
        BY <1>1, <2>1, <2>2, GotoReplaces DEF Steps
    <2>4. ~initialized /\ resolved < Len(Fns) /\ n = 1
        <3>1. ~initialized /\ resolved = 0
            BY <2>1 DEF GuardPart
        <3>2. Len(Fns) \in Nat \ {0}
            BY HookInitAssumption DEF TypeOK, Fns
        <3>3. t # winner /\ n <= 1
            BY <2>1, <2>2, HookInitAssumption DEF TypeOK
        <3>4. n \in Nat \ {0}
            BY <1>1, <2>2, TopFrame
        <3>5. n = 1
            BY <3>3, <3>4
        <3>6. resolved < Len(Fns)
            BY <3>1, <3>2
        <3> QED
            BY <3>1, <3>5, <3>6
    <2>5. FrameOK(t, n, f)'
        BY <1>1, <2>1, <2>2, <2>4, TopOK, TopFrame DEF FrameOK, Frame, Entries, Fns
    <2>6. Stable(t)
        BY <1>1, <2>1, HookInitAssumption DEF Stable, FrameOK, Entries, Fns, Missing
    <2> QED
        BY <1>1, <2>2, <2>3, <2>5, <2>6, ReplaceKept DEF Replaced
<1> QED
    BY <1>2, <1>3

LEMMA ResolveReplaces ==
    ASSUME TypeOK, NEW t \in Threads, Resolve(t)
    PROVE  \E f \in Frame :
             /\ Replaced(t, f)
             /\ f.fn = Top(t).fn
             /\ f.step = IF resolved + 1 < Len(Fns) THEN "lookup"
                         ELSE IF part = "alloc" THEN "map" ELSE "publish"
<1>1. PICK step : step = IF resolved + 1 < Len(Fns) THEN "lookup"
                         ELSE IF part = "alloc" THEN "map" ELSE "publish"
    OBVIOUS
<1>2. PICK n, g, f : /\ n = Len(stack[t])
                     /\ g = [Top(t) EXCEPT !.step = step]
                     /\ f = [g EXCEPT !.calls = 0]
    OBVIOUS
<1>3. Busy(t) /\ Top(t) \in Frame /\ n \in Nat \ {0}
    BY <1>2, TopFrame DEF Resolve, At
<1>4. f \in Frame /\ f.fn = Top(t).fn /\ f.step = step
    <2>1. step \in Steps
        BY <1>1 DEF Steps
    <2>2. g \in Frame /\ g.fn = Top(t).fn /\ g.step = step
        BY <1>2, <1>3, <2>1 DEF Frame
    <2>3. 0 \in 0 .. MaxDlsymCalls
        BY HookInitAssumption
    <2> QED
        BY <1>2, <2>2, <2>3 DEF Frame
<1>5. stack' = [stack EXCEPT ![t] = [@ EXCEPT ![Len(stack[t])] = f]]
    BY <1>1, <1>2, <1>3 DEF Resolve, Top, TypeOK
<1> QED
    BY <1>1, <1>3, <1>4, <1>5, ReplaceTop

LEMMA ResolveStack ==
    ASSUME TypeOK, StackPart, NEW t \in Threads, Resolve(t)
    PROVE  StackPart' /\ stack' \in [Threads -> Seq(Frame)]
<1>1. Busy(t) /\ At(t, "lookup") /\ UNCHANGED <<part, initialized, winner>>
    BY DEF Resolve, At, guards
<1>2. PICK n : n = Len(stack[t])
    OBVIOUS
<1>3. PICK f \in Frame :
         /\ Replaced(t, f)
         /\ f.fn = Top(t).fn
         /\ f.step = IF resolved + 1 < Len(Fns) THEN "lookup"
                     ELSE IF part = "alloc" THEN "map" ELSE "publish"
    BY ResolveReplaces
<1>4. FrameOK(t, n, Top(t))
    BY <1>1, <1>2, TopOK
<1>5. n = 1 /\ t = winner /\ ~initialized /\ resolved < Len(Fns) /\ resolved' = resolved + 1
    BY <1>1, <1>4 DEF FrameOK, At, Resolve
<1>6. Len(Fns) \in Nat /\ resolved \in Nat /\ Fns' = Fns
    BY <1>1, HookInitAssumption DEF TypeOK, Fns
<1>7. FrameOK(t, n, f)'
    <2>1. f.step \in {"lookup", "map", "publish"}
        BY <1>3
    <2>2. f.step = "lookup" => resolved + 1 < Len(Fns)
        BY <1>3
    <2>3. f.step # "lookup" => resolved + 1 = Len(Fns)
        BY <1>3, <1>5, <1>6
    <2>4. f.fn \in Entries'
        BY <1>1, <1>3, <1>4 DEF FrameOK, Entries, Fns
    <2> QED
        BY <1>1, <1>5, <1>6, <2>1, <2>2, <2>3, <2>4 DEF FrameOK
<1>8. Missing' \subseteq Missing
    BY <1>5, <1>6 DEF Missing
<1>9. Stable(t)
    <2> SUFFICES ASSUME NEW u \in Threads, NEW i \in Nat, NEW g \in Frame, FrameOK(u, i, g),
                        g.step \notin InitSteps
                 PROVE  FrameOK(u, i, g)'
        BY <1>1 DEF Stable, At, InitSteps
    <2> QED
        BY <1>1, <1>6, <1>8 DEF FrameOK, InitSteps, Entries
<1> QED
    BY <1>1, <1>2, <1>3, <1>7, <1>9, ReplaceKept DEF Replaced

LEMMA PublishStack ==
    ASSUME TypeOK, StackPart, NEW t \in Threads, MakeMap(t) \/ Publish(t)
    PROVE  StackPart' /\ stack' \in [Threads -> Seq(Frame)]
<1>1. Busy(t) /\ Top(t).step \in InitSteps /\ UNCHANGED <<part, resolved, winner>>
    BY DEF MakeMap, Publish, At, InitSteps
<1>2. PICK step \in Steps : \/ step = "publish" /\ MakeMap(t)
                            \/ step = "ensured" /\ Publish(t)
    BY DEF Steps
<1>3. PICK n, f : n = Len(stack[t]) /\ f = [Top(t) EXCEPT !.step = step]
    OBVIOUS
<1>4. Top(t) \in Frame /\ n \in Nat \ {0} /\ FrameOK(t, n, Top(t))
    BY <1>1, <1>3, TopFrame, TopOK
<1>5. f.fn = Top(t).fn /\ f.step = step
    BY <1>3, <1>4 DEF Frame
<1>6. Replaced(t, f)
    BY <1>1, <1>2, <1>3, GotoReplaces DEF MakeMap, Publish
<1>7. n = 1 /\ t = winner /\ ~initialized
    BY <1>1, <1>4 DEF FrameOK, InitSteps
<1>8. FrameOK(t, n, f)'
    BY <1>1, <1>2, <1>4, <1>5, <1>7
    DEF FrameOK, MakeMap, Publish, At, Entries, Fns, Missing
<1>9. Stable(t)
    <2> SUFFICES ASSUME NEW u \in Threads, NEW i \in Nat, NEW g \in Frame, FrameOK(u, i, g),
                        g.step \notin InitSteps
                 PROVE  FrameOK(u, i, g)'
        BY <1>1 DEF Stable
    <2> QED
        BY <1>1, <1>2, <1>7 DEF FrameOK, InitSteps, Entries, Fns, Missing, MakeMap, Publish
<1> QED
    BY <1>1, <1>3, <1>6, <1>8, <1>9, ReplaceKept DEF Replaced

\* An exception leaves the outermost call, so that nothing is left of the stack.
LEMMA ThrowStack ==
    ASSUME TypeOK, StackPart, NEW t \in Threads, MapThrows(t)
    PROVE  StackPart' /\ stack' \in [Threads -> Seq(Frame)]
<1>1. Busy(t) /\ At(t, "map") /\ UNCHANGED <<part, resolved, initialized, winner>>
    BY DEF MapThrows, At
<1>2. Len(stack[t]) = 1
    BY <1>1, TopOK DEF FrameOK, At
<1>3. stack' = [stack EXCEPT ![t] = <<>>]
    BY DEF MapThrows
<1>4. Popped(t)
    BY <1>2, <1>3 DEF Popped, TypeOK
<1> QED
    BY <1>1, <1>4, SharedStable, PopKept DEF Popped

LEMMA EnterStack ==
    ASSUME TypeOK, StackPart, NEW t \in Threads, NEW call \in HookCalls,
           Enter(t, call) \/ EnterFromDlsym(t, call), UNCHANGED shared
    PROVE  StackPart' /\ stack' \in [Threads -> Seq(Frame)]
<1>1. PICK f : f = NewFrame(call)
    OBVIOUS
<1>2. Pushed(t, f) /\ (~Busy(t) \/ At(t, "lookup"))
    BY <1>1, EnterPushes, DlsymPushes DEF Enter, EnterFromDlsym
<1>3. f.step = "test" /\ f.fn \in Entries
    BY <1>1, NewFrameTyped DEF NewFrame
<1> QED
    BY <1>2, <1>3, PushKept DEF Pushed

LEMMA StackKept ==
    ASSUME TypeOK, StackPart, GuardPart, [Next]_vars
    PROVE  StackPart' /\ stack' \in [Threads -> Seq(Frame)]
<1>1. CASE UNCHANGED vars
    BY <1>1 DEF vars, TypeOK, StackPart, FrameOK, Entries, Fns, Missing
<1> QED
    BY Zenon, <1>1, TestStack, EnsureStack, EnsuredStack, BootStack, ExchangeStack,
       ResolveStack, PublishStack, ThrowStack, EnterStack DEF Next, Step

\* Only the look-up of the winner has a call on top of it.
LEMMA StackBounded ==
    ASSUME StackPart', stack' \in [Threads -> Seq(Frame)], NEW t \in Threads
    PROVE  Len(stack'[t]) <= (IF t = winner' THEN 2 ELSE 1)
<1>1. Len(stack'[t]) \in Nat
    OBVIOUS
<1>2. ASSUME Len(stack'[t]) > 1 PROVE t = winner'
    <2>1. 1 \in 1 .. Len(stack'[t]) /\ 1 < Len(stack'[t])
        BY <1>1, <1>2
    <2> QED
        BY <2>1 DEF StackPart, FrameOK
<1>3. ASSUME Len(stack'[t]) > 2 PROVE FALSE
    <2>1. 2 \in 1 .. Len(stack'[t]) /\ 2 < Len(stack'[t])
        BY <1>1, <1>3
    <2> QED
        BY <2>1 DEF StackPart, FrameOK
<1> QED
    BY <1>1, <1>2, <1>3

\* The shared variables that the guard is about.
LEMMA GuardKept ==
    ASSUME TypeOK, StackPart, GuardPart, [Next]_vars
    PROVE  GuardPart' /\ winner' \in Threads \cup {Nobody} /\ resolved' \in 0 .. Len(Fns')
           /\ part' \in {"alloc", "io"}
<1>1. CASE UNCHANGED <<part, resolved, initialized, initializing, winner>>
    BY <1>1 DEF GuardPart, TypeOK, Fns
<1>2. ASSUME NEW t \in Threads, Exchange(t) PROVE GuardPart' /\ winner' \in Threads \cup {Nobody}
        /\ resolved' \in 0 .. Len(Fns') /\ part' \in {"alloc", "io"}
    BY <1>2, HookInitAssumption DEF Exchange, IsFirst, GuardPart, TypeOK, Fns
<1>3. ASSUME NEW t \in Threads, Resolve(t) PROVE GuardPart' /\ winner' \in Threads \cup {Nobody}
        /\ resolved' \in 0 .. Len(Fns') /\ part' \in {"alloc", "io"}
    <2>1. t = winner /\ ~initialized /\ resolved < Len(Fns)
        BY <1>3, TopOK DEF Resolve, At, FrameOK
    <2>2. Len(Fns) \in Nat /\ Fns' = Fns
        BY <1>3, HookInitAssumption DEF Resolve, TypeOK, Fns
    <2> QED
        BY <1>3, <2>1, <2>2, HookInitAssumption DEF Resolve, guards, GuardPart, TypeOK
<1>4. ASSUME NEW t \in Threads, Publish(t) PROVE GuardPart' /\ winner' \in Threads \cup {Nobody}
        /\ resolved' \in 0 .. Len(Fns') /\ part' \in {"alloc", "io"}
    <2>1. t = winner /\ resolved = Len(Fns)
        BY <1>4, TopOK DEF Publish, At, FrameOK
    <2> QED
        BY <1>4, <2>1, HookInitAssumption DEF Publish, GuardPart, TypeOK, Fns
<1> QED
    BY <1>1, <1>2, <1>3, <1>4
    DEF Next, Step, BootCheck, BootTake, BootLoad, BootStore, MakeMap, MapThrows,
        shared, guards, vars

\* Where t is after its step; the other threads are where they were.
Others(t) == \A u \in Threads \ {t} : stack'[u] = stack[u]

LEMMA OthersSame ==
    ASSUME NEW t \in Threads, Others(t), NEW u \in Threads, u # t
    PROVE  (Busy(u)' <=> Busy(u)) /\ Top(u)' = Top(u)
    BY DEF Others, Busy, Top

LEMMA TopAfterReplace ==
    ASSUME TypeOK, NEW t \in Threads, Busy(t), NEW f, Replaced(t, f)
    PROVE  Others(t) /\ Busy(t)' /\ Top(t)' = f
    BY TopFrame DEF Replaced, Others, Busy, Top

LEMMA TopAfterGoto ==
    ASSUME TypeOK, NEW t \in Threads, Busy(t), NEW step \in Steps, Goto(t, step)
    PROVE  /\ Others(t) /\ Busy(t)' /\ Top(t)'.step = step
           /\ Top(t)'.fn = Top(t).fn /\ Top(t)'.size = Top(t).size
<1>1. PICK f : f = [Top(t) EXCEPT !.step = step]
    OBVIOUS
<1>2. Others(t) /\ Busy(t)' /\ Top(t)' = f
    BY <1>1, GotoReplaces, TopAfterReplace
<1>3. f.step = step /\ f.fn = Top(t).fn /\ f.size = Top(t).size
    BY <1>1, TopFrame DEF Frame
<1> QED
    BY <1>2, <1>3

LEMMA TopAfterReturn ==
    ASSUME TypeOK, StackPart, NEW t \in Threads, Busy(t), Popped(t)
    PROVE  Others(t) /\ (Busy(t)' => Top(t)'.step = "lookup")
<1>1. Others(t) /\ Len(stack[t]) \in Nat \ {0}
    BY TopFrame DEF Popped, Others
<1>2. ASSUME Busy(t)' PROVE Top(t)'.step = "lookup"
    <2>1. Len(stack'[t]) = Len(stack[t]) - 1 /\ Len(stack'[t]) # 0
        <3>1. stack'[t] \in Seq(Frame) /\ stack'[t] # <<>>
            BY <1>2 DEF Popped, Busy
        <3>2. Len(stack'[t]) = Len(stack[t]) - 1
            BY DEF Popped
        <3>3. Len(stack'[t]) # 0
            BY <3>1, EmptySeq
        <3> QED
            BY <3>2, <3>3
    <2>2. Len(stack[t]) - 1 \in 1 .. Len(stack[t]) /\ Len(stack[t]) - 1 < Len(stack[t])
        <3>1. PICK n \in Nat \ {0} : n = Len(stack[t])
            BY <1>1
        <3>2. n - 1 # 0
            BY <2>1, <3>1
        <3>3. n - 1 \in 1 .. n /\ n - 1 < n
            BY <3>2
        <3> QED
            BY <3>1, <3>3
    <2>3. Top(t)' = stack[t][Len(stack[t]) - 1]
        BY <1>1, <2>1, <2>2 DEF Popped, Top
    <2> QED
        BY <2>2, <2>3 DEF StackPart
<1> QED
    BY <1>1, <1>2

LEMMA TopAfterPush ==
    ASSUME TypeOK, NEW t \in Threads, NEW f, Pushed(t, f)
    PROVE  Others(t) /\ Busy(t)' /\ Top(t)' = f
    BY DEF TypeOK, Pushed, Others, Busy, Top

\* Which steps end in a frame that is in the bootstrap, or about to call.
LEMMA TopAfter ==
    ASSUME TypeOK, StackPart, NEW t \in Threads,
           \/ Step(t)
           \/ \E call \in HookCalls : Enter(t, call) \/ EnterFromDlsym(t, call)
    PROVE  /\ Others(t)
           /\ InBoot(t)' => BootCheck(t) \/ BootTake(t) \/ BootLoad(t)
           /\ At(t, "call")' => (Test(t) \/ Ensured(t)) /\ Top(t)'.fn = Top(t).fn
<1> DEFINE P == /\ Others(t)
                /\ InBoot(t)' => BootCheck(t) \/ BootTake(t) \/ BootLoad(t)
                /\ At(t, "call")' => (Test(t) \/ Ensured(t)) /\ Top(t)'.fn = Top(t).fn
<1>1. ASSUME NEW step \in Steps \ {"take", "load", "store", "call"}, Busy(t), Goto(t, step)
      PROVE  P
    BY <1>1, TopAfterGoto DEF At, InBoot
<1>2. ASSUME Busy(t), Return(t) PROVE P
    BY <1>2, TopAfterReturn, ReturnPops DEF At, InBoot
<1>3. CASE Test(t)
    <2>1. Busy(t)
        BY <1>3 DEF Test, At
    <2>2. CASE Goto(t, "call")
        BY <1>3, <2>1, <2>2, TopAfterGoto DEF At, InBoot, Steps
    <2>3. CASE Goto(t, "ensure") \/ Goto(t, "boot")
        BY <1>1, <2>1, <2>3 DEF Steps
    <2> QED
        BY <1>2, <1>3, <2>1, <2>2, <2>3 DEF Test
<1>4. CASE Ensured(t)
    <2>1. Busy(t)
        BY <1>4 DEF Ensured, At
    <2>2. CASE Goto(t, "call")
        BY <1>4, <2>1, <2>2, TopAfterGoto DEF At, InBoot, Steps
    <2> QED
        BY <1>2, <1>4, <2>1, <2>2 DEF Ensured
<1>5. CASE Ensure(t) \/ Spin(t)
    BY <1>1, <1>5 DEF Ensure, Spin, At, Steps
<1>6. CASE Call(t) \/ BootStore(t)
    BY <1>2, <1>6 DEF Call, BootStore, At
<1>7. CASE BootCheck(t) \/ BootTake(t) \/ BootLoad(t)
    <2>1. Busy(t)
        BY <1>7 DEF BootCheck, BootTake, BootLoad, At
    <2>2. CASE Goto(t, "take")
        BY <1>7, <2>1, <2>2, TopAfterGoto DEF At, Steps
    <2>3. CASE BootTake(t) \/ BootLoad(t)
        <3>1. PICK f \in Frame : Replaced(t, f) /\ f.step \in {"load", "store"}
            BY <2>3, BootReplaces
        <3> QED
            BY <1>7, <2>1, <3>1, TopAfterReplace DEF At
    <2> QED
        BY <1>2, <1>7, <2>1, <2>2, <2>3 DEF BootCheck
<1>8. CASE Exchange(t)
    BY <1>1, <1>8 DEF Exchange, At, Steps
<1>9. CASE Resolve(t)
    <2>1. PICK f \in Frame : Replaced(t, f) /\ f.step \in InitSteps
        BY <1>9, ResolveReplaces DEF InitSteps
    <2> QED
        BY <1>9, <2>1, TopAfterReplace DEF Resolve, At, InBoot, InitSteps
<1>10. CASE MakeMap(t) \/ Publish(t)
    BY <1>1, <1>10 DEF MakeMap, Publish, At, Steps
<1>11. CASE MapThrows(t)
    BY <1>11 DEF MapThrows, Others, TypeOK, At, InBoot, Busy
<1>12. ASSUME NEW call \in HookCalls, Enter(t, call) \/ EnterFromDlsym(t, call) PROVE P
    <2>1. PICK f : f = NewFrame(call)
        OBVIOUS
    <2>2. Pushed(t, f) /\ f.step = "test"
        BY <1>12, <2>1, EnterPushes, DlsymPushes DEF NewFrame
    <2> QED
        BY <2>2, TopAfterPush DEF At, InBoot
<1> QED
    BY Zenon, <1>3, <1>4, <1>5, <1>6, <1>7, <1>8, <1>9, <1>10, <1>11, <1>12 DEF Step

\* A byte is handed out once as long as nobody passes the check of the room while another
\* thread is between its own check and the store.
LEMMA BootKept ==
    ASSUME TypeOK, StackPart, GuardPart, BootPart, [Next]_vars
    PROVE  BootPart' /\ bootstrap_idx' \in Nat
<1> DEFINE P == BootPart' /\ bootstrap_idx' \in Nat
<1>1. ASSUME NEW t \in Threads, Others(t), NEW u \in Threads, u # t
      PROVE  (InBoot(u)' <=> InBoot(u)) /\ Top(u)' = Top(u)
    BY <1>1, OthersSame DEF At, InBoot
<1>2. ASSUME NEW t \in Threads, BootCheck(t) PROVE P
    <2>1. Others(t) /\ UNCHANGED <<bootstrap_idx, handed, overlap>> /\ At(t, "boot") /\ Busy(t)
        BY <1>2, TopAfter DEF Step, BootCheck, At
    <2>2. CASE HasRoom(Top(t).size)
        <3>1. Goto(t, "take") /\ raced' = (raced \/ \E u \in Threads : InBoot(u))
            BY <1>2, <2>2 DEF BootCheck
        <3>2. Top(t)'.step = "take" /\ Top(t)'.size = Top(t).size
            BY <2>1, <3>1, TopAfterGoto DEF Steps
        <3>3. bootstrap_idx' + Top(t)'.size <= BufSize
            BY <2>1, <2>2, <3>2 DEF HasRoom
        <3> QED
            BY <1>1, <2>1, <3>1, <3>2, <3>3 DEF BootPart, TypeOK
    <2>3. CASE ~HasRoom(Top(t).size)
        <3>1. Return(t) /\ raced' = raced
            BY <1>2, <2>3 DEF BootCheck
        <3>2. ~InBoot(t)'
            BY <2>1, <3>1, ReturnPops, TopAfterReturn DEF At, InBoot
        <3> QED
            BY <1>1, <2>1, <3>1, <3>2 DEF BootPart, TypeOK
    <2> QED
        BY <2>2, <2>3
<1>3. ASSUME NEW t \in Threads, BootTake(t) \/ BootLoad(t) PROVE P
    <2>1. PICK f \in Frame :
            /\ Replaced(t, f) /\ f.size = Top(t).size
            /\ \/ BootTake(t) /\ f.step = "load" /\ f.ptr = bootstrap_idx
               \/ /\ BootLoad(t) /\ f.step = "store"
                  /\ f.ptr = Top(t).ptr /\ f.idx = bootstrap_idx
        BY <1>3, BootReplaces
    <2>2. /\ UNCHANGED buffer /\ Busy(t) /\ InBoot(t) /\ Top(t).step \in {"take", "load"}
          /\ BootLoad(t) => Top(t).step = "load"
        BY <1>3 DEF BootTake, BootLoad, At, InBoot, shared
    <2>3. Others(t) /\ Top(t)' = f
        BY <2>1, <2>2, TopAfterReplace
    <2>4. ~raced => /\ bootstrap_idx + f.size <= BufSize /\ f.ptr = bootstrap_idx
                    /\ f.step = "store" => f.idx = bootstrap_idx
        BY <2>1, <2>2 DEF BootPart
    <2> QED
        BY <1>1, <2>2, <2>3, <2>4 DEF BootPart, TypeOK, buffer
<1>4. ASSUME NEW t \in Threads, BootStore(t) PROVE P
    <2>1. Others(t) /\ ~InBoot(t)' /\ InBoot(t) /\ Busy(t) /\ Top(t).step = "store"
        BY <1>4, TopAfter DEF Step, BootCheck, BootTake, BootLoad, BootStore, At, InBoot
    <2>2. PICK q, i, n : q = Top(t).ptr /\ i = Top(t).idx /\ n = Top(t).size
        OBVIOUS
    <2>3. q \in Nat /\ i \in Nat /\ n \in Nat
        <3>1. Sizes \cup {0} \subseteq Nat
            BY HookInitAssumption
        <3>2. Top(t).ptr \in Nat /\ Top(t).idx \in Nat /\ Top(t).size \in Sizes \cup {0}
            BY <2>1, TopFrame DEF Frame
        <3> QED
            BY <2>2, <3>1, <3>2
    <2>4. /\ bootstrap_idx' = i + n /\ raced' = raced
          /\ handed' = handed \cup (q .. q + n - 1)
          /\ overlap' = (overlap \/ (q .. q + n - 1) \cap handed # {})
        BY <1>4, <2>2 DEF BootStore
    <2>5. ASSUME ~raced'
          PROVE  /\ ~overlap' /\ bootstrap_idx' <= BufSize
                 /\ \A b \in handed' : b \in 0 .. bootstrap_idx' - 1
                 /\ \A u \in Threads : ~InBoot(u)'
        <3>1. ~raced
            BY <2>4, <2>5
        <3>2. q = bootstrap_idx /\ i = bootstrap_idx /\ i + n <= BufSize
            BY <2>1, <2>2, <3>1 DEF BootPart
        <3>3. \A b \in handed : b \in 0 .. q - 1
            BY <3>1, <3>2 DEF BootPart
        <3>4. (q .. q + n - 1) \cap handed = {}
            BY <2>3, <3>3
        <3>5. ~overlap'
            BY <2>4, <3>1, <3>4 DEF BootPart
        <3>6. \A b \in handed' : b \in 0 .. bootstrap_idx' - 1
            BY <2>3, <2>4, <3>2, <3>3
        <3>7. \A u \in Threads : ~InBoot(u)'
            BY <1>1, <2>1, <3>1 DEF BootPart
        <3> QED
            BY <2>4, <3>2, <3>5, <3>6, <3>7
    <2>6. BootPart'
        BY <2>5 DEF BootPart
    <2>7. bootstrap_idx' \in Nat
        BY <2>3, <2>4
    <2> QED
        BY <2>6, <2>7
<1>5. ASSUME UNCHANGED buffer,
             \A t \in Threads : InBoot(t)' => InBoot(t) /\ Top(t)' = Top(t)
      PROVE  P
    BY <1>5 DEF BootPart, TypeOK, buffer
<1>6. ASSUME NEW t \in Threads, ~BootCheck(t), ~BootTake(t), ~BootLoad(t), UNCHANGED buffer,
             \/ Step(t)
             \/ \E call \in HookCalls : Enter(t, call) \/ EnterFromDlsym(t, call)
      PROVE  P
    <2>1. Others(t) /\ ~InBoot(t)'
        BY <1>6, TopAfter
    <2> QED
        BY <1>1, <1>5, <1>6, <2>1
<1>7. CASE UNCHANGED vars
    BY <1>5, <1>7 DEF vars, buffer, At, InBoot, Top, Busy
<1>8. ASSUME NEW t \in Threads, Step(t) PROVE P
    BY Zenon, <1>2, <1>3, <1>4, <1>6, <1>8
    DEF Step, shared, Exchange, Resolve, MakeMap, MapThrows, Publish
<1> HIDE DEF P
<1>9. ASSUME NEW t \in Threads, NEW call \in HookCalls,
             Enter(t, call) \/ EnterFromDlsym(t, call), UNCHANGED shared
      PROVE  P
    BY <1>6, <1>9 DEF shared, BootCheck, BootTake, BootLoad, At, Enter, EnterFromDlsym, Busy
<1> QED
    BY Zenon, <1>7, <1>8, <1>9 DEF Next, P

\* The flags stay flags.
LEMMA FlagsKept ==
    ASSUME TypeOK, [Next]_vars
    PROVE  /\ in_dlsym' \in BOOLEAN /\ initialized' \in BOOLEAN /\ initializing' \in BOOLEAN
           /\ g_allocations' \in BOOLEAN /\ overlap' \in BOOLEAN /\ raced' \in BOOLEAN
           /\ failed' \in BOOLEAN
<1>1. /\ in_dlsym \in BOOLEAN /\ initialized \in BOOLEAN /\ initializing \in BOOLEAN
      /\ g_allocations \in BOOLEAN /\ overlap \in BOOLEAN /\ raced \in BOOLEAN
      /\ failed \in BOOLEAN
    BY DEF TypeOK
<1>2. in_dlsym' \in BOOLEAN
    BY <1>1 DEF Next, Step, shared, BootCheck, BootTake, BootLoad, BootStore,
       Exchange, Resolve, MakeMap, MapThrows, Publish, vars
<1>3. initialized' \in BOOLEAN /\ initializing' \in BOOLEAN
    BY <1>1 DEF Next, Step, shared, guards, BootCheck, BootTake, BootLoad, BootStore,
       Exchange, Resolve, MakeMap, MapThrows, Publish, vars
<1>4. g_allocations' \in BOOLEAN /\ failed' \in BOOLEAN
    BY <1>1 DEF Next, Step, shared, guards, BootCheck, BootTake, BootLoad, BootStore,
       Exchange, Resolve, MakeMap, MapThrows, Publish, vars
<1>5. overlap' \in BOOLEAN /\ raced' \in BOOLEAN
    BY <1>1 DEF Next, Step, shared, buffer, BootCheck, BootTake, BootLoad, BootStore,
       Exchange, Resolve, MakeMap, MapThrows, Publish, vars
<1> QED
    BY <1>2, <1>3, <1>4, <1>5

LEMMA StepTyped ==
    ASSUME TypeOK, StackPart, GuardPart, BootPart, [Next]_vars
    PROVE  TypeOK'
<1>1. stack' \in [Threads -> Seq(Frame)]
    BY StackKept
<1>2. \A t \in Threads : Len(stack'[t]) <= (IF t = winner' THEN 2 ELSE 1)
    BY <1>1, StackKept, StackBounded
<1>3. {in_dlsym, initialized, initializing, g_allocations, overlap, raced, failed}'
        \subseteq BOOLEAN
    BY FlagsKept
<1>4. /\ winner' \in Threads \cup {Nobody} /\ resolved' \in 0 .. Len(Fns')
      /\ part' \in {"alloc", "io"} /\ bootstrap_idx' \in Nat
    BY GuardKept, BootKept
<1> QED
    BY ONLY <1>1, <1>2, <1>3, <1>4 DEF TypeOK

-----------------------------------------------------------------------------
\* The inductive invariant holds whatever threads call hooks, from dlsym too.
THEOREM InductiveInvariant == Spec => []IInv
<1>1. Init => IInv
    <2> SUFFICES ASSUME Init PROVE IInv
        OBVIOUS
    <2> USE HookInitAssumption
    <2>1. Len(Fns) \in Nat /\ part \in {"alloc", "io"}
        BY DEF Init, Fns
    <2>2. resolved \in 0 .. Len(Fns) /\ bootstrap_idx \in Nat
        BY <2>1 DEF Init
    <2>3. {in_dlsym, initialized, initializing, g_allocations, overlap, raced, failed}
            \subseteq BOOLEAN
        BY DEF Init
    <2>4. /\ stack \in [Threads -> Seq(Frame)]
          /\ \A t \in Threads : stack[t] = <<>> /\ Len(stack[t]) = 0
        BY DEF Init
    <2>5. TypeOK
        <3>1. \A t \in Threads : Len(stack[t]) <= (IF t = winner THEN 2 ELSE 1)
            BY <2>4
        <3>2. winner \in Threads \cup {Nobody}
            BY DEF Init
        <3> QED
            BY ONLY <2>1, <2>2, <2>3, <2>4, <3>1, <3>2 DEF TypeOK
    <2>6. StackPart
        BY <2>4 DEF StackPart
    <2>7. GuardPart
        BY <2>1 DEF Init, GuardPart
    <2>8. BootPart
        BY <2>4 DEF Init, BootPart, InBoot, At, Busy
    <2> QED
        BY ONLY <2>5, <2>6, <2>7, <2>8 DEF IInv, Control
<1>2. IInv /\ [Next]_vars => IInv'
    BY StepTyped, StackKept, GuardKept, BootKept DEF IInv, Control
<1> QED
    BY <1>1, <1>2, PTL DEF Spec

\* The hooks and InitHooks keep every variable in its type, and no thread's hook calls
\* nest but the winner's own, once.
THEOREM TypeCorrect == Spec => []TypeOK
<1>1. IInv => TypeOK
    BY DEF IInv
<1> QED
    BY <1>1, InductiveInvariant, PTL

\* What the bootstrap hands out are disjoint bytes of its buffer, unless a thread has
\* passed the check of the room while another was between its own check and the store of
\* bootstrap_idx (linux_alloc_hooks.cpp:96-98, 125-127), for any sizes and any calls that
\* dlsym makes.
THEOREM BootstrapSafe == Spec => []BootSafe
<1>1. IInv => BootSafe
    BY HookInitAssumption DEF IInv, Control, TypeOK, BootPart, BootSafe, BootBlocks
<1> QED
    BY <1>1, InductiveInvariant, PTL

-----------------------------------------------------------------------------
\* The real function each thread is calling, as OnceInit sees it.
Calling == [t \in Threads |-> IF At(t, "call") THEN Top(t).fn ELSE "none"]

LEMMA CallingSame ==
    ASSUME NEW t \in Threads, Others(t), ~At(t, "call"), ~At(t, "call")'
    PROVE  Calling' = Calling
<1>1. ASSUME NEW u \in Threads
      PROVE  (IF At(u, "call") THEN Top(u).fn ELSE "none")'
             = IF At(u, "call") THEN Top(u).fn ELSE "none"
    <2>1. CASE u = t
        BY <2>1
    <2>2. CASE u # t
        BY <2>2, OthersSame DEF At
    <2> QED
        BY <2>1, <2>2
<1> QED
    BY <1>1 DEF Calling

LEMMA CallingChanges ==
    ASSUME NEW t \in Threads, Others(t)
    PROVE  Calling' = [Calling EXCEPT ![t] = (IF At(t, "call") THEN Top(t).fn ELSE "none")']
<1>1. PICK f : f = (IF At(t, "call") THEN Top(t).fn ELSE "none")'
    OBVIOUS
<1>2. ASSUME NEW u \in Threads
      PROVE  (IF At(u, "call") THEN Top(u).fn ELSE "none")'
             = IF u = t THEN f ELSE IF At(u, "call") THEN Top(u).fn ELSE "none"
    <2>1. CASE u = t
        BY <1>1, <2>1
    <2>2. CASE u # t
        BY <2>2, OthersSame DEF At
    <2> QED
        BY <2>1, <2>2
<1> QED
    BY <1>1, <1>2 DEF Calling

\* Looking up the next function removes it from the missing ones, unless its name comes
\* again.
LEMMA MissingAfter ==
    ASSUME TypeOK, StackPart, NEW t \in Threads, Resolve(t)
    PROVE  \/ Missing' = Missing
           \/ \E f \in FunctionNames : f \in Missing /\ Missing' = Missing \ {f}
<1>1. Busy(t) /\ Top(t).step = "lookup"
    BY DEF Resolve, At
<1>2. resolved < Len(Fns) /\ resolved' = resolved + 1 /\ Fns' = Fns
    BY <1>1, TopOK DEF FrameOK, Resolve, Fns
<1>3. Len(Fns) \in Nat /\ resolved \in Nat
    BY HookInitAssumption DEF TypeOK, Fns
<1>4. PICK f : f = Fns[resolved + 1]
    OBVIOUS
<1>5. resolved + 1 \in DOMAIN Fns /\ f \in Missing
    BY <1>2, <1>3, <1>4, HookInitAssumption DEF TypeOK, Fns, Missing
<1>6. f \in FunctionNames
    BY <1>4, <1>5 DEF FunctionNames, Names, Fns, TypeOK
<1>7. Missing = {f} \cup Missing'
    BY <1>2, <1>3, <1>4 DEF Missing
<1> QED
    BY <1>5, <1>6, <1>7

\* Every step of a hook is a step of OnceInit, or changes nothing it sees.
LEMMA StepImplements ==
    ASSUME IInv, IInv', [Next]_vars
    PROVE  [Once!Next]_(Once!vars)
<1> USE DEF IInv, Control
<1>1. ASSUME UNCHANGED <<winner, Missing, initialized, Calling>>
      PROVE  UNCHANGED Once!vars
    BY <1>1 DEF Once!vars, Calling
<1>2. ASSUME NEW t \in Threads, Others(t), ~At(t, "call"), ~At(t, "call")',
             UNCHANGED <<winner, part, resolved, initialized>>
      PROVE  UNCHANGED Once!vars
    <2>1. Calling' = Calling
        BY <1>2, CallingSame
    <2>2. Missing' = Missing
        BY <1>2 DEF Missing, Fns
    <2> QED
        BY <1>1, <1>2, <2>1, <2>2
<1>3. ASSUME NEW t \in Threads, Test(t) \/ Ensured(t), UNCHANGED shared
      PROVE  [Once!Next]_(Once!vars)
    <2>1. Others(t) /\ ~At(t, "call") /\ UNCHANGED <<winner, part, resolved, initialized>>
        BY <1>3, TopAfter DEF Step, Test, Ensured, At, shared, guards
    <2>2. CASE At(t, "call")'
        <3>1. PICK f : f = Top(t)'.fn
            OBVIOUS
        <3>2. f \in (Names(Fns) \ Missing)'
            <4>1. Len(stack'[t]) \in 1 .. Len(stack'[t]) /\ Top(t)' = stack'[t][Len(stack'[t])]
                BY <2>2, EmptySeq DEF At, Busy, Top, TypeOK
            <4> QED
                BY <2>2, <3>1, <4>1 DEF StackPart, FrameOK, At
        <3>3. f \in FunctionNames /\ f \notin Missing /\ Missing' = Missing
            BY <2>1, <3>2 DEF FunctionNames, Names, Fns, Missing, TypeOK
        <3>4. Calling' = [Calling EXCEPT ![t] = f]
            BY <2>1, <2>2, <3>1, CallingChanges
        <3>5. Calling[t] = "none"
            BY <2>1 DEF Calling
        <3>6. Once!Enter(t, f)
            BY <2>1, <3>3, <3>4, <3>5 DEF Once!Enter, Calling
        <3> QED
            BY <3>3, <3>6 DEF Once!Next
    <2> QED
        BY <1>2, <2>1, <2>2
<1>4. ASSUME NEW t \in Threads, Call(t), UNCHANGED shared
      PROVE  [Once!Next]_(Once!vars)
    <2>1. Others(t) /\ At(t, "call") /\ UNCHANGED <<winner, part, resolved, initialized>>
        BY <1>4, TopAfter DEF Step, Call, shared, guards
    <2>2. ~At(t, "call")'
        BY <1>4, <2>1, TopAfter DEF Step, Test, Ensured, At
    <2>3. Calling' = [Calling EXCEPT ![t] = "none"] /\ Missing' = Missing
        BY <2>1, <2>2, CallingChanges DEF Missing, Fns
    <2>4. CASE Calling[t] = "none"
        <3>1. Calling' = Calling
            BY <2>3, <2>4 DEF Calling
        <3> QED
            BY <1>1, <2>1, <2>3, <3>1
    <2>5. CASE Calling[t] # "none"
        <3>1. Once!Leave(t)
            BY <2>1, <2>3, <2>5 DEF Once!Leave, Calling
        <3> QED
            BY <3>1 DEF Once!Next
    <2> QED
        BY <2>4, <2>5
<1>5. ASSUME NEW t \in Threads, Exchange(t) PROVE [Once!Next]_(Once!vars)
    <2>1. /\ Others(t) /\ ~At(t, "call") /\ ~At(t, "call")'
          /\ UNCHANGED <<part, resolved, initialized>>
        BY <1>5, TopAfter DEF Step, Exchange, Test, Ensured, At, guards
    <2>2. CASE IsFirst(t)
        <3>1. winner = Nobody /\ winner' = t
            BY <1>5, <2>2 DEF Exchange, IsFirst, GuardPart
        <3>2. Calling' = Calling /\ Missing' = Missing
            BY <2>1, CallingSame DEF Missing, Fns
        <3>3. Once!Win(t)
            BY <2>1, <3>1, <3>2 DEF Once!Win, Calling
        <3> QED
            BY <3>3 DEF Once!Next
    <2>3. CASE ~IsFirst(t)
        BY <1>2, <1>5, <2>1, <2>3 DEF Exchange
    <2> QED
        BY <2>2, <2>3
<1>6. ASSUME NEW t \in Threads, Resolve(t) PROVE [Once!Next]_(Once!vars)
    <2>1. Others(t) /\ ~At(t, "call") /\ ~At(t, "call")' /\ UNCHANGED <<winner, initialized>>
        BY <1>6, TopAfter DEF Step, Resolve, Test, Ensured, At, guards
    <2>2. winner # Nobody /\ ~initialized
        BY <1>6, TopOK, HookInitAssumption DEF Resolve, At, FrameOK
    <2>3. Calling' = Calling
        BY <2>1, CallingSame
    <2>4. CASE Missing' = Missing
        BY <1>1, <2>1, <2>3, <2>4
    <2>5. ASSUME NEW f \in FunctionNames, f \in Missing, Missing' = Missing \ {f}
          PROVE  Once!Next
        <3>1. Once!LookUp(f)
            BY <2>1, <2>2, <2>3, <2>5 DEF Once!LookUp, Calling
        <3> QED
            BY <3>1 DEF Once!Next
    <2> QED
        BY <1>6, <2>4, <2>5, MissingAfter
<1>7. ASSUME NEW t \in Threads, Publish(t) PROVE [Once!Next]_(Once!vars)
    <2>1. Others(t) /\ ~At(t, "call") /\ ~At(t, "call")' /\ UNCHANGED <<winner, part, resolved>>
        BY <1>7, TopAfter DEF Step, Publish, Test, Ensured, At
    <2>2. winner # Nobody /\ ~initialized /\ resolved = Len(Fns)
        BY <1>7, TopOK, HookInitAssumption DEF Publish, At, FrameOK
    <2>3. Missing = {} /\ Missing' = Missing /\ Calling' = Calling
        BY <2>1, <2>2, CallingSame DEF Missing, Fns, TypeOK
    <2>4. Once!Publish
        BY <1>7, <2>1, <2>2, <2>3 DEF Publish, Once!Publish, Calling
    <2> QED
        BY <2>4 DEF Once!Next
<1>8. ASSUME NEW t \in Threads,
             \/ (Ensure(t) \/ Spin(t)) /\ UNCHANGED shared
             \/ BootCheck(t) \/ BootTake(t) \/ BootLoad(t) \/ BootStore(t)
             \/ MakeMap(t) \/ MapThrows(t)
      PROVE  [Once!Next]_(Once!vars)
    <2>1. Others(t) /\ ~At(t, "call") /\ ~At(t, "call")'
        BY <1>8, TopAfter
        DEF Step, Ensure, Spin, BootCheck, BootTake, BootLoad, BootStore, MakeMap,
            MapThrows, Test, Ensured, At
    <2>2. UNCHANGED <<winner, part, resolved, initialized>>
        BY <1>8 DEF shared, guards, BootCheck, BootTake, BootLoad, BootStore, MakeMap, MapThrows
    <2> QED
        BY <1>2, <2>1, <2>2
<1>9. ASSUME NEW t \in Threads, NEW call \in HookCalls,
             Enter(t, call) \/ EnterFromDlsym(t, call), UNCHANGED shared
      PROVE  [Once!Next]_(Once!vars)
    <2>1. Others(t) /\ ~At(t, "call") /\ ~At(t, "call")'
        BY <1>9, TopAfter DEF Enter, EnterFromDlsym, Test, Ensured, At
    <2>2. UNCHANGED <<winner, part, resolved, initialized>>
        BY <1>9 DEF shared, guards
    <2> QED
        BY <1>2, <2>1, <2>2
<1>10. CASE UNCHANGED vars
    <2>1. UNCHANGED <<winner, Missing, initialized, Calling>>
        BY <1>10 DEF vars, Calling, At, Top, Busy, Missing, Fns
    <2> QED
        BY <1>1, <2>1
<1> QED
    BY ONLY Zenon, [Next]_vars, <1>3, <1>4, <1>5, <1>6, <1>7, <1>8, <1>9, <1>10 DEF Next, Step

\* The guards of the hooks implement OnceInit: of all the threads that find the hooks
\* uninitialised one looks the functions up, and no hook calls through a null pointer
\* (linux_alloc_hooks.cpp:54-79, linux_io_hooks.cpp).
THEOREM InitialisesOnce == Spec => OnceSpec
<1>1. Init => Once!Init
    <2> SUFFICES ASSUME Init PROVE Once!Init
        OBVIOUS
    <2>1. Calling = [t \in Threads |-> "none"]
        BY DEF Init, Calling, At, Busy
    <2>2. Missing \subseteq FunctionNames /\ Missing # {}
        <3>1. part \in {"alloc", "io"} /\ Fns \in Seq(STRING) /\ Fns # <<>>
            BY HookInitAssumption DEF Init, Fns
        <3>2. Missing = {Fns[i] : i \in 1 .. Len(Fns)} /\ Len(Fns) \in Nat \ {0}
            BY <3>1, EmptySeq DEF Init, Missing
        <3>3. Missing \subseteq FunctionNames
            BY <3>1, <3>2 DEF FunctionNames, Names, Fns
        <3>4. Fns[1] \in Missing
            BY <3>2
        <3> QED
            BY <3>3, <3>4
    <2> QED
        BY <2>1, <2>2 DEF Init, Once!Init, Calling
<1>2. IInv /\ IInv' /\ [Next]_vars => [Once!Next]_(Once!vars)
    BY StepImplements
<1> QED
    BY <1>1, <1>2, InductiveInvariant, PTL DEF Spec, OnceSpec, Once!Spec
=============================================================================
