---------------------- MODULE IsolatedAllocator_proofs ----------------------
(***************************************************************************)
(* Proofs about the isolated allocator, for every set of threads, request  *)
(* sizes, alignments, capacities and block addresses.  The inductive       *)
(* invariant IInv adds to the properties of IsolatedAllocator what they    *)
(* rest on: who is in the critical section, that mapped blocks lie apart,  *)
(* and that what a thread computed under the lock still describes the      *)
(* block it is about to serve from.                                        *)
(***************************************************************************)
EXTENDS IsolatedAllocator, TLAPS

Critical == {"init", "scan", "bump", "grow"}

\* mutex_ names exactly the thread that is between lock and return.
LockInv ==
    /\ \A t \in Threads : pc[t] \in Critical <=> mutex_ = t
    /\ \A t \in Threads : pc[t] # "idle" => req[t] \in Request
    /\ \A t \in Threads : pc[t] = "init" => blocks = <<>> /\ curr[t] = 1

Separate(b, c) == b.base + b.size <= c.base \/ c.base + c.size <= b.base

\* No two blocks of the list overlap.
Layout ==
    \A i, j \in DOMAIN blocks : i # j => Separate(blocks[i], blocks[j])

\* What Scan computed is still right when Bump uses it.
HitInv ==
    \A t \in Threads : pc[t] = "bump" =>
        /\ curr[t] \in DOMAIN blocks
        /\ Fits(blocks[curr[t]], req[t])
        /\ hit[t].addr = AlignedIn(blocks[curr[t]], req[t].align)
        /\ hit[t].pad = PaddingIn(blocks[curr[t]], req[t].align)

\* The blocks the scan has passed have no room for the request.
ScanInv ==
    \A t \in Threads :
        /\ pc[t] \in {"scan", "grow"} =>
            \A i \in DOMAIN blocks : i < curr[t] => ~Fits(blocks[i], req[t])
        /\ pc[t] = "grow" => \A i \in DOMAIN blocks : i < curr[t]

IInv ==
    /\ TypeOK
    /\ LockInv
    /\ Layout
    /\ HitInv
    /\ ScanInv
    /\ InBounds
    /\ LiveDisjoint

-----------------------------------------------------------------------------
\* Every element of the block list is a block.
LEMMA BlocksTyped ==
    ASSUME TypeOK, NEW i \in DOMAIN blocks
    PROVE  /\ blocks[i] \in Block
           /\ blocks[i].base \in Nat /\ blocks[i].size \in Nat /\ blocks[i].used \in Nat
<1>1. blocks \in Seq(Block)
  BY DEF TypeOK
<1>2. blocks[i] \in Block
  BY <1>1
<1> QED
  BY <1>2 DEF Block

\* Rounding up gives a multiple of the alignment, less than one alignment away.
LEMMA AlignUpFacts ==
    ASSUME NEW x \in Nat, NEW a \in Nat \ {0}
    PROVE  /\ AlignUp(x, a) \in Nat
           /\ x <= AlignUp(x, a)
           /\ AlignUp(x, a) < x + a
           /\ AlignUp(x, a) % a = 0
<1>1. AlignUp(x, a) \in Nat
  BY DEF AlignUp
<1>2. x <= AlignUp(x, a) /\ AlignUp(x, a) < x + a
  BY DEF AlignUp
<1>3. AlignUp(x, a) % a = 0
  BY DEF AlignUp
<1> QED
  BY <1>1, <1>2, <1>3

\* The address and the padding Allocate computes for a block.
LEMMA PaddingFacts ==
    ASSUME NEW b \in Block, NEW a \in Alignments
    PROVE  /\ AlignedIn(b, a) \in Nat
           /\ PaddingIn(b, a) \in Nat
           /\ PaddingIn(b, a) < a
           /\ AlignedIn(b, a) = b.base + b.used + PaddingIn(b, a)
           /\ AlignedIn(b, a) % a = 0
<1> USE RequestAssumption
<1>1. b.base + b.used \in Nat /\ a \in Nat \ {0}
  BY DEF Block
<1> DEFINE u == AlignUp(b.base + b.used, a)
<1>2. u \in Nat /\ b.base + b.used <= u /\ u < b.base + b.used + a /\ u % a = 0
  BY <1>1, AlignUpFacts
<1>3. AlignedIn(b, a) = u /\ PaddingIn(b, a) = u - (b.base + b.used)
  BY DEF AlignedIn, PaddingIn
<1> HIDE DEF u
<1> QED
  BY <1>1, <1>2, <1>3

\* A block fresh from AllocateOSBlock is one of the type, apart from every other.
LEMMA OSBlockFacts ==
    ASSUME TypeOK, NEW size \in Nat, NEW b \in OSBlocks(size)
    PROVE  /\ b \in Block
           /\ b.size = size /\ b.used = 0
           /\ \A i \in DOMAIN blocks : Separate(b, blocks[i])
<1>1. PICK x \in Bases : Unmapped(x, size) /\ b = [base |-> x, size |-> size, used |-> 0]
  BY DEF OSBlocks
<1>2. x \in Nat
  BY BlockAssumption
<1>3. b \in Block /\ b.base = x /\ b.size = size /\ b.used = 0
  BY <1>1, <1>2 DEF Block
<1>4. ASSUME NEW i \in DOMAIN blocks PROVE Separate(b, blocks[i])
  <2>1. blocks[i] \in Block
    BY BlocksTyped
  <2>2. HeaderSize \in Nat
    BY BlockAssumption
  <2> QED
    BY <1>1, <1>2, <1>3, <2>1, <2>2 DEF Unmapped, Separate, Block
<1> QED
  BY <1>3, <1>4

\* The larger of two numbers.
LEMMA LargerFacts ==
    ASSUME NEW m \in Nat, NEW n \in Nat
    PROVE  Larger(m, n) \in Nat /\ Larger(m, n) >= m /\ Larger(m, n) >= n
BY DEF Larger

\* A grown block has room for the request it was mapped for, padding included.
LEMMA GrownBlockFits ==
    ASSUME NEW b \in Block, NEW r \in Request,
           b.used = 0, b.size = Larger(2 * r.size, MinBlock)
    PROVE  Fits(b, r)
<1>1. r.size \in Nat /\ r.align \in Alignments
  BY RequestAssumption DEF Request
<1>2. r.align \in Nat /\ 2 * r.align <= MinBlock /\ MinBlock \in Nat
  BY <1>1, RequestAssumption, BlockAssumption
<1>3. b.size >= 2 * r.size /\ b.size >= MinBlock /\ b.size \in Nat
  BY <1>1, <1>2 DEF Larger
<1>4. PaddingIn(b, r.align) \in Nat /\ PaddingIn(b, r.align) < r.align
  BY <1>1, PaddingFacts
<1> QED
  BY <1>1, <1>2, <1>3, <1>4 DEF Fits

\* A range served from the unused part of a block shares no byte with a live one.
LEMMA FreshRange ==
    ASSUME TypeOK, InBounds, NEW q \in live, NEW base \in Nat, NEW lo \in Nat,
           NEW hi \in Nat, NEW a \in Nat, NEW s \in Nat, NEW al,
           base <= lo, lo <= a, a + s <= hi,
           \A i \in DOMAIN blocks :
             \/ hi <= blocks[i].base
             \/ blocks[i].base + blocks[i].used <= lo
    PROVE  Pool!Apart([addr |-> a, size |-> s, align |-> al], q)
<1>1. PICK i \in DOMAIN blocks : /\ blocks[i].base <= q.addr
                                 /\ q.addr + q.size <= blocks[i].base + blocks[i].used
  BY DEF InBounds
<1>2. q.addr \in Nat /\ q.size \in Nat
  BY RequestAssumption DEF TypeOK
<1>3. blocks[i].base \in Nat /\ blocks[i].used \in Nat
  BY BlocksTyped
<1> QED
  BY <1>1, <1>2, <1>3 DEF Pool!Apart

-----------------------------------------------------------------------------
\* The steps that leave the block list and the live ranges alone keep what is
\* said of them alone.
LEMMA PoolUnchanged ==
    ASSUME Layout, InBounds, LiveDisjoint, UNCHANGED <<blocks, live>>
    PROVE  Layout' /\ InBounds' /\ LiveDisjoint'
BY DEF Layout, InBounds, LiveDisjoint, Separate, Pool!Apart

\* The first block, mapped when there is none, keeps what is said of the pool.
LEMMA FirstBlock ==
    ASSUME IInv, blocks = <<>>, NEW n \in Nat, NEW b \in OSBlocks(n),
           blocks' = <<b>>, live' = live
    PROVE  /\ blocks' \in Seq(Block)
           /\ Layout' /\ InBounds' /\ LiveDisjoint'
<1>1. b \in Block /\ b.size = n /\ b.used = 0
  BY OSBlockFacts DEF IInv
<1>2. live = {}
  BY DEF IInv, InBounds
<1>3. DOMAIN blocks' = {1} /\ blocks'[1] = b /\ blocks' \in Seq(Block)
  BY <1>1
<1>4. Layout'
  BY <1>3 DEF Layout
<1>5. InBounds'
  BY <1>1, <1>2, <1>3 DEF InBounds
<1>6. LiveDisjoint'
  BY <1>2 DEF LiveDisjoint
<1> QED
  BY <1>3, <1>4, <1>5, <1>6

\* Allocate's return: the thread leaves the critical section and nothing is said
\* of it any more.
LEMMA ReturnKeeps ==
    ASSUME IInv, NEW t \in Threads, pc[t] \in Critical, Return(t)
    PROVE  /\ mutex_' \in Threads \cup {NoThread}
           /\ pc' \in [Threads -> Steps]
           /\ req' \in [Threads -> Request \cup {NoRequest}]
           /\ curr' \in [Threads -> Nat \ {0}]
           /\ hit' \in [Threads -> [addr : Nat, pad : Nat]]
           /\ \A u \in Threads : pc'[u] \notin Critical
           /\ LockInv' /\ HitInv' /\ ScanInv'
<1> USE DEF IInv
<1>1. /\ mutex_' \in Threads \cup {NoThread}
      /\ pc' \in [Threads -> Steps]
      /\ req' \in [Threads -> Request \cup {NoRequest}]
      /\ curr' \in [Threads -> Nat \ {0}]
      /\ hit' \in [Threads -> [addr : Nat, pad : Nat]]
  BY DEF TypeOK, Return, Steps, NoHit
<1>2. \A u \in Threads : u # t => pc[u] \notin Critical
  BY DEF LockInv
<1>3. \A u \in Threads : pc'[u] \notin Critical
  BY <1>2 DEF TypeOK, Return, Critical
<1>4. LockInv'
  <2>1. \A u \in Threads : pc'[u] \in Critical <=> mutex_' = u
    BY <1>3, ThreadsAssumption DEF Return
  <2>2. \A u \in Threads : pc'[u] # "idle" => req'[u] \in Request
    BY DEF TypeOK, Return, LockInv
  <2>3. \A u \in Threads : pc'[u] # "init"
    BY <1>3 DEF Critical
  <2> QED
    BY <2>1, <2>2, <2>3 DEF LockInv
<1>5. HitInv' /\ ScanInv'
  BY <1>3 DEF HitInv, ScanInv, Critical
<1> QED
  BY <1>1, <1>3, <1>4, <1>5

\* Bump: the range starts at or after the bump pointer and ends within the block.
LEMMA BumpKeeps ==
    ASSUME IInv, NEW t \in Threads, Bump(t)
    PROVE  IInv' /\ \A q \in live : Pool!Apart(Handed(t, hit[t].addr), q)
<1> DEFINE c == curr[t]  b == blocks[c]  r == req[t]
           new == Handed(t, hit[t].addr)
           top == b.used + PaddingIn(b, r.align) + r.size
<1> USE DEF IInv
<1>1. r \in Request /\ r.size \in Nat /\ r.align \in Alignments /\ r.size \in Sizes
  BY RequestAssumption DEF Bump, LockInv, Request
<1>2. c \in DOMAIN blocks /\ b \in Block /\ top <= b.size
  BY BlocksTyped DEF Bump, HitInv, Fits
<1>3. b.base \in Nat /\ b.size \in Nat /\ b.used \in Nat
  BY <1>2 DEF Block
<1>4. /\ hit[t].addr = AlignedIn(b, r.align)
      /\ hit[t].pad = PaddingIn(b, r.align)
      /\ hit[t].addr \in Nat /\ hit[t].pad \in Nat
      /\ hit[t].addr = b.base + b.used + hit[t].pad
      /\ hit[t].addr % r.align = 0
  BY <1>1, <1>2, PaddingFacts DEF Bump, HitInv
<1>5. top \in Nat /\ top >= b.used /\ top = b.used + hit[t].pad + r.size
      /\ hit[t].addr + r.size = b.base + top
  BY <1>1, <1>3, <1>4
<1>6. new = [addr |-> hit[t].addr, size |-> r.size, align |-> r.align]
  BY DEF Handed
<1> HIDE DEF new, top
<1>7. /\ DOMAIN blocks' = DOMAIN blocks
      /\ blocks' \in Seq(Block)
      /\ blocks'[c] = [b EXCEPT !.used = top]
      /\ \A i \in DOMAIN blocks : i # c => blocks'[i] = blocks[i]
  <2>1. blocks' = [blocks EXCEPT ![c] = [b EXCEPT !.used = top]]
    BY <1>3, <1>4, <1>5 DEF Bump
  <2>2. [b EXCEPT !.used = top] \in Block
    BY <1>2, <1>5 DEF Block
  <2> QED
    BY <1>2, <2>1, <2>2 DEF TypeOK
<1>8. blocks'[c].base = b.base /\ blocks'[c].size = b.size /\ blocks'[c].used = top
  BY <1>2, <1>7 DEF Block
<1>9. ASSUME NEW q \in live PROVE Pool!Apart(new, q)
  <2>1. \A i \in DOMAIN blocks : \/ b.base + b.size <= blocks[i].base
                                 \/ blocks[i].base + blocks[i].used <= b.base + b.used
    <3> SUFFICES ASSUME NEW i \in DOMAIN blocks, i # c
                 PROVE  \/ b.base + b.size <= blocks[i].base
                        \/ blocks[i].base + blocks[i].used <= b.base + b.used
      BY <1>3
    <3>1. Separate(b, blocks[i])
      BY <1>2 DEF Layout
    <3>2. blocks[i].used <= blocks[i].size
      BY DEF InBounds
    <3>3. blocks[i].base \in Nat /\ blocks[i].size \in Nat /\ blocks[i].used \in Nat
      BY BlocksTyped
    <3> QED
      BY <1>3, <3>1, <3>2, <3>3 DEF Separate
  <2>2. hit[t].addr + r.size <= b.base + b.size /\ b.base + b.used <= hit[t].addr
    BY <1>1, <1>2, <1>3, <1>4, <1>5
  <2>3. b.base + b.used \in Nat /\ b.base + b.size \in Nat /\ b.base <= b.base + b.used
    BY <1>3
  <2> QED
    BY <1>1, <1>3, <1>4, <1>6, <2>1, <2>2, <2>3, FreshRange
<1>10. Layout'
  <2> SUFFICES ASSUME NEW i \in DOMAIN blocks, NEW j \in DOMAIN blocks, i # j
               PROVE  Separate(blocks'[i], blocks'[j])
    BY <1>7 DEF Layout
  <2>1. Separate(blocks[i], blocks[j])
    BY DEF Layout
  <2>2. /\ blocks'[i].base = blocks[i].base /\ blocks'[i].size = blocks[i].size
        /\ blocks'[j].base = blocks[j].base /\ blocks'[j].size = blocks[j].size
    BY <1>7, <1>8
  <2> QED
    BY <2>1, <2>2 DEF Separate
<1>11. live' = live \cup {new}
  BY DEF Bump, new
<1>12. InBounds'
  <2>1. \A i \in DOMAIN blocks : blocks'[i].used <= blocks'[i].size
    BY <1>2, <1>7, <1>8 DEF InBounds
  <2>2. ASSUME NEW q \in live
        PROVE  \E i \in DOMAIN blocks : /\ blocks'[i].base <= q.addr
                                        /\ q.addr + q.size <= blocks'[i].base + blocks'[i].used
    <3>1. PICK i \in DOMAIN blocks : /\ blocks[i].base <= q.addr
                                     /\ q.addr + q.size <= blocks[i].base + blocks[i].used
      BY DEF InBounds
    <3>2. q.addr \in Nat /\ q.size \in Nat
      BY RequestAssumption DEF TypeOK
    <3>3. CASE i # c
      BY <1>7, <3>1, <3>3
    <3>4. CASE i = c
      BY <1>2, <1>3, <1>5, <1>8, <3>1, <3>2, <3>4
    <3> QED
      BY <3>3, <3>4
  <2>3. blocks'[c].base <= new.addr /\ new.addr + new.size <= blocks'[c].base + blocks'[c].used
    BY <1>1, <1>3, <1>4, <1>5, <1>6, <1>8
  <2> QED
    BY <1>2, <1>7, <1>11, <2>1, <2>2, <2>3 DEF InBounds
<1>13. LiveDisjoint'
  <2>1. \A q \in live : Pool!Apart(q, new)
    BY <1>9 DEF Pool!Apart
  <2>2. new.addr % new.align = 0
    BY <1>4, <1>6
  <2> QED
    BY <1>9, <1>11, <2>1, <2>2 DEF LiveDisjoint
<1>14. pc[t] \in Critical /\ Return(t)
  BY DEF Bump, Critical
<1>15. live' \in SUBSET [addr : Nat, size : Sizes, align : Alignments]
  BY <1>1, <1>4, <1>6, <1>11 DEF TypeOK
<1>16. TypeOK'
  BY <1>7, <1>14, <1>15, ReturnKeeps DEF TypeOK
<1> QED
  BY <1>9, <1>10, <1>12, <1>13, <1>14, <1>16, ReturnKeeps DEF new

\* Grow: the new block lies apart from the others and has room for the request.
LEMMA GrowKeeps ==
    ASSUME IInv, NEW t \in Threads, Grow(t)
    PROVE  /\ IInv'
           /\ \E a \in Nat : /\ live' = live \cup {Handed(t, a)}
                             /\ a % req[t].align = 0
                             /\ \A q \in live : Pool!Apart(Handed(t, a), q)
<1> DEFINE r == req[t]  n == Len(blocks) + 1
<1> USE DEF IInv
<1>1. r \in Request /\ r.size \in Nat /\ r.align \in Alignments /\ r.size \in Sizes
  BY RequestAssumption DEF Grow, LockInv, Request
<1>2. Larger(2 * r.size, MinBlock) \in Nat
  BY <1>1, BlockAssumption DEF Larger
<1>3. PICK b \in OSBlocks(Larger(2 * r.size, MinBlock)) :
        /\ blocks' = Append(blocks, [b EXCEPT !.used = PaddingIn(b, r.align) + r.size])
        /\ live' = live \cup {Handed(t, AlignedIn(b, r.align))}
  BY DEF Grow
<1> DEFINE a == AlignedIn(b, r.align)
           new == Handed(t, a)
           top == PaddingIn(b, r.align) + r.size
<1>4. b \in Block /\ b.size = Larger(2 * r.size, MinBlock) /\ b.used = 0
      /\ \A i \in DOMAIN blocks : Separate(b, blocks[i])
  BY <1>2, OSBlockFacts
<1>5. b.base \in Nat /\ b.size \in Nat
  BY <1>4 DEF Block
<1>6. /\ a \in Nat /\ PaddingIn(b, r.align) \in Nat
      /\ a = b.base + PaddingIn(b, r.align)
      /\ a % r.align = 0
  BY <1>1, <1>4, <1>5, PaddingFacts
<1>7. top \in Nat /\ top <= b.size /\ a + r.size = b.base + top
  <2>1. Fits(b, r)
    BY <1>1, <1>4, GrownBlockFits
  <2> QED
    BY <1>1, <1>4, <1>5, <1>6, <2>1 DEF Fits
<1>8. new = [addr |-> a, size |-> r.size, align |-> r.align]
  BY DEF Handed
<1> HIDE DEF new, top, a
<1>9. /\ DOMAIN blocks' = DOMAIN blocks \cup {n}
      /\ n \notin DOMAIN blocks
      /\ blocks' \in Seq(Block)
      /\ blocks'[n] = [b EXCEPT !.used = top]
      /\ \A i \in DOMAIN blocks : blocks'[i] = blocks[i]
  <2>1. [b EXCEPT !.used = top] \in Block
    BY <1>4, <1>7 DEF Block
  <2>2. blocks' = Append(blocks, [b EXCEPT !.used = top])
    BY <1>3 DEF top
  <2> QED
    BY <2>1, <2>2 DEF TypeOK
<1>10. blocks'[n].base = b.base /\ blocks'[n].size = b.size /\ blocks'[n].used = top
  BY <1>4, <1>9 DEF Block
<1>11. ASSUME NEW q \in live PROVE Pool!Apart(new, q)
  <2>1. \A i \in DOMAIN blocks : \/ b.base + b.size <= blocks[i].base
                                 \/ blocks[i].base + blocks[i].used <= b.base
    <3> TAKE i \in DOMAIN blocks
    <3>1. Separate(b, blocks[i])
      BY <1>4
    <3>2. blocks[i].used <= blocks[i].size
      BY DEF InBounds
    <3>3. blocks[i].base \in Nat /\ blocks[i].size \in Nat /\ blocks[i].used \in Nat
      BY BlocksTyped
    <3> QED
      BY <1>5, <3>1, <3>2, <3>3 DEF Separate
  <2>2. a + r.size <= b.base + b.size /\ b.base <= a
    BY <1>1, <1>5, <1>6, <1>7
  <2>3. b.base + b.size \in Nat /\ b.base <= b.base
    BY <1>5
  <2> QED
    BY <1>1, <1>5, <1>6, <1>8, <2>1, <2>2, <2>3, FreshRange
<1>12. Layout'
  <2> SUFFICES ASSUME NEW i \in DOMAIN blocks', NEW j \in DOMAIN blocks', i # j
               PROVE  Separate(blocks'[i], blocks'[j])
    BY DEF Layout
  <2>1. CASE i \in DOMAIN blocks /\ j \in DOMAIN blocks
    BY <1>9, <2>1 DEF Layout
  <2>2. CASE i = n /\ j \in DOMAIN blocks
    BY <1>4, <1>9, <1>10, <2>2 DEF Separate
  <2>3. CASE j = n /\ i \in DOMAIN blocks
    BY <1>4, <1>9, <1>10, <2>3 DEF Separate
  <2> QED
    BY <1>9, <2>1, <2>2, <2>3
<1>13. live' = live \cup {new}
  BY <1>3 DEF new, a
<1>14. InBounds'
  <2>1. \A i \in DOMAIN blocks' : blocks'[i].used <= blocks'[i].size
    BY <1>7, <1>9, <1>10 DEF InBounds
  <2>2. \A q \in live : \E i \in DOMAIN blocks' :
            /\ blocks'[i].base <= q.addr
            /\ q.addr + q.size <= blocks'[i].base + blocks'[i].used
    BY <1>9 DEF InBounds
  <2>3. blocks'[n].base <= new.addr /\ new.addr + new.size <= blocks'[n].base + blocks'[n].used
    BY <1>1, <1>5, <1>6, <1>7, <1>8, <1>10
  <2> QED
    BY <1>9, <1>13, <2>1, <2>2, <2>3 DEF InBounds
<1>15. LiveDisjoint'
  <2>1. \A q \in live : Pool!Apart(q, new)
    BY <1>11 DEF Pool!Apart
  <2>2. new.addr % new.align = 0
    BY <1>6, <1>8
  <2> QED
    BY <1>11, <1>13, <2>1, <2>2 DEF LiveDisjoint
<1>16. pc[t] \in Critical /\ Return(t)
  BY DEF Grow, Critical
<1>17. live' \in SUBSET [addr : Nat, size : Sizes, align : Alignments]
  BY <1>1, <1>6, <1>8, <1>13 DEF TypeOK
<1>18. TypeOK'
  BY <1>9, <1>16, <1>17, ReturnKeeps DEF TypeOK
<1> QED
  BY <1>6, <1>11, <1>12, <1>13, <1>14, <1>15, <1>16, <1>18, ReturnKeeps DEF new

\* Initialize: the first block, mapped while no thread is inside Allocate.
LEMMA InitializeKeeps ==
    ASSUME IInv, NEW t \in Threads, NEW cap \in Capacities, Initialize(t, cap)
    PROVE  IInv'
<1> USE DEF IInv
<1>1. Larger(cap, MinBlock) \in Nat
  BY RequestAssumption, BlockAssumption DEF Larger
<1>2. PICK b \in OSBlocks(Larger(cap, MinBlock)) : blocks' = <<b>>
  BY DEF Initialize
<1>3. blocks' \in Seq(Block) /\ Layout' /\ InBounds' /\ LiveDisjoint'
  BY <1>1, <1>2, FirstBlock DEF Initialize
<1>4. \A u \in Threads : pc'[u] \notin Critical
  BY ThreadsAssumption DEF Initialize, LockInv
<1>5. TypeOK'
  BY <1>3 DEF TypeOK, Initialize
<1>6. LockInv' /\ HitInv' /\ ScanInv'
  BY <1>4 DEF LockInv, HitInv, ScanInv, Initialize, Critical
<1> QED
  BY <1>3, <1>5, <1>6

\* AutoInit: the fallback block of the minimum size, mapped under the lock.
LEMMA AutoInitKeeps ==
    ASSUME IInv, NEW t \in Threads, AutoInit(t)
    PROVE  IInv'
<1> USE DEF IInv
<1>1. blocks = <<>> /\ MinBlock \in Nat
  BY BlockAssumption DEF AutoInit, LockInv
<1>2. PICK b \in OSBlocks(MinBlock) : blocks' = <<b>>
  BY DEF AutoInit
<1>3. blocks' \in Seq(Block) /\ Layout' /\ InBounds' /\ LiveDisjoint'
  BY <1>1, <1>2, FirstBlock DEF AutoInit
<1>4. mutex_ = t /\ \A u \in Threads : u # t => pc[u] \notin Critical
  BY DEF LockInv, AutoInit, Critical
<1>5. TypeOK'
  BY <1>3 DEF TypeOK, AutoInit, Steps
<1>6. LockInv'
  BY <1>4 DEF LockInv, AutoInit, Critical, TypeOK
<1>7. HitInv'
  BY <1>4 DEF HitInv, AutoInit, Critical, TypeOK
<1>8. ScanInv'
  BY <1>2, <1>4 DEF ScanInv, LockInv, AutoInit, Critical, TypeOK
<1> QED
  BY <1>3, <1>5, <1>6, <1>7, <1>8

\* Call: a thread outside Allocate comes to wait for the lock.
LEMMA CallKeeps ==
    ASSUME IInv, NEW t \in Threads, NEW r \in Request, Call(t, r)
    PROVE  IInv'
<1> USE DEF IInv
<1>1. TypeOK'
  BY DEF TypeOK, Call, Steps
<1>2. LockInv'
  BY DEF LockInv, Call, TypeOK, Critical
<1>3. HitInv' /\ ScanInv'
  BY DEF HitInv, ScanInv, Call, TypeOK, Fits, AlignedIn, PaddingIn
<1> QED
  BY <1>1, <1>2, <1>3, PoolUnchanged DEF Call

\* Lock: the thread becomes the one in the critical section, at the list head.
LEMMA LockKeeps ==
    ASSUME IInv, NEW t \in Threads, Lock(t)
    PROVE  IInv'
<1> USE DEF IInv
<1>1. TypeOK'
  BY DEF TypeOK, Lock, Steps
<1>2. \A u \in Threads : pc[u] \notin Critical
  BY ThreadsAssumption DEF LockInv, Lock
<1>3. \A u \in Threads : u # t => pc'[u] = pc[u]
  BY DEF Lock, TypeOK
<1>4. pc'[t] \in {"init", "scan"} /\ curr'[t] = 1 /\ (pc'[t] = "init" => blocks = <<>>)
  BY DEF Lock, TypeOK
<1>5. LockInv'
  BY <1>2, <1>3, <1>4 DEF LockInv, Lock, Critical
<1>6. HitInv'
  BY <1>2, <1>3, <1>4 DEF HitInv, Critical
<1>7. ScanInv'
  BY <1>2, <1>3, <1>4 DEF ScanInv, Critical, Lock, TypeOK
<1> QED
  BY <1>1, <1>5, <1>6, <1>7, PoolUnchanged DEF Lock

\* Scan: either the block is found to fit, or it joins the blocks without room.
LEMMA ScanKeeps ==
    ASSUME IInv, NEW t \in Threads, Scan(t)
    PROVE  IInv'
<1> USE DEF IInv
<1>1. pc[t] = "scan" /\ curr[t] \in DOMAIN blocks /\ req[t] \in Request
  BY DEF Scan, TypeOK, LockInv
<1>2. \A u \in Threads : u # t => pc[u] \notin Critical
  BY <1>1 DEF LockInv, Critical
<1>3. CASE Found(t)
  <2> DEFINE b == blocks[curr[t]]
  <2>1. b \in Block /\ req[t].align \in Alignments
    BY <1>1, BlocksTyped DEF Request
  <2>2. AlignedIn(b, req[t].align) \in Nat /\ PaddingIn(b, req[t].align) \in Nat
    BY <2>1, PaddingFacts
  <2>3. TypeOK'
    BY <1>3, <2>2 DEF TypeOK, Scan, Found, Steps
  <2>4. LockInv'
    BY <1>1, <1>3 DEF LockInv, Scan, Found, TypeOK, Critical
  <2>5. HitInv'
    BY <1>1, <1>2, <1>3 DEF HitInv, Scan, Found, TypeOK, Critical, Fits, AlignedIn, PaddingIn
  <2>6. ScanInv'
    BY <1>2, <1>3 DEF ScanInv, Scan, Found, TypeOK, Critical
  <2> QED
    BY <2>3, <2>4, <2>5, <2>6, PoolUnchanged DEF Scan
<1>4. CASE TryNext(t)
  <2>1. TypeOK'
    BY <1>4 DEF TypeOK, Scan, TryNext
  <2>2. LockInv' /\ HitInv'
    BY <1>1, <1>2, <1>4 DEF LockInv, HitInv, Scan, TryNext, TypeOK, Critical
  <2>3. \A i \in DOMAIN blocks : i < curr[t] + 1 => ~Fits(blocks[i], req[t])
    <3>1. \A i \in DOMAIN blocks : i \in Nat /\ (i < curr[t] + 1 => i < curr[t] \/ i = curr[t])
      BY DEF TypeOK
    <3> QED
      BY <1>1, <1>4, <3>1 DEF ScanInv, TryNext
  <2>4. ScanInv'
    <3>1. blocks' = blocks /\ pc' = pc /\ req' = req /\ curr'[t] = curr[t] + 1
      BY <1>4 DEF Scan, TryNext, TypeOK
    <3> QED
      BY <1>1, <1>2, <2>3, <3>1 DEF ScanInv, Critical, Fits, PaddingIn, AlignedIn
  <2> QED
    BY <2>1, <2>2, <2>4, PoolUnchanged DEF Scan
<1> QED
  BY <1>3, <1>4 DEF Scan

\* ScanEnd: past the end, every block of the list is one without room.
LEMMA ScanEndKeeps ==
    ASSUME IInv, NEW t \in Threads, ScanEnd(t)
    PROVE  IInv'
<1> USE DEF IInv
<1>1. TypeOK'
  BY DEF TypeOK, ScanEnd, Steps
<1>2. \A i \in DOMAIN blocks : i < curr[t]
  BY DEF ScanEnd, TypeOK
<1>3. LockInv' /\ HitInv'
  BY DEF LockInv, HitInv, ScanEnd, TypeOK, Critical
<1>4. ScanInv'
  BY <1>2 DEF ScanInv, ScanEnd, TypeOK
<1> QED
  BY <1>1, <1>3, <1>4, PoolUnchanged DEF ScanEnd

\* BadAlloc: the throw leaves the pool as it was.
LEMMA BadAllocKeeps ==
    ASSUME IInv, NEW t \in Threads, BadAlloc(t)
    PROVE  IInv'
<1> USE DEF IInv
<1>1. pc[t] \in Critical /\ Return(t)
  BY DEF BadAlloc, Critical
<1>2. TypeOK'
  BY <1>1, ReturnKeeps DEF TypeOK, BadAlloc
<1> QED
  BY <1>1, <1>2, ReturnKeeps, PoolUnchanged DEF BadAlloc

\* Deallocate: only what callers hold shrinks.
LEMMA DeallocateKeeps ==
    ASSUME IInv, NEW t \in Threads, NEW r \in live, Deallocate(t, r)
    PROVE  IInv'
<1> USE DEF IInv
<1>1. TypeOK'
  BY DEF TypeOK, Deallocate
<1>2. Layout' /\ InBounds' /\ LiveDisjoint'
  BY DEF Layout, InBounds, LiveDisjoint, Deallocate
<1>3. LockInv' /\ HitInv' /\ ScanInv'
  BY DEF LockInv, HitInv, ScanInv, Deallocate
<1> QED
  BY <1>1, <1>2, <1>3

\* Shutdown: no block and no range is left, and no thread is inside Allocate.
LEMMA ShutdownKeeps ==
    ASSUME IInv, NEW t \in Threads, Shutdown(t)
    PROVE  IInv'
<1> USE DEF IInv
<1>1. TypeOK'
  BY DEF TypeOK, Shutdown
<1>2. Layout' /\ InBounds' /\ LiveDisjoint'
  BY DEF Layout, InBounds, LiveDisjoint, Shutdown
<1>3. \A u \in Threads : pc'[u] \notin Critical
  BY ThreadsAssumption DEF Shutdown, LockInv
<1>4. LockInv' /\ HitInv' /\ ScanInv'
  BY <1>3 DEF LockInv, HitInv, ScanInv, Shutdown, Critical
<1> QED
  BY <1>1, <1>2, <1>4

-----------------------------------------------------------------------------
\* The inductive invariant holds in every behaviour of the allocator.
THEOREM InductiveInvariant == Spec => []IInv
<1>1. Init => IInv
  <2> SUFFICES ASSUME Init PROVE IInv
    OBVIOUS
  <2>1. TypeOK
    BY DEF Init, TypeOK, Steps, NoHit
  <2>2. LockInv
    BY ThreadsAssumption DEF Init, LockInv, Critical
  <2>3. Layout /\ InBounds /\ LiveDisjoint /\ HitInv /\ ScanInv
    BY DEF Init, Layout, InBounds, LiveDisjoint, HitInv, ScanInv
  <2> QED
    BY <2>1, <2>2, <2>3 DEF IInv
<1>2. IInv /\ [Next]_vars => IInv'
  <2> SUFFICES ASSUME IInv, [Next]_vars PROVE IInv'
    OBVIOUS
  <2>1. CASE UNCHANGED vars
    BY <2>1 DEF vars, IInv, TypeOK, LockInv, Layout, HitInv, ScanInv, InBounds, LiveDisjoint
  <2>2. CASE Next
    <3>1. PICK t \in Threads :
            \/ \E cap \in Capacities : Initialize(t, cap)
            \/ \E r \in Request : Call(t, r)
            \/ Lock(t)
            \/ Holding(t)
            \/ \E r \in live : Deallocate(t, r)
            \/ Shutdown(t)
      BY <2>2 DEF Next
    <3>2. ASSUME Holding(t) PROVE IInv'
      BY <3>2, AutoInitKeeps, ScanKeeps, BumpKeeps, ScanEndKeeps, GrowKeeps, BadAllocKeeps
         DEF Holding
    <3> QED
      BY <3>1, <3>2, InitializeKeeps, CallKeeps, LockKeeps, DeallocateKeeps, ShutdownKeeps
  <2> QED
    BY <2>1, <2>2
<1> QED
  BY <1>1, <1>2, PTL DEF Spec

\* Every variable keeps its type, and no block's `used` goes below zero.
THEOREM TypeCorrect == Spec => []TypeOK
BY InductiveInvariant, PTL DEF IInv

\* Memory safety: what Allocate returned lies inside a mapping, in the part the
\* bump pointer has passed.
THEOREM AllocationsInBounds == Spec => []InBounds
BY InductiveInvariant, PTL DEF IInv

\* Thread safety: ranges held at the same time share no byte and are aligned.
THEOREM AllocationsDisjoint == Spec => []LiveDisjoint
BY InductiveInvariant, PTL DEF IInv

\* A further block is mapped only when no block of the list has room.
THEOREM GrowsOnlyWhenFull == Spec => GrowOnlyWhenFull
<1> DEFINE A == (blocks # <<>> /\ Len(blocks') > Len(blocks)) =>
            /\ mutex_ \in Threads
            /\ \A i \in DOMAIN blocks :
                blocks[i].base + blocks[i].size
                    < AlignedIn(blocks[i], req[mutex_].align) + req[mutex_].size
<1>1. IInv /\ [Next]_vars => [A]_vars
  <2> SUFFICES ASSUME IInv, Next, blocks # <<>>, Len(blocks') > Len(blocks) PROVE A
    OBVIOUS
  <2> USE DEF IInv
  <2>1. blocks \in Seq(Block) /\ blocks # blocks'
    BY DEF TypeOK
  <2>2. PICK t \in Threads : AutoInit(t) \/ Bump(t) \/ Grow(t) \/ Shutdown(t)
    BY <2>1 DEF Next, Holding, Initialize, Call, Lock, Scan, ScanEnd, BadAlloc, Deallocate
  <2>3. ~AutoInit(t)
    BY DEF AutoInit, LockInv
  <2>4. ~Bump(t)
    BY <2>1 DEF Bump
  <2>5. ~Shutdown(t)
    BY <2>1 DEF Shutdown
  <2>6. Grow(t)
    BY <2>2, <2>3, <2>4, <2>5
  <2>7. mutex_ = t /\ req[t] \in Request
    BY <2>6 DEF Grow, LockInv, Critical
  <2>8. \A i \in DOMAIN blocks : ~Fits(blocks[i], req[t])
    BY <2>6 DEF Grow, ScanInv
  <2>9. ASSUME NEW i \in DOMAIN blocks
        PROVE  blocks[i].base + blocks[i].size
                    < AlignedIn(blocks[i], req[t].align) + req[t].size
    <3>1. /\ blocks[i] \in Block /\ blocks[i].base \in Nat
          /\ blocks[i].size \in Nat /\ blocks[i].used \in Nat
      BY BlocksTyped
    <3>2. req[t].size \in Nat /\ req[t].align \in Alignments
      BY <2>7, RequestAssumption DEF Request
    <3>3. PaddingIn(blocks[i], req[t].align) \in Nat
          /\ AlignedIn(blocks[i], req[t].align) =
                blocks[i].base + blocks[i].used + PaddingIn(blocks[i], req[t].align)
      BY <3>1, <3>2, PaddingFacts
    <3>4. blocks[i].used + PaddingIn(blocks[i], req[t].align) + req[t].size > blocks[i].size
      BY <2>8, <3>1, <3>2, <3>3 DEF Fits
    <3> QED
      BY <3>1, <3>2, <3>3, <3>4
  <2> QED
    BY <2>7, <2>9
<1> QED
  BY <1>1, InductiveInvariant, PTL DEF Spec, GrowOnlyWhenFull

\* The allocator implements the abstract pool of ranges.
THEOREM Refinement == Spec => PoolSpec
<1>1. Init => Pool!Init
  BY DEF Init, Pool!Init
<1>2. IInv /\ [Next]_vars => [Pool!Next]_live
  <2> SUFFICES ASSUME IInv, Next, live' # live PROVE Pool!Next
    BY DEF vars
  <2> USE DEF IInv
  <2>1. PICK t \in Threads : \/ \E cap \in Capacities : Initialize(t, cap)
                             \/ \E r \in Request : Call(t, r)
                             \/ Lock(t)
                             \/ Holding(t)
                             \/ \E r \in live : Deallocate(t, r)
                             \/ Shutdown(t)
    BY DEF Next
  <2>2. ASSUME NEW a \in Nat, live' = live \cup {Handed(t, a)}, a % req[t].align = 0,
               req[t] \in Request, \A q \in live : Pool!Apart(Handed(t, a), q)
        PROVE  Pool!Next
    <3>1. Handed(t, a) \in live' \ live
      BY <2>2
    <3>2. Handed(t, a) \in Pool!Range /\ Handed(t, a).addr % Handed(t, a).align = 0
      BY <2>2, RequestAssumption DEF Handed, Pool!Range, Request
    <3> QED
      BY <2>2, <3>1, <3>2 DEF Pool!Next, Pool!HandOut
  <2>3. CASE Bump(t)
    <3>1. req[t] \in Request /\ hit[t].addr \in Nat
      BY <2>3 DEF Bump, LockInv, TypeOK
    <3>2. hit[t].addr % req[t].align = 0
      BY <2>3, <3>1, BlocksTyped, PaddingFacts DEF Bump, HitInv, Request
    <3> QED
      BY <2>2, <2>3, <3>1, <3>2, BumpKeeps DEF Bump
  <2>4. CASE Grow(t)
    <3>1. req[t] \in Request
      BY <2>4 DEF Grow, LockInv
    <3> QED
      BY <2>2, <2>4, <3>1, GrowKeeps
  <2>5. CASE \E r \in live : Deallocate(t, r)
    BY <2>5 DEF Deallocate, Pool!Next, Pool!GiveBack
  <2>6. CASE Shutdown(t)
    BY <2>6 DEF Shutdown, Pool!Next, Pool!TakeAll
  <2>7. /\ \A cap \in Capacities : ~Initialize(t, cap)
        /\ \A r \in Request : ~Call(t, r)
        /\ ~Lock(t)
    BY DEF Initialize, Call, Lock
  <2>8. ~AutoInit(t) /\ ~Scan(t) /\ ~ScanEnd(t) /\ ~BadAlloc(t)
    BY DEF AutoInit, Scan, ScanEnd, BadAlloc
  <2> QED
    BY <2>1, <2>3, <2>4, <2>5, <2>6, <2>7, <2>8 DEF Holding
<1> QED
  BY <1>1, <1>2, InductiveInvariant, PTL DEF Spec, PoolSpec, Pool!Spec
=============================================================================
