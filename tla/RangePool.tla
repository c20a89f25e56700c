------------------------------ MODULE RangePool ------------------------------
(***************************************************************************)
(* What the isolated allocator promises its callers, with nothing said of  *)
(* blocks, locks or bump pointers: a call hands out an aligned address     *)
(* range that no other caller holds, a range can be given back, and one    *)
(* call takes every range away at once (IsolatedAllocator::Shutdown).      *)
(***************************************************************************)
EXTENDS Integers

VARIABLE live      \* the ranges callers hold: [addr, size, align]

Range == [addr : Nat, size : Nat, align : Nat \ {0}]

\* The bytes [r.addr, r.addr + r.size) and those of q have none in common.
Apart(r, q) ==
    \/ r.addr + r.size <= q.addr
    \/ q.addr + q.size <= r.addr

Init == live = {}

HandOut ==
    \E r \in live' \ live :
        /\ r \in Range
        /\ r.addr % r.align = 0
        /\ \A q \in live : Apart(r, q)
        /\ live' = live \cup {r}

GiveBack == \E r \in live : live' = live \ {r}

TakeAll == live' = {}

Next == HandOut \/ GiveBack \/ TakeAll

Spec == Init /\ [][Next]_live
=============================================================================
