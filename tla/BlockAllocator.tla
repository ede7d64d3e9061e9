--------------------------- MODULE BlockAllocator ---------------------------
(***************************************************************************)
(* What the heap of julius-libc promises its callers, and nothing about    *)
(* how it does so: a block, once granted, is never taken back (julius_free *)
(* is a no-op), starts on an alignment boundary, and shares no byte with   *)
(* any other block.  A request that is refused changes nothing.            *)
(***************************************************************************)
EXTENDS Naturals

CONSTANTS Addresses,  \* addresses a block may start at (NULL, 0, excluded)
          Sizes,      \* sizes callers ask for
          Alignment   \* HEAP_ALIGN

VARIABLE granted      \* the blocks handed out so far

Block == [addr : Addresses, size : Sizes]

Apart(b, c) == b.addr + b.size <= c.addr \/ c.addr + c.size <= b.addr

Init == granted = {}

Grant(b) ==
  /\ b.addr % Alignment = 0
  /\ \A c \in granted \ {b} : Apart(b, c)
  /\ granted' = granted \cup {b}

Next == \E b \in Block : Grant(b)

Spec == Init /\ [][Next]_granted
=============================================================================
