----------------------------- MODULE JuliusHeap -----------------------------
(***************************************************************************)
(* The bump-pointer heap of julius-libc (libc/src/mem.c).                  *)
(*                                                                         *)
(* One region of HeapInitialSize bytes is mapped by julius_mem_init;       *)
(* julius_malloc cuts blocks from its front and, when a request does not   *)
(* fit, maps a further region and continues there, abandoning the tail of  *)
(* the old one.  julius_free does nothing, so it has no action here.       *)
(*                                                                         *)
(* size_t arithmetic is done modulo WordMod (2^64 in the program).  Where  *)
(* the program adds to a pointer past the end of the address space the     *)
(* result is undefined in C, and the model takes either outcome of the     *)
(* comparison that follows.                                                *)
(***************************************************************************)
EXTENDS Integers, FiniteSets, Functions

CONSTANTS
  WordMod,          \* 2^64: one more than the largest size_t
  HeapAlign,        \* HEAP_ALIGN
  HeapInitialSize,  \* HEAP_INITIAL_SIZE
  PageSize,         \* regions start on page boundaries
  AddrTop,          \* end of the user address space
  Requests,         \* sizes callers pass to malloc and calloc
  Counts,           \* element counts callers pass to calloc
  MaxCalls          \* bound: calls into the heap in one behaviour

ASSUME HeapAssumption ==
  /\ WordMod \in Nat /\ AddrTop \in Nat /\ AddrTop < WordMod
  /\ HeapAlign \in Nat \ {0}
  /\ HeapInitialSize \in Nat \ {0} /\ HeapInitialSize < WordMod
  /\ PageSize \in Nat \ {0} /\ PageSize % HeapAlign = 0
  /\ Requests \subseteq 0 .. WordMod - 1
  /\ Counts \subseteq 0 .. WordMod - 1
  /\ MaxCalls \in Nat

VARIABLES
  heap,      \* [base, ptr, end]: heap_base, heap_ptr and heap_end; 0 is NULL
  regions,   \* address ranges mach_vm_allocate has mapped for the heap
  blocks,    \* history: every block handed to a caller
  dirty,     \* mapped addresses that need not hold zero
  panicked,  \* julius_panic was reached
  ret,       \* what the last julius_malloc or julius_calloc returned
  inits,     \* how often julius_mem_init was called from outside malloc
  calls      \* counts calls, for the bound MaxCalls

vars == <<heap, regions, blocks, dirty, panicked, ret, inits, calls>>

Null == 0

Bytes(a, n) == a .. a + n - 1

-----------------------------------------------------------------------------
(* size_t arithmetic *)

Wrap(n) == n % WordMod

\* Faulty variants, each a slip that could be made in the definition it
\* precedes; the README lists which property detects which.
RoundDown(n) == n - (n % HeapAlign)
NoRounding(n) == n

\* ALIGN(n, HEAP_ALIGN): add HEAP_ALIGN - 1, then clear the low bits.
RoundUp(n) == LET s == Wrap(n + HeapAlign - 1) IN s - (s % HeapAlign)

\* How much malloc maps for a request (already rounded) that does not fit.
Extent(size) == IF size < HeapInitialSize THEN HeapInitialSize ELSE Wrap(2 * size)

\* Faulty variant: the test for room is missing.
AlwaysOverruns(h, size) == {TRUE}

\* The values heap_ptr + size > heap_end can take.
Overruns(h, size) ==
  IF h.ptr + size < WordMod THEN {h.ptr + size > h.end}
  ELSE {TRUE, Wrap(h.ptr + size) > h.end}

-----------------------------------------------------------------------------
(* mach_vm_allocate(..., VM_FLAGS_ANYWHERE), as the kernel answers it: any  *)
(* page-aligned range clear of every other one.  It may always fail.  A     *)
(* request for no bytes succeeds and maps nothing.                          *)

Pages == {p \in PageSize .. AddrTop : p % PageSize = 0}

VmChoices(rs, size) ==
  IF size = 0 THEN {Null}
  ELSE {lo \in Pages : /\ lo + size <= AddrTop
                       /\ \A r \in rs : lo + size <= r.lo \/ r.hi <= lo}

Region(lo, size) == [lo |-> lo, hi |-> lo + size]

-----------------------------------------------------------------------------
FreshHeap(lo) == [base |-> lo, ptr |-> lo, end |-> lo + HeapInitialSize]

\* Faulty variant: heap_end keeps pointing into the region left behind.
StaleEnd(h, lo, size) == [h EXCEPT !.ptr = lo]

ExtendedHeap(h, lo, size) == [h EXCEPT !.ptr = lo, !.end = lo + Extent(size)]

Panic ==
  /\ panicked' = TRUE
  /\ UNCHANGED <<heap, regions, blocks, dirty, ret>>

\* julius_mem_init, called by julius_start.
MemInit ==
  \/ /\ \E lo \in VmChoices(regions, HeapInitialSize) :
          /\ heap' = FreshHeap(lo)
          /\ regions' = regions \cup {Region(lo, HeapInitialSize)}
          /\ dirty' = dirty \cup Bytes(lo, HeapInitialSize)
     /\ UNCHANGED <<blocks, panicked, ret>>
  \/ Panic

\* Faulty variant: heap_ptr moves by the size asked for, before rounding.
BumpUnrounded(h, rs, size, asked, zeroed, kind) ==
  /\ heap' = [h EXCEPT !.ptr = Wrap(@ + asked)]
  /\ regions' = rs
  /\ ret' = h.ptr
  /\ blocks' = blocks \cup {[addr |-> h.ptr, size |-> asked, len |-> size,
                             kind |-> kind, written |-> FALSE]}
  /\ dirty' = dirty

\* Hand out the next size bytes of h to a caller who asked for `asked`, of
\* which the first `zeroed` bytes are cleared before the caller sees them.
Bump(h, rs, size, asked, zeroed, kind) ==
  /\ heap' = [h EXCEPT !.ptr = Wrap(@ + size)]
  /\ regions' = rs
  /\ ret' = h.ptr
  /\ blocks' = IF h.ptr = Null THEN blocks
               ELSE blocks \cup {[addr |-> h.ptr, size |-> asked, len |-> size,
                                  kind |-> kind, written |-> FALSE]}
  /\ dirty' = (dirty \cup UNION {Bytes(r.lo, r.hi - r.lo) : r \in rs \ regions})
                \ (IF h.ptr = Null THEN {} ELSE Bytes(h.ptr, zeroed))

\* Faulty variant of the failure branch: the heap is moved to the address the
\* kernel did not write.
CarveForgetsTail(h, rs, size, asked, zeroed, kind) ==
  \E over \in Overruns(h, size) :
    \/ ~over /\ Bump(h, rs, size, asked, zeroed, kind)
    \/ /\ over
       /\ heap' = [h EXCEPT !.ptr = Null, !.end = Null] /\ regions' = rs /\ ret' = Null
       /\ UNCHANGED <<blocks, dirty>>

\* julius_malloc from the test for room on, on heap h over regions rs.
Carve(h, rs, size, asked, zeroed, kind) ==
  \E over \in Overruns(h, size) :
    \/ ~over /\ Bump(h, rs, size, asked, zeroed, kind)
    \/ /\ over
       /\ \E lo \in VmChoices(rs, Extent(size)) :
            Bump(ExtendedHeap(h, lo, size), rs \cup {Region(lo, Extent(size))},
                 size, asked, zeroed, kind)
    \/ /\ over
       /\ heap' = h /\ regions' = rs /\ ret' = Null
       /\ dirty' = dirty \cup UNION {Bytes(r.lo, r.hi - r.lo) : r \in rs \ regions}
       /\ UNCHANGED blocks

\* julius_malloc(n) on behalf of a caller who needs `asked` bytes: it maps
\* the first region itself when julius_mem_init has not been called.
Allocate(n, asked, zeroed, kind) ==
  \/ /\ heap.base # Null
     /\ Carve(heap, regions, RoundUp(n), asked, zeroed, kind)
     /\ UNCHANGED panicked
  \/ /\ heap.base = Null
     /\ \E lo \in VmChoices(regions, HeapInitialSize) :
          Carve(FreshHeap(lo), regions \cup {Region(lo, HeapInitialSize)},
                RoundUp(n), asked, zeroed, kind)
     /\ UNCHANGED panicked
  \/ heap.base = Null /\ Panic

Malloc(n) == Allocate(n, n, 0, "malloc")

\* Faulty variants: memset clears one element only, or count times too much.
CallocClearsOne(count, n) ==
  LET total == Wrap(count * n) IN Allocate(total, count * n, n, "calloc")

CallocClearsPast(count, n) ==
  LET total == Wrap(count * n) IN Allocate(total, count * n, count * total, "calloc")

\* julius_calloc: the product is taken in size_t, and memset clears that much.
Calloc(count, n) ==
  LET total == Wrap(count * n) IN Allocate(total, count * n, total, "calloc")

\* The owner of block b stores into every byte of it.
Write(b) ==
  /\ blocks' = (blocks \ {b}) \cup {[b EXCEPT !.written = TRUE]}
  /\ dirty' = dirty \cup Bytes(b.addr, b.size)
  /\ UNCHANGED <<heap, regions, panicked, ret>>

-----------------------------------------------------------------------------
Init ==
  /\ heap = [base |-> Null, ptr |-> Null, end |-> Null]
  /\ regions = {} /\ blocks = {} /\ dirty = {}
  /\ panicked = FALSE /\ ret = Null /\ inits = 0 /\ calls = 0

\* mem.h: julius_mem_init is "called once from julius_start()".
InitCall == MemInit /\ inits = 0 /\ inits' = 1 /\ UNCHANGED calls

Call ==
  /\ calls < MaxCalls /\ calls' = calls + 1 /\ UNCHANGED inits
  /\ \/ \E n \in Requests : Malloc(n)
     \/ \E count \in Counts, n \in Requests : Calloc(count, n)

Use ==
  /\ \E b \in blocks : ~b.written /\ Write(b)
  /\ UNCHANGED <<inits, calls>>

Next == ~panicked /\ (InitCall \/ Call \/ Use)

Spec == Init /\ [][Next]_vars

-----------------------------------------------------------------------------
(* Properties.  They hold as long as no size_t computation wraps and no     *)
(* pointer leaves the address space, which NoWrap states.                   *)

NoWrap ==
  /\ \A n \in Requests : 2 * (n + HeapAlign) + AddrTop < WordMod
  /\ \A count \in Counts, n \in Requests :
       2 * (count * n + HeapAlign) + AddrTop < WordMod

TypeOK ==
  /\ heap \in [base : Nat, ptr : Nat, end : Nat]
  /\ regions \subseteq [lo : Nat, hi : Nat]
  /\ blocks \subseteq [addr : Nat, size : Nat, len : Nat,
                       kind : {"malloc", "calloc"}, written : BOOLEAN]
  /\ dirty \subseteq Nat
  /\ panicked \in BOOLEAN /\ ret \in Nat /\ inits \in {0, 1} /\ calls \in Nat

\* Every block covers the bytes its caller asked for, all of them inside one
\* mapped region: mem.h "Allocate size bytes, 16-byte aligned".
BlocksMapped ==
  \A b \in blocks : \E r \in regions :
    r.lo <= b.addr /\ b.addr + b.len <= r.hi /\ b.size <= b.len

\* julius_malloc never hands out a byte twice, whatever mix of extensions,
\* re-initialisation and refusals came before.
BlocksDisjoint ==
  \A b, c \in blocks :
    b # c => b.addr + b.len <= c.addr \/ c.addr + c.len <= b.addr

\* The inductive invariant.  heap.ptr .. heap.end, the bytes malloc will hand
\* out next, is the end of one mapped region and no block reaches into it.
SoundHeap(h, rs) ==
  /\ h \in [base : Nat \ {Null}, ptr : Nat, end : Nat]
  /\ \A r \in rs : 0 < r.lo /\ r.lo <= r.hi /\ r.hi <= AddrTop
  /\ \E r \in rs : r.lo <= h.ptr /\ h.ptr <= h.end /\ h.end = r.hi
  /\ h.ptr % HeapAlign = 0
  /\ \A b \in blocks : \E r \in rs : r.lo <= b.addr /\ b.addr + b.len <= r.hi
  /\ \A b \in blocks : b.addr + b.len <= h.ptr \/ h.end <= b.addr

SoundBlocks ==
  /\ \A b \in blocks : 0 < b.addr /\ b.addr % HeapAlign = 0 /\ b.size <= b.len
  /\ BlocksDisjoint

HeapInv ==
  /\ TypeOK
  /\ SoundBlocks
  /\ IF heap.base = Null THEN regions = {} /\ blocks = {}
     ELSE SoundHeap(heap, regions)

\* julius_calloc is the "zeroing allocator" of mem.h: until its owner stores
\* into it, a block from calloc reads as zero, and no other call dirties it.
CallocZeroed ==
  \A b \in blocks :
    b.kind = "calloc" /\ ~b.written => Bytes(b.addr, b.size) \cap dirty = {}

\* What an owner stored stays: no later malloc, calloc or julius_mem_init
\* clears a byte of a block that is in use.
WritesSurvive ==
  \A b \in blocks : b.written => Bytes(b.addr, b.size) \subseteq dirty

\* mem.h: malloc "returns NULL on failure".  A refused extension (mem.c line
\* 96) must leave the tail of the current region usable by smaller requests.
RefusalLosesNothing ==
  [][calls' # calls /\ ret' = Null /\ heap.base # Null
       => heap'.end - heap'.ptr >= heap.end - heap.ptr]_vars

\* How many bytes the regions rs hold, and how many malloc has handed out.
Mapped(rs) == SumFunction([r \in rs |-> r.hi - r.lo])
Used == SumFunction([b \in blocks |-> b.len])

\* The cost of never freeing: the regions malloc has left behind hold, in
\* all, at most twice the bytes handed out, plus the region a second
\* initialisation throws away.  Each tail it abandons (mem.c line 97) is
\* shorter than the request that did not fit, which the next region serves.
WasteBounded ==
  Mapped({r \in regions : r.hi # heap.end}) <= 2 * Used + inits * HeapInitialSize

\* julius-libc's heap keeps the promises of BlockAllocator.
Allocator ==
  INSTANCE BlockAllocator WITH
    Addresses <- 1 .. AddrTop, Sizes <- 0 .. WordMod - 1, Alignment <- HeapAlign,
    granted <- {[addr |-> b.addr, size |-> b.size] : b \in blocks}

PromisesKept == Allocator!Spec

-----------------------------------------------------------------------------
(* What mem.h promises without a bound on size: "Allocate size bytes, ...   *)
(* Returns NULL on failure".  It does not hold for sizes within HeapAlign   *)
(* of 2^64, nor for calloc when the product does not fit in a size_t.       *)

RequestCovered ==
  \A b \in blocks : \E r \in regions : r.lo <= b.addr /\ b.addr + b.size <= r.hi
=============================================================================
