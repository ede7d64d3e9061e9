-------------------------- MODULE JuliusHeapProofs --------------------------
(* Proofs about JuliusHeap for every heap, alignment and set of requests    *)
(* whose size_t computations do not wrap (NoWrap).                          *)
EXTENDS JuliusHeap, SumTheorems

\* ALIGN returns a multiple of the alignment, at least what it was given and
\* less than one alignment more, when the addition fits in a size_t.
LEMMA RoundUpFacts ==
  ASSUME NEW n \in Nat, n + HeapAlign <= WordMod
  PROVE  /\ RoundUp(n) \in Nat
         /\ n <= RoundUp(n) /\ RoundUp(n) < n + HeapAlign
         /\ RoundUp(n) % HeapAlign = 0
<1> DEFINE s == n + HeapAlign - 1
<1>1. s \in Nat /\ s < WordMod /\ WordMod \in Nat
  BY HeapAssumption
<1>2. Wrap(s) = s
  BY <1>1 DEF Wrap
<1>3. s % HeapAlign \in 0 .. HeapAlign - 1
  BY <1>1, HeapAssumption
<1>4. RoundUp(n) = s - (s % HeapAlign)
  BY <1>2 DEF RoundUp
<1>5. (s - (s % HeapAlign)) % HeapAlign = 0
  BY <1>1, HeapAssumption
<1> QED
  BY <1>1, <1>3, <1>4, <1>5, HeapAssumption

\* A number is a multiple of a positive one exactly when the remainder is 0.
LEMMA Multiples ==
  ASSUME NEW m \in Nat \ {0}, NEW k \in Int
  PROVE  (k * m) % m = 0
<1> DEFINE q == (k * m) \div m
           r == (k * m) % m
<1>1. q \in Int /\ r \in 0 .. m - 1 /\ k * m = m * q + r
  OBVIOUS
<1>2. CASE k - q >= 1
  <2>1. m * (k - q) >= m
    BY <1>2, <1>1
  <2> QED
    BY <2>1, <1>1
<1>3. CASE k - q <= -1
  <2>1. m * (k - q) <= -m
    BY <1>3, <1>1
  <2> QED
    BY <2>1, <1>1
<1>4. CASE k = q
  BY <1>4, <1>1
<1> QED
  BY <1>1, <1>2, <1>3, <1>4

LEMMA Quotient ==
  ASSUME NEW m \in Nat \ {0}, NEW a \in Int, a % m = 0
  PROVE  \E k \in Int : a = k * m
<1>1. (a \div m) \in Int /\ a = m * (a \div m) + (a % m)
  OBVIOUS
<1>2. a = (a \div m) * m
  BY <1>1
<1> QED
  BY <1>1, <1>2

\* The sum of two multiples of the alignment is one.
LEMMA SumAligned ==
  ASSUME NEW a \in Nat, NEW b \in Nat, a % HeapAlign = 0, b % HeapAlign = 0
  PROVE  (a + b) % HeapAlign = 0
<1> DEFINE multiple(c) == \E k \in Int : c = k * HeapAlign
<1> HeapAlign \in Nat \ {0}
  BY HeapAssumption
<1>1. \A c \in Int : c % HeapAlign = 0 => multiple(c)
  BY Quotient
<1>2. multiple(a) /\ multiple(b)
  <2> HIDE DEF multiple
  <2> QED
    BY <1>1
<1>3. PICK j \in Int : a = j * HeapAlign
  BY <1>2
<1>4. PICK k \in Int : b = k * HeapAlign
  BY <1>2
<1>5. a + b = (j + k) * HeapAlign
  BY <1>3, <1>4
<1>6. ((j + k) * HeapAlign) % HeapAlign = 0
  BY Multiples
<1> QED
  BY <1>5, <1>6

\* A page boundary is an alignment boundary.
LEMMA PagesAligned ==
  ASSUME NEW p \in Nat, p % PageSize = 0
  PROVE  p % HeapAlign = 0
<1> /\ HeapAlign \in Nat \ {0} /\ PageSize \in Nat \ {0}
    /\ PageSize % HeapAlign = 0
  BY HeapAssumption
<1>1. PICK j \in Int : p = j * PageSize
  BY Quotient
<1>2. PICK k \in Int : PageSize = k * HeapAlign
  BY Quotient
<1>3. p = (j * k) * HeapAlign
  BY <1>1, <1>2
<1>4. ((j * k) * HeapAlign) % HeapAlign = 0
  BY Multiples
<1> QED
  BY <1>3, <1>4

\* What the proofs use of a region set: its members are mapped inside the
\* address space and hold every block.
Holds(rs) ==
  /\ rs \subseteq [lo : Nat, hi : Nat]
  /\ \A r \in rs : 0 < r.lo /\ r.lo <= r.hi /\ r.hi <= AddrTop
  /\ \A b \in blocks : \E r \in rs : r.lo <= b.addr /\ b.addr + b.len <= r.hi

\* A region the kernel adds is aligned and holds no part of a block.
LEMMA NewRegion ==
  ASSUME TypeOK, NEW rs, Holds(rs), NEW size \in Nat \ {0},
         NEW lo \in VmChoices(rs, size)
  PROVE  /\ Holds(rs \cup {Region(lo, size)})
         /\ lo \in Nat \ {0} /\ lo % HeapAlign = 0 /\ lo + size <= AddrTop
         /\ \A b \in blocks : b.addr + b.len <= lo \/ lo + size <= b.addr
<1>1. /\ lo \in Nat \ {0} /\ lo % PageSize = 0 /\ lo + size <= AddrTop
      /\ \A r \in rs : lo + size <= r.lo \/ r.hi <= lo
  BY HeapAssumption DEF VmChoices, Pages
<1>2. lo % HeapAlign = 0
  BY <1>1, PagesAligned
<1>3. Holds(rs \cup {Region(lo, size)})
  BY <1>1, HeapAssumption DEF Holds, Region
<1>4. ASSUME NEW b \in blocks
      PROVE  b.addr + b.len <= lo \/ lo + size <= b.addr
  <2>1. PICK r \in rs : r.lo <= b.addr /\ b.addr + b.len <= r.hi
    BY DEF Holds
  <2> b.addr \in Nat /\ b.len \in Nat /\ r.lo \in Nat /\ r.hi \in Nat
    BY DEF TypeOK, Holds
  <2> QED
    BY <2>1, <1>1
<1> QED
  BY <1>1, <1>2, <1>3, <1>4

\* Handing out the front of a heap that has room for it.
LEMMA BumpPreserves ==
  ASSUME TypeOK, SoundBlocks, NEW h, NEW rs, SoundHeap(h, rs),
         rs \subseteq [lo : Nat, hi : Nat],
         NEW size \in Nat, NEW asked \in Nat, asked <= size,
         size % HeapAlign = 0, h.ptr + size <= h.end,
         NEW zeroed, NEW kind \in {"malloc", "calloc"},
         Bump(h, rs, size, asked, zeroed, kind),
         UNCHANGED panicked, inits' \in {0, 1}, calls' \in Nat
  PROVE  HeapInv'
<1> DEFINE b0 == [addr |-> h.ptr, size |-> asked, len |-> size,
                  kind |-> kind, written |-> FALSE]
<1>1. PICK r0 \in rs : r0.lo <= h.ptr /\ h.ptr <= h.end /\ h.end = r0.hi
  BY DEF SoundHeap
<1>2. /\ h.ptr \in Nat \ {0} /\ h.end \in Nat /\ r0.lo \in Nat \ {0}
      /\ h.end <= AddrTop /\ h.base \in Nat \ {0}
  BY <1>1 DEF SoundHeap, Null
<1>3. Wrap(h.ptr + size) = h.ptr + size
  BY <1>2, HeapAssumption DEF Wrap
<1>4. /\ heap' = [h EXCEPT !.ptr = h.ptr + size]
      /\ regions' = rs /\ ret' = h.ptr /\ blocks' = blocks \cup {b0}
  BY <1>2, <1>3 DEF Bump, Null
<1>5. /\ heap'.base = h.base /\ heap'.ptr = h.ptr + size /\ heap'.end = h.end
      /\ heap' \in [base : Nat \ {Null}, ptr : Nat, end : Nat]
  BY <1>2, <1>4 DEF SoundHeap
<1>6. b0 \in [addr : Nat, size : Nat, len : Nat,
              kind : {"malloc", "calloc"}, written : BOOLEAN]
  BY <1>2
<1>7. dirty' \subseteq Nat
  <2>1. \A r \in rs : Bytes(r.lo, r.hi - r.lo) \subseteq Nat
    BY DEF Bytes
  <2> QED
    BY <2>1 DEF Bump, TypeOK
<1>8. TypeOK'
  BY <1>4, <1>5, <1>6, <1>7, <1>2 DEF TypeOK
<1>9. \A b \in blocks : /\ b.addr \in Nat /\ b.len \in Nat /\ b.size \in Nat
                        /\ b.addr + b.len <= h.ptr \/ h.end <= b.addr
  BY DEF TypeOK, SoundHeap
<1>10. SoundBlocks'
  <2>1. \A b \in blocks' : 0 < b.addr /\ b.addr % HeapAlign = 0 /\ b.size <= b.len
    BY <1>2, <1>4 DEF SoundBlocks, SoundHeap
  <2>2. \A b \in blocks : b.addr + b.len <= b0.addr \/ b0.addr + b0.len <= b.addr
    BY <1>2, <1>9
  <2>3. BlocksDisjoint'
    BY <2>2, <1>4 DEF SoundBlocks, BlocksDisjoint
  <2> QED
    BY <2>1, <2>3 DEF SoundBlocks
<1>11. SoundHeap(heap, regions)'
  <2>1. (h.ptr + size) % HeapAlign = 0
    BY <1>2, SumAligned DEF SoundHeap
  <2>2. \A b \in blocks' : b.addr + b.len <= heap'.ptr \/ heap'.end <= b.addr
    BY <1>2, <1>4, <1>5, <1>9
  <2>3. r0 \in regions' /\ r0.lo <= heap'.ptr /\ heap'.ptr <= heap'.end /\ heap'.end = r0.hi
    BY <1>1, <1>2, <1>4, <1>5
  <2>4. \A b \in blocks' : \E r \in regions' : r.lo <= b.addr /\ b.addr + b.len <= r.hi
    BY <1>1, <1>2, <1>4 DEF SoundHeap
  <2>5. \A r \in regions' : 0 < r.lo /\ r.lo <= r.hi /\ r.hi <= AddrTop
    BY <1>4 DEF SoundHeap
  <2> QED
    BY <1>5, <2>1, <2>2, <2>3, <2>4, <2>5 DEF SoundHeap
<1>12. heap'.base # Null
  BY <1>5
<1> QED
  BY <1>8, <1>10, <1>11, <1>12 DEF HeapInv

\* A heap record put at the start of a region just added is sound.
LEMMA NewHeapSound ==
  ASSUME TypeOK, NEW rs, Holds(rs), NEW size \in Nat \ {0},
         NEW lo \in VmChoices(rs, size),
         NEW h \in [base : Nat \ {Null}, ptr : Nat, end : Nat],
         h.ptr = lo, h.end = lo + size
  PROVE  SoundHeap(h, rs \cup {Region(lo, size)})
<1>1. /\ Holds(rs \cup {Region(lo, size)}) /\ lo \in Nat \ {0} /\ lo % HeapAlign = 0
      /\ \A b \in blocks : b.addr + b.len <= lo \/ lo + size <= b.addr
  BY NewRegion
<1>2. /\ Region(lo, size).lo <= h.ptr /\ h.ptr <= h.end
      /\ h.end = Region(lo, size).hi
  BY <1>1 DEF Region
<1> QED
  BY <1>1, <1>2 DEF SoundHeap, Holds

\* A call leaves the requested size on an alignment boundary, in range, and
\* the extension mapped for it is large enough.
SizeFits(size, asked) ==
  /\ size \in Nat /\ asked \in Nat /\ asked <= size
  /\ size % HeapAlign = 0 /\ 2 * size + AddrTop < WordMod

LEMMA ExtentFacts ==
  ASSUME NEW size, NEW asked, SizeFits(size, asked)
  PROVE  Extent(size) \in Nat \ {0} /\ size <= Extent(size)
<1>1. CASE size < HeapInitialSize
  BY <1>1, HeapAssumption DEF Extent, SizeFits
<1>2. CASE ~(size < HeapInitialSize)
  <2>1. 2 * size \in Nat /\ 2 * size < WordMod
    BY HeapAssumption DEF SizeFits
  <2>2. Extent(size) = 2 * size
    BY <1>2, <2>1, HeapAssumption DEF Extent, Wrap
  <2> QED
    BY <1>2, <2>2, HeapAssumption DEF SizeFits
<1> QED
  BY <1>1, <1>2

\* julius_malloc from the test for room on.
LEMMA CarvePreserves ==
  ASSUME TypeOK, SoundBlocks, NEW h, NEW rs, SoundHeap(h, rs), Holds(rs),
         NEW size, NEW asked, SizeFits(size, asked),
         NEW zeroed, NEW kind \in {"malloc", "calloc"},
         Carve(h, rs, size, asked, zeroed, kind),
         UNCHANGED panicked, inits' \in {0, 1}, calls' \in Nat
  PROVE  HeapInv'
<1>0. size \in Nat /\ asked \in Nat /\ asked <= size /\ size % HeapAlign = 0
  BY DEF SizeFits
<1>1. /\ h.ptr \in Nat \ {0} /\ h.end \in Nat /\ h.end <= AddrTop
      /\ h.ptr <= h.end /\ h.base \in Nat \ {0}
  <2>1. PICK r0 \in rs : r0.lo <= h.ptr /\ h.ptr <= h.end /\ h.end = r0.hi
    BY DEF SoundHeap
  <2> QED
    BY <2>1 DEF SoundHeap, Holds, Null
<1>2. Overruns(h, size) = {h.ptr + size > h.end}
  <2>1. h.ptr + size < WordMod
    BY <1>0, <1>1, HeapAssumption DEF SizeFits
  <2> QED
    BY <2>1, Zenon DEF Overruns
<1>3. rs \subseteq [lo : Nat, hi : Nat]
  BY DEF Holds
<1>4. CASE ~(h.ptr + size > h.end) /\ Bump(h, rs, size, asked, zeroed, kind)
  <2>1. h.ptr + size <= h.end
    BY <1>4, <1>1, <1>0
  <2> QED
    BY <2>1, <1>0, <1>3, <1>4, BumpPreserves
<1>5. ASSUME NEW lo \in VmChoices(rs, Extent(size)),
             Bump(ExtendedHeap(h, lo, size), rs \cup {Region(lo, Extent(size))},
                  size, asked, zeroed, kind)
      PROVE  HeapInv'
  <2> DEFINE hh == ExtendedHeap(h, lo, size)
             rr == rs \cup {Region(lo, Extent(size))}
  <2>1. Extent(size) \in Nat \ {0} /\ size <= Extent(size)
    BY ExtentFacts
  <2>2. Holds(rr) /\ lo \in Nat \ {0}
    BY <2>1, NewRegion
  <2>3. /\ hh \in [base : Nat \ {Null}, ptr : Nat, end : Nat]
        /\ hh.ptr = lo /\ hh.end = lo + Extent(size)
    <3>1. h \in [base : Nat \ {Null}, ptr : Nat, end : Nat]
      BY DEF SoundHeap
    <3>2. lo + Extent(size) \in Nat
      BY <2>1, <2>2
    <3> QED
      BY <2>2, <3>1, <3>2 DEF ExtendedHeap
  <2>4. SoundHeap(hh, rr)
    BY <2>1, <2>3, NewHeapSound
  <2>5. hh.ptr + size <= hh.end
    BY <1>0, <2>1, <2>2, <2>3
  <2>6. rr \subseteq [lo : Nat, hi : Nat]
    BY <2>2 DEF Holds
  <2>7. Bump(hh, rr, size, asked, zeroed, kind)
    BY <1>5
  <2> HIDE DEF hh, rr
  <2> QED
    BY <2>4, <2>5, <2>6, <2>7, <1>0, BumpPreserves
<1>6. CASE /\ heap' = h /\ regions' = rs /\ ret' = Null /\ blocks' = blocks
           /\ dirty' = dirty \cup UNION {Bytes(r.lo, r.hi - r.lo) : r \in rs \ regions}
  <2>1. \A r \in rs : Bytes(r.lo, r.hi - r.lo) \subseteq Nat
    BY <1>3 DEF Bytes
  <2>2. TypeOK'
    <3>1. dirty' \subseteq Nat
      BY <2>1, <1>6 DEF TypeOK
    <3>2. heap' \in [base : Nat, ptr : Nat, end : Nat] /\ regions' \subseteq [lo : Nat, hi : Nat]
      BY <1>3, <1>6 DEF SoundHeap
    <3> QED
      BY <3>1, <3>2, <1>6 DEF TypeOK, Null
  <2>3. SoundBlocks' /\ SoundHeap(heap, regions)' /\ heap'.base # Null
    BY <1>1, <1>6 DEF SoundBlocks, BlocksDisjoint, SoundHeap, Null
  <2> QED
    BY <2>2, <2>3 DEF HeapInv
<1> QED
  BY <1>2, <1>4, <1>5, <1>6 DEF Carve

LEMMA InvHolds ==
  ASSUME HeapInv
  PROVE  TypeOK /\ SoundBlocks /\ Holds(regions)
<1>1. CASE heap.base = Null
  BY <1>1 DEF HeapInv, Holds
<1>2. CASE heap.base # Null
  BY <1>2 DEF HeapInv, Holds, SoundHeap, TypeOK
<1> QED
  BY <1>1, <1>2 DEF HeapInv

\* The first region is sound as soon as it is mapped.
LEMMA FreshSound ==
  ASSUME HeapInv, NEW lo \in VmChoices(regions, HeapInitialSize)
  PROVE  LET rs == regions \cup {Region(lo, HeapInitialSize)}
         IN SoundHeap(FreshHeap(lo), rs) /\ Holds(rs)
<1>1. TypeOK /\ Holds(regions) /\ HeapInitialSize \in Nat \ {0}
  BY InvHolds, HeapAssumption
<1>2. /\ lo \in Nat \ {0}
      /\ Holds(regions \cup {Region(lo, HeapInitialSize)})
  BY <1>1, NewRegion
<1>3. /\ FreshHeap(lo) \in [base : Nat \ {Null}, ptr : Nat, end : Nat]
      /\ FreshHeap(lo).ptr = lo /\ FreshHeap(lo).end = lo + HeapInitialSize
  BY <1>1, <1>2 DEF FreshHeap, Null
<1>4. SoundHeap(FreshHeap(lo), regions \cup {Region(lo, HeapInitialSize)})
  BY <1>1, <1>3, NewHeapSound
<1> QED
  BY <1>2, <1>4

\* A request that wraps nowhere is rounded up to a size that fits.
LEMMA RoundedFits ==
  ASSUME NEW n \in Nat, 2 * (n + HeapAlign) + AddrTop < WordMod
  PROVE  SizeFits(RoundUp(n), n)
<1>1. n + HeapAlign <= WordMod
  BY HeapAssumption
<1>2. /\ RoundUp(n) \in Nat /\ n <= RoundUp(n) /\ RoundUp(n) < n + HeapAlign
      /\ RoundUp(n) % HeapAlign = 0
  BY <1>1, RoundUpFacts
<1>3. 2 * RoundUp(n) + AddrTop < WordMod
  BY <1>2, HeapAssumption
<1> QED
  BY <1>2, <1>3 DEF SizeFits

\* julius_malloc, with or without a heap to cut from.
LEMMA AllocatePreserves ==
  ASSUME HeapInv, NEW n \in Nat, 2 * (n + HeapAlign) + AddrTop < WordMod,
         NEW zeroed, NEW kind \in {"malloc", "calloc"},
         Allocate(n, n, zeroed, kind), inits' \in {0, 1}, calls' \in Nat
  PROVE  HeapInv'
<1>1. TypeOK /\ SoundBlocks /\ Holds(regions) /\ SizeFits(RoundUp(n), n)
  BY InvHolds, RoundedFits
<1>2. CASE /\ heap.base # Null /\ UNCHANGED panicked
           /\ Carve(heap, regions, RoundUp(n), n, zeroed, kind)
  <2>1. SoundHeap(heap, regions)
    BY <1>2 DEF HeapInv
  <2> QED
    BY <1>1, <1>2, <2>1, CarvePreserves
<1>3. ASSUME NEW lo \in VmChoices(regions, HeapInitialSize), UNCHANGED panicked,
             Carve(FreshHeap(lo), regions \cup {Region(lo, HeapInitialSize)},
                   RoundUp(n), n, zeroed, kind)
      PROVE  HeapInv'
  <2> DEFINE hh == FreshHeap(lo)
             rr == regions \cup {Region(lo, HeapInitialSize)}
  <2>1. SoundHeap(hh, rr) /\ Holds(rr)
    BY FreshSound
  <2>2. Carve(hh, rr, RoundUp(n), n, zeroed, kind)
    BY <1>3
  <2> HIDE DEF hh, rr
  <2> QED
    BY <1>1, <1>3, <2>1, <2>2, CarvePreserves
<1>4. CASE Panic
  BY <1>4 DEF Panic, HeapInv, TypeOK, SoundBlocks, BlocksDisjoint, SoundHeap
<1> QED
  BY <1>2, <1>3, <1>4 DEF Allocate

LEMMA MemInitPreserves ==
  ASSUME HeapInv, MemInit, inits' \in {0, 1}, calls' \in Nat
  PROVE  HeapInv'
<1>1. ASSUME NEW lo \in VmChoices(regions, HeapInitialSize),
             heap' = FreshHeap(lo),
             regions' = regions \cup {Region(lo, HeapInitialSize)},
             dirty' = dirty \cup Bytes(lo, HeapInitialSize),
             UNCHANGED <<blocks, panicked, ret>>
      PROVE  HeapInv'
  <2>1. /\ SoundHeap(FreshHeap(lo), regions \cup {Region(lo, HeapInitialSize)})
        /\ Holds(regions \cup {Region(lo, HeapInitialSize)})
    BY FreshSound
  <2>2. SoundHeap(heap, regions)' /\ SoundBlocks'
    BY <2>1, <1>1 DEF HeapInv, SoundHeap, SoundBlocks, BlocksDisjoint
  <2>3. lo \in Nat
    BY HeapAssumption DEF VmChoices, Pages, Null
  <2>4. TypeOK'
    BY <1>1, <2>1, <2>2, <2>3, HeapAssumption
    DEF HeapInv, TypeOK, SoundHeap, Bytes, Holds, Null
  <2>5. heap'.base # Null
    BY <2>2 DEF SoundHeap
  <2> QED
    BY <2>2, <2>4, <2>5 DEF HeapInv
<1>2. CASE Panic
  BY <1>2 DEF Panic, HeapInv, TypeOK, SoundBlocks, BlocksDisjoint, SoundHeap
<1> QED
  BY <1>1, <1>2 DEF MemInit

LEMMA WritePreserves ==
  ASSUME HeapInv, NEW b \in blocks, Write(b), UNCHANGED <<inits, calls>>
  PROVE  HeapInv'
<1> DEFINE w == [b EXCEPT !.written = TRUE]
<1>1. /\ w.addr = b.addr /\ w.size = b.size /\ w.len = b.len
      /\ w \in [addr : Nat, size : Nat, len : Nat,
                kind : {"malloc", "calloc"}, written : BOOLEAN]
      /\ b.addr \in Nat /\ b.size \in Nat
  BY DEF HeapInv, TypeOK
<1>2. /\ blocks' = (blocks \ {b}) \cup {w}
      /\ UNCHANGED <<heap, regions, panicked, ret, inits, calls>>
  BY DEF Write
<1> HIDE DEF w
<1>3. TypeOK'
  BY <1>1, <1>2 DEF HeapInv, TypeOK, Write, Bytes
<1>4. SoundBlocks'
  BY <1>1, <1>2 DEF HeapInv, SoundBlocks, BlocksDisjoint
<1>5. heap.base = Null => regions' = {} /\ blocks' = {}
  BY <1>2 DEF HeapInv
<1>6. heap.base # Null => SoundHeap(heap, regions)'
  BY <1>1, <1>2 DEF HeapInv, SoundHeap
<1> QED
  BY <1>2, <1>3, <1>4, <1>5, <1>6 DEF HeapInv

LEMMA StepPreserves ==
  ASSUME NoWrap, HeapInv, [Next]_vars
  PROVE  HeapInv'
<1>0. inits \in {0, 1} /\ calls \in Nat
  BY DEF HeapInv, TypeOK
<1>1. CASE InitCall
  BY <1>0, <1>1, MemInitPreserves DEF InitCall
<1>2. ASSUME NEW n \in Requests, Malloc(n), calls' = calls + 1, inits' = inits
      PROVE  HeapInv'
  <2>1. n \in Nat /\ 2 * (n + HeapAlign) + AddrTop < WordMod
    BY HeapAssumption DEF NoWrap
  <2> QED
    BY <1>0, <1>2, <2>1, AllocatePreserves DEF Malloc
<1>3. ASSUME NEW count \in Counts, NEW n \in Requests, Calloc(count, n),
             calls' = calls + 1, inits' = inits
      PROVE  HeapInv'
  <2>1. count * n \in Nat /\ 2 * (count * n + HeapAlign) + AddrTop < WordMod
    BY HeapAssumption DEF NoWrap
  <2>2. Wrap(count * n) = count * n
    BY <2>1, HeapAssumption DEF Wrap
  <2>3. Allocate(count * n, count * n, count * n, "calloc")
    BY <1>3, <2>2 DEF Calloc
  <2> QED
    BY <1>0, <1>3, <2>1, <2>3, AllocatePreserves
<1>4. CASE Use
  BY <1>4, WritePreserves DEF Use
<1>5. CASE UNCHANGED vars
  BY <1>5 DEF vars, HeapInv, TypeOK, SoundBlocks, BlocksDisjoint, SoundHeap
<1> QED
  BY <1>1, <1>2, <1>3, <1>4, <1>5 DEF Next, Call

\* mem.c as a whole: whatever calls are made in whatever order, and whether
\* or not the kernel grants memory, the heap record stays at the end of a
\* mapped region that no block reaches into.
THEOREM HeapInvariant ==
  ASSUME NoWrap
  PROVE  Spec => []HeapInv
<1>1. ASSUME Init PROVE HeapInv
  <2>1. heap = [base |-> 0, ptr |-> 0, end |-> 0]
    BY <1>1 DEF Init, Null
  <2>2. heap.base = Null /\ heap \in [base : Nat, ptr : Nat, end : Nat]
    BY <2>1 DEF Null
  <2>3. TypeOK
    BY <1>1, <2>2 DEF Init, TypeOK, Null
  <2>4. SoundBlocks
    BY <1>1 DEF Init, SoundBlocks, BlocksDisjoint
  <2> QED
    BY <1>1, <2>2, <2>3, <2>4 DEF Init, HeapInv
<1>2. HeapInv /\ [Next]_vars => HeapInv'
  BY StepPreserves
<1> QED
  BY <1>1, <1>2, PTL DEF Spec

\* julius_malloc and julius_calloc never hand out a byte twice.
THEOREM NoByteTwice ==
  ASSUME NoWrap
  PROVE  Spec => []BlocksDisjoint
<1>1. HeapInv => BlocksDisjoint
  BY DEF HeapInv, SoundBlocks
<1> QED
  BY <1>1, HeapInvariant, PTL

\* Every block lies inside one region the kernel mapped, and is at least as
\* long as its caller asked for.
THEOREM BlocksAreMapped ==
  ASSUME NoWrap
  PROVE  Spec => []BlocksMapped
<1>1. HeapInv => BlocksMapped
  BY DEF HeapInv, SoundBlocks, SoundHeap, BlocksMapped
<1> QED
  BY <1>1, HeapInvariant, PTL

\* mem.h:19-21 holds of every call whose size_t arithmetic does not wrap: what
\* the run heap_wide finds needs a size near 2^64 or a product beyond it.
THEOREM RequestsCovered ==
  ASSUME NoWrap
  PROVE  Spec => []RequestCovered
<1>1. ASSUME HeapInv
      PROVE  RequestCovered
  <2>1. BlocksMapped
    BY <1>1 DEF HeapInv, SoundBlocks, SoundHeap, BlocksMapped
  <2>2. ASSUME NEW b \in blocks
        PROVE  \E r \in regions : r.lo <= b.addr /\ b.addr + b.size <= r.hi
    <3>1. PICK r \in regions : r.lo <= b.addr /\ b.addr + b.len <= r.hi /\ b.size <= b.len
      BY <2>1, <2>2 DEF BlocksMapped
    <3>2. /\ b.addr \in Nat /\ b.size \in Nat /\ b.len \in Nat
          /\ r.lo \in Nat /\ r.hi \in Nat
      BY <1>1, <2>2, <3>1 DEF HeapInv, TypeOK
    <3> QED
      BY <3>1, <3>2
  <2> QED
    BY <2>2 DEF RequestCovered
<1> QED
  BY <1>1, HeapInvariant, PTL

-----------------------------------------------------------------------------
(* What is in the blocks: zeroes from calloc, and what their owners stored.  *)

Contents == CallocZeroed /\ WritesSurvive

\* The regions of rs that are new hold no part of a block.
Clear(rs) ==
  \A r \in rs \ regions, b \in blocks : b.addr + b.len <= r.lo \/ r.hi <= b.addr

\* A call clears no more than the caller asked for, and calloc all of it.
Clears(asked, zeroed, kind) ==
  /\ asked \in Nat /\ zeroed \in Nat /\ zeroed <= asked
  /\ kind \in {"malloc", "calloc"} /\ (kind = "calloc" => zeroed = asked)

\* Bytes that end where another range starts are not in it.
LEMMA Apart ==
  ASSUME NEW a \in Nat, NEW m \in Nat, NEW b \in Nat, NEW k \in Nat, NEW len \in Nat,
         m <= len, a + len <= b \/ b + k <= a
  PROVE  Bytes(a, m) \cap Bytes(b, k) = {}
BY DEF Bytes

LEMMA BumpContents ==
  ASSUME TypeOK, SoundBlocks, Contents, NEW h, NEW rs, SoundHeap(h, rs),
         rs \subseteq [lo : Nat, hi : Nat], Clear(rs),
         NEW size \in Nat, NEW asked, NEW zeroed, NEW kind, Clears(asked, zeroed, kind),
         asked <= size, h.ptr + size <= h.end,
         Bump(h, rs, size, asked, zeroed, kind)
  PROVE  Contents'
<1> DEFINE b0 == [addr |-> h.ptr, size |-> asked, len |-> size,
                  kind |-> kind, written |-> FALSE]
           fresh == UNION {Bytes(r.lo, r.hi - r.lo) : r \in rs \ regions}
           cleared == Bytes(h.ptr, zeroed)
<1>0. asked \in Nat /\ zeroed \in Nat /\ zeroed <= asked /\ zeroed <= size
  BY DEF Clears
<1>1. h.ptr \in Nat \ {0} /\ h.end \in Nat
  <2>1. PICK r \in rs : r.lo <= h.ptr /\ h.ptr <= h.end /\ h.end = r.hi
    BY DEF SoundHeap
  <2> QED
    BY <2>1 DEF SoundHeap
<1>2. blocks' = blocks \cup {b0} /\ dirty' = (dirty \cup fresh) \ cleared
  BY <1>1 DEF Bump, Null
<1>3. ASSUME NEW b \in blocks
      PROVE  /\ Bytes(b.addr, b.size) \cap fresh = {}
             /\ Bytes(b.addr, b.size) \cap cleared = {}
  <2>1. b.addr \in Nat /\ b.size \in Nat /\ b.len \in Nat /\ b.size <= b.len
    BY DEF TypeOK, SoundBlocks
  <2>2. ASSUME NEW r \in rs \ regions
        PROVE  Bytes(b.addr, b.size) \cap Bytes(r.lo, r.hi - r.lo) = {}
    <3>1. r.lo \in Nat /\ r.hi \in Nat /\ r.lo <= r.hi
      BY DEF SoundHeap
    <3>2. b.addr + b.len <= r.lo \/ r.hi <= b.addr
      BY DEF Clear
    <3>3. r.hi - r.lo \in Nat /\ r.lo + (r.hi - r.lo) = r.hi
      BY <3>1
    <3>4. b.addr + b.len <= r.lo \/ r.lo + (r.hi - r.lo) <= b.addr
      BY <3>2, <3>3
    <3> QED
      BY <2>1, <3>1, <3>3, <3>4, Apart
  <2>3. b.addr + b.len <= h.ptr \/ h.ptr + zeroed <= b.addr
    BY <1>0, <1>1, <2>1 DEF SoundHeap
  <2>4. Bytes(b.addr, b.size) \cap cleared = {}
    BY <1>0, <1>1, <2>1, <2>3, Apart
  <2> QED
    BY <2>2, <2>4
<1> HIDE DEF fresh, cleared
<1>4. CallocZeroed'
  <2>1. ASSUME NEW b \in blocks, b.kind = "calloc" /\ ~b.written
        PROVE  Bytes(b.addr, b.size) \cap dirty' = {}
    <3>1. Bytes(b.addr, b.size) \cap dirty = {}
      BY <2>1 DEF Contents, CallocZeroed
    <3> QED
      BY <1>2, <1>3, <3>1
  <2>2. b0.kind = "calloc" => Bytes(b0.addr, b0.size) \cap dirty' = {}
    BY <1>2 DEF Clears, cleared
  <2> QED
    BY <1>2, <2>1, <2>2 DEF CallocZeroed
<1>5. WritesSurvive'
  <2>1. ASSUME NEW b \in blocks, b.written
        PROVE  Bytes(b.addr, b.size) \subseteq dirty'
    <3>1. Bytes(b.addr, b.size) \subseteq dirty
      BY <2>1 DEF Contents, WritesSurvive
    <3> QED
      BY <1>2, <1>3, <3>1
  <2>2. ~b0.written
    OBVIOUS
  <2> QED
    BY <1>2, <2>1, <2>2 DEF WritesSurvive
<1> QED
  BY <1>4, <1>5 DEF Contents

\* Bytes that no block covers may become dirty.
LEMMA DirtyContents ==
  ASSUME TypeOK, SoundBlocks, Contents, NEW bytes, dirty' = dirty \cup bytes, blocks' = blocks,
         \A b \in blocks : Bytes(b.addr, b.size) \cap bytes = {}
  PROVE  Contents'
BY DEF Contents, CallocZeroed, WritesSurvive

LEMMA NewRegionClear ==
  ASSUME TypeOK, NEW rs, Holds(rs), Clear(rs), NEW size \in Nat \ {0},
         NEW lo \in VmChoices(rs, size)
  PROVE  Clear(rs \cup {Region(lo, size)})
<1>1. \A b \in blocks : b.addr + b.len <= lo \/ lo + size <= b.addr
  BY NewRegion
<1> QED
  BY <1>1 DEF Clear, Region

\* The bytes of new regions are in no block.
LEMMA ClearBytes ==
  ASSUME TypeOK, SoundBlocks, NEW rs, Holds(rs), Clear(rs), NEW b \in blocks
  PROVE  Bytes(b.addr, b.size) \cap UNION {Bytes(r.lo, r.hi - r.lo) : r \in rs \ regions} = {}
<1>1. b.addr \in Nat /\ b.size \in Nat /\ b.len \in Nat /\ b.size <= b.len
  BY DEF TypeOK, SoundBlocks
<1>2. ASSUME NEW r \in rs \ regions
      PROVE  Bytes(b.addr, b.size) \cap Bytes(r.lo, r.hi - r.lo) = {}
  <2>1. r.lo \in Nat /\ r.hi \in Nat /\ r.lo <= r.hi
    BY DEF Holds
  <2>2. b.addr + b.len <= r.lo \/ r.hi <= b.addr
    BY DEF Clear
  <2>3. r.hi - r.lo \in Nat /\ r.lo + (r.hi - r.lo) = r.hi
    BY <2>1
  <2>4. b.addr + b.len <= r.lo \/ r.lo + (r.hi - r.lo) <= b.addr
    BY <2>2, <2>3
  <2> QED
    BY <1>1, <2>1, <2>3, <2>4, Apart
<1> QED
  BY <1>2

LEMMA CarveContents ==
  ASSUME TypeOK, SoundBlocks, Contents, NEW h, NEW rs, SoundHeap(h, rs), Holds(rs), Clear(rs),
         NEW size, NEW asked, SizeFits(size, asked),
         NEW zeroed, NEW kind, Clears(asked, zeroed, kind),
         Carve(h, rs, size, asked, zeroed, kind)
  PROVE  Contents'
<1>0. size \in Nat /\ asked \in Nat /\ asked <= size
  BY DEF SizeFits
<1>1. /\ h.ptr \in Nat \ {0} /\ h.end \in Nat /\ h.end <= AddrTop
      /\ h.ptr <= h.end /\ h.base \in Nat \ {0}
  <2>1. PICK r0 \in rs : r0.lo <= h.ptr /\ h.ptr <= h.end /\ h.end = r0.hi
    BY DEF SoundHeap
  <2> QED
    BY <2>1 DEF SoundHeap, Holds, Null
<1>2. Overruns(h, size) = {h.ptr + size > h.end}
  <2>1. h.ptr + size < WordMod
    BY <1>0, <1>1, HeapAssumption DEF SizeFits
  <2> QED
    BY <2>1, Zenon DEF Overruns
<1>3. rs \subseteq [lo : Nat, hi : Nat]
  BY DEF Holds
<1>4. CASE ~(h.ptr + size > h.end) /\ Bump(h, rs, size, asked, zeroed, kind)
  <2>1. h.ptr + size <= h.end
    BY <1>4, <1>1, <1>0
  <2> QED
    BY <2>1, <1>0, <1>3, <1>4, BumpContents
<1>5. ASSUME NEW lo \in VmChoices(rs, Extent(size)),
             Bump(ExtendedHeap(h, lo, size), rs \cup {Region(lo, Extent(size))},
                  size, asked, zeroed, kind)
      PROVE  Contents'
  <2> DEFINE hh == ExtendedHeap(h, lo, size)
             rr == rs \cup {Region(lo, Extent(size))}
  <2>1. Extent(size) \in Nat \ {0} /\ size <= Extent(size)
    BY ExtentFacts
  <2>2. Holds(rr) /\ lo \in Nat \ {0} /\ Clear(rr)
    BY <2>1, NewRegion, NewRegionClear
  <2>3. /\ hh \in [base : Nat \ {Null}, ptr : Nat, end : Nat]
        /\ hh.ptr = lo /\ hh.end = lo + Extent(size)
    <3>1. h \in [base : Nat \ {Null}, ptr : Nat, end : Nat]
      BY DEF SoundHeap
    <3>2. lo + Extent(size) \in Nat
      BY <2>1, <2>2
    <3> QED
      BY <2>2, <3>1, <3>2 DEF ExtendedHeap
  <2>4. SoundHeap(hh, rr)
    BY <2>1, <2>3, NewHeapSound
  <2>5. hh.ptr + size <= hh.end
    BY <1>0, <2>1, <2>2, <2>3
  <2>6. rr \subseteq [lo : Nat, hi : Nat]
    BY <2>2 DEF Holds
  <2>7. Bump(hh, rr, size, asked, zeroed, kind)
    BY <1>5
  <2> HIDE DEF hh, rr
  <2> QED
    BY <2>2, <2>4, <2>5, <2>6, <2>7, <1>0, BumpContents
<1>6. CASE /\ heap' = h /\ regions' = rs /\ ret' = Null /\ blocks' = blocks
           /\ dirty' = dirty \cup UNION {Bytes(r.lo, r.hi - r.lo) : r \in rs \ regions}
  <2>1. \A b \in blocks :
          Bytes(b.addr, b.size) \cap UNION {Bytes(r.lo, r.hi - r.lo) : r \in rs \ regions} = {}
    BY ClearBytes
  <2> QED
    BY <1>6, <2>1, DirtyContents
<1> QED
  BY <1>2, <1>4, <1>5, <1>6 DEF Carve

LEMMA AllocateContents ==
  ASSUME HeapInv, Contents, NEW n \in Nat, 2 * (n + HeapAlign) + AddrTop < WordMod,
         NEW zeroed, NEW kind, Clears(n, zeroed, kind),
         Allocate(n, n, zeroed, kind)
  PROVE  Contents'
<1>1. TypeOK /\ SoundBlocks /\ Holds(regions) /\ SizeFits(RoundUp(n), n) /\ Clear(regions)
  BY InvHolds, RoundedFits DEF Clear
<1>2. CASE heap.base # Null /\ Carve(heap, regions, RoundUp(n), n, zeroed, kind)
  <2>1. SoundHeap(heap, regions)
    BY <1>2 DEF HeapInv
  <2> QED
    BY <1>1, <1>2, <2>1, CarveContents
<1>3. ASSUME NEW lo \in VmChoices(regions, HeapInitialSize),
             Carve(FreshHeap(lo), regions \cup {Region(lo, HeapInitialSize)},
                   RoundUp(n), n, zeroed, kind)
      PROVE  Contents'
  <2> DEFINE hh == FreshHeap(lo)
             rr == regions \cup {Region(lo, HeapInitialSize)}
  <2>1. SoundHeap(hh, rr) /\ Holds(rr)
    BY FreshSound
  <2>2. Clear(rr)
    BY <1>1, HeapAssumption, NewRegionClear
  <2>3. Carve(hh, rr, RoundUp(n), n, zeroed, kind)
    BY <1>3
  <2> HIDE DEF hh, rr
  <2> QED
    BY <1>1, <2>1, <2>2, <2>3, CarveContents
<1>4. CASE Panic
  BY <1>4 DEF Panic, Contents, CallocZeroed, WritesSurvive
<1> QED
  BY <1>2, <1>3, <1>4 DEF Allocate

LEMMA WriteContents ==
  ASSUME HeapInv, Contents, NEW b \in blocks, Write(b)
  PROVE  Contents'
<1> DEFINE w == [b EXCEPT !.written = TRUE]
           own == Bytes(b.addr, b.size)
<1>1. \A c \in blocks : c.addr \in Nat /\ c.size \in Nat /\ c.len \in Nat /\ c.size <= c.len
  BY DEF HeapInv, TypeOK, SoundBlocks
<1>2. w.addr = b.addr /\ w.size = b.size /\ w.written = TRUE
  BY DEF HeapInv, TypeOK
<1>3. blocks' = (blocks \ {b}) \cup {w} /\ dirty' = dirty \cup own
  BY DEF Write
<1>4. ASSUME NEW c \in blocks \ {b}
      PROVE  Bytes(c.addr, c.size) \cap own = {}
  <2>1. c.addr + c.len <= b.addr \/ b.addr + b.len <= c.addr
    BY DEF HeapInv, SoundBlocks, BlocksDisjoint
  <2>2. c.addr + c.len <= b.addr \/ b.addr + b.size <= c.addr
    BY <1>1, <2>1
  <2> QED
    BY <1>1, <2>2, Apart
<1> HIDE DEF w, own
<1>5. CallocZeroed'
  <2>1. ASSUME NEW c \in blocks \ {b}, c.kind = "calloc" /\ ~c.written
        PROVE  Bytes(c.addr, c.size) \cap dirty' = {}
    BY <1>3, <1>4, <2>1 DEF Contents, CallocZeroed
  <2> QED
    BY <1>2, <1>3, <2>1 DEF CallocZeroed
<1>6. WritesSurvive'
  <2>1. Bytes(w.addr, w.size) \subseteq dirty'
    BY <1>2, <1>3 DEF own
  <2> QED
    BY <1>3, <2>1 DEF Contents, WritesSurvive
<1> QED
  BY <1>5, <1>6 DEF Contents

LEMMA StepContents ==
  ASSUME NoWrap, HeapInv, Contents, [Next]_vars
  PROVE  Contents'
<1>0. TypeOK /\ SoundBlocks /\ Holds(regions)
  BY InvHolds
<1>1. ASSUME NEW lo \in VmChoices(regions, HeapInitialSize),
             dirty' = dirty \cup Bytes(lo, HeapInitialSize), blocks' = blocks
      PROVE  Contents'
  <2>1. HeapInitialSize \in Nat \ {0}
    BY HeapAssumption
  <2>2. lo \in Nat /\ \A b \in blocks : b.addr + b.len <= lo \/ lo + HeapInitialSize <= b.addr
    BY <1>0, <2>1, NewRegion
  <2>3. \A b \in blocks : b.addr \in Nat /\ b.size \in Nat /\ b.len \in Nat /\ b.size <= b.len
    BY <1>0 DEF TypeOK, SoundBlocks
  <2>4. \A b \in blocks : Bytes(b.addr, b.size) \cap Bytes(lo, HeapInitialSize) = {}
    BY <2>1, <2>2, <2>3, Apart
  <2> QED
    BY <1>0, <1>1, <2>4, DirtyContents
<1>2. CASE InitCall
  <2>1. CASE Panic
    BY <2>1 DEF Panic, Contents, CallocZeroed, WritesSurvive
  <2> QED
    BY <1>1, <1>2, <2>1 DEF InitCall, MemInit
<1>3. ASSUME NEW n \in Requests, Malloc(n)
      PROVE  Contents'
  <2>1. n \in Nat /\ 2 * (n + HeapAlign) + AddrTop < WordMod
    BY HeapAssumption DEF NoWrap
  <2>2. Clears(n, 0, "malloc")
    BY <2>1 DEF Clears
  <2> QED
    BY <1>3, <2>1, <2>2, AllocateContents DEF Malloc
<1>4. ASSUME NEW count \in Counts, NEW n \in Requests, Calloc(count, n)
      PROVE  Contents'
  <2>1. count * n \in Nat /\ 2 * (count * n + HeapAlign) + AddrTop < WordMod
    BY HeapAssumption DEF NoWrap
  <2>2. Wrap(count * n) = count * n
    BY <2>1, HeapAssumption DEF Wrap
  <2>3. Allocate(count * n, count * n, count * n, "calloc")
    BY <1>4, <2>2 DEF Calloc
  <2>4. Clears(count * n, count * n, "calloc")
    BY <2>1 DEF Clears
  <2> QED
    BY <2>1, <2>3, <2>4, AllocateContents
<1>5. CASE Use
  BY <1>5, WriteContents DEF Use
<1>6. CASE UNCHANGED vars
  BY <1>6 DEF vars, Contents, CallocZeroed, WritesSurvive
<1> QED
  BY <1>2, <1>3, <1>4, <1>5, <1>6 DEF Next, Call

\* mem.c:107-115: memory from calloc reads as zero until its owner stores into
\* it, whatever was in the region before and whatever calls come between.
THEOREM CallocIsZeroed ==
  ASSUME NoWrap
  PROVE  Spec => []CallocZeroed
<1>1. Init => Contents
  BY DEF Init, Contents, CallocZeroed, WritesSurvive
<1>2. HeapInv /\ Contents /\ [Next]_vars => Contents'
  BY StepContents
<1>3. Contents => CallocZeroed
  BY DEF Contents
<1> QED
  BY <1>1, <1>2, <1>3, HeapInvariant, PTL DEF Spec

\* No call clears or dirties what the owner of another block stored.
THEOREM StoresSurvive ==
  ASSUME NoWrap
  PROVE  Spec => []WritesSurvive
<1>1. Init => Contents
  BY DEF Init, Contents, CallocZeroed, WritesSurvive
<1>2. HeapInv /\ Contents /\ [Next]_vars => Contents'
  BY StepContents
<1>3. Contents => WritesSurvive
  BY DEF Contents
<1> QED
  BY <1>1, <1>2, <1>3, HeapInvariant, PTL DEF Spec

-----------------------------------------------------------------------------
(* A call that returns NULL is one the kernel refused.                      *)

LEMMA CarveRefuses ==
  ASSUME HeapInv, heap.base # Null, NEW size, NEW asked, SizeFits(size, asked),
         NEW zeroed, NEW kind, Carve(heap, regions, size, asked, zeroed, kind), ret' = Null
  PROVE  heap'.end - heap'.ptr >= heap.end - heap.ptr
<1>1. SoundHeap(heap, regions) /\ Holds(regions) /\ TypeOK
  BY InvHolds DEF HeapInv
<1>2. heap.ptr \in Nat \ {0} /\ heap.end \in Nat
  <2>1. PICK r \in regions : r.lo <= heap.ptr /\ heap.ptr <= heap.end /\ heap.end = r.hi
    BY <1>1 DEF SoundHeap
  <2> QED
    BY <1>1, <2>1 DEF SoundHeap, Holds
<1>3. ~Bump(heap, regions, size, asked, zeroed, kind)
  BY <1>2 DEF Bump, Null
<1>4. ASSUME NEW lo \in VmChoices(regions, Extent(size)),
             Bump(ExtendedHeap(heap, lo, size), regions \cup {Region(lo, Extent(size))},
                  size, asked, zeroed, kind)
      PROVE  FALSE
  <2>1. Extent(size) \in Nat \ {0}
    BY ExtentFacts
  <2>2. lo \in Nat \ {0}
    BY <1>1, <2>1, NewRegion
  <2>3. ExtendedHeap(heap, lo, size).ptr = lo
    BY <1>1 DEF ExtendedHeap, TypeOK
  <2> QED
    BY <1>4, <2>2, <2>3 DEF Bump, Null
<1>5. heap' = heap
  BY <1>3, <1>4 DEF Carve
<1> QED
  BY <1>2, <1>5

\* mem.c:92-97: a refused extension leaves the room there was for smaller
\* requests.
THEOREM RefusalsLoseNothing ==
  ASSUME NoWrap
  PROVE  Spec => RefusalLosesNothing
<1> DEFINE Refused == calls' # calls /\ ret' = Null /\ heap.base # Null
<1>1. ASSUME HeapInv, [Next]_vars, Refused
      PROVE  heap'.end - heap'.ptr >= heap.end - heap.ptr
  <2>1. CASE InitCall \/ Use \/ UNCHANGED vars
    BY <1>1, <2>1 DEF InitCall, Use, vars
  <2>2. ASSUME NEW n \in Nat, NEW zeroed, NEW kind, Allocate(n, n, zeroed, kind),
               2 * (n + HeapAlign) + AddrTop < WordMod
        PROVE  heap'.end - heap'.ptr >= heap.end - heap.ptr
    <3>1. SizeFits(RoundUp(n), n)
      BY <2>2, RoundedFits
    <3>2. Carve(heap, regions, RoundUp(n), n, zeroed, kind)
      BY <1>1, <2>2 DEF Allocate
    <3> QED
      BY <1>1, <3>1, <3>2, CarveRefuses
  <2>3. ASSUME NEW n \in Requests, Malloc(n)
        PROVE  heap'.end - heap'.ptr >= heap.end - heap.ptr
    <3>1. n \in Nat /\ 2 * (n + HeapAlign) + AddrTop < WordMod
      BY HeapAssumption DEF NoWrap
    <3> QED
      BY <2>2, <2>3, <3>1 DEF Malloc
  <2>4. ASSUME NEW count \in Counts, NEW n \in Requests, Calloc(count, n)
        PROVE  heap'.end - heap'.ptr >= heap.end - heap.ptr
    <3>1. count * n \in Nat /\ 2 * (count * n + HeapAlign) + AddrTop < WordMod
      BY HeapAssumption DEF NoWrap
    <3>2. Wrap(count * n) = count * n
      BY <3>1, HeapAssumption DEF Wrap
    <3>3. Allocate(count * n, count * n, count * n, "calloc")
      BY <2>4, <3>2 DEF Calloc
    <3> QED
      BY <2>2, <3>1, <3>3
  <2> QED
    BY <1>1, <2>1, <2>3, <2>4 DEF Next, Call
<1>2. HeapInv /\ [Next]_vars
        => [Refused => heap'.end - heap'.ptr >= heap.end - heap.ptr]_vars
  BY <1>1
<1> QED
  BY <1>2, HeapInvariant, PTL DEF Spec, RefusalLosesNothing

-----------------------------------------------------------------------------
(* Refinement: a step of the heap grants one block or none.                 *)

granted == {[addr |-> b.addr, size |-> b.size] : b \in blocks}

LEMMA CarveGrants ==
  ASSUME NEW h, NEW rs, NEW size, NEW asked, NEW zeroed, NEW kind,
         Carve(h, rs, size, asked, zeroed, kind)
  PROVE  blocks' = blocks \/ \E b : blocks' = blocks \cup {b}
<1>1. ASSUME NEW hh, NEW rr, Bump(hh, rr, size, asked, zeroed, kind)
      PROVE  blocks' = blocks \/ \E b : blocks' = blocks \cup {b}
  BY <1>1 DEF Bump
<1> QED
  BY <1>1 DEF Carve

\* No step takes a block away or changes where it is.
LEMMA StepGrants ==
  ASSUME [Next]_vars
  PROVE  granted' = granted \/ \E b : blocks' = blocks \cup {b}
<1>1. CASE blocks' = blocks
  BY <1>1 DEF granted
<1>2. ASSUME NEW n, NEW asked, NEW zeroed, NEW kind, Allocate(n, asked, zeroed, kind)
      PROVE  blocks' = blocks \/ \E b : blocks' = blocks \cup {b}
  BY <1>2, CarveGrants DEF Allocate, Panic
<1>3. ASSUME NEW b \in blocks, Write(b) PROVE granted' = granted
  <2> DEFINE w == [b EXCEPT !.written = TRUE]
  <2>1. w.addr = b.addr /\ w.size = b.size
    OBVIOUS
  <2>2. blocks' = (blocks \ {b}) \cup {w}
    BY <1>3 DEF Write
  <2> HIDE DEF w
  <2> QED
    BY <2>1, <2>2 DEF granted
<1>4. CASE InitCall
  BY <1>1, <1>4 DEF InitCall, MemInit, Panic
<1>5. CASE Call
  BY <1>1, <1>2, <1>5 DEF Call, Malloc, Calloc
<1>6. CASE Use
  BY <1>3, <1>6 DEF Use
<1> QED
  BY <1>1, <1>4, <1>5, <1>6 DEF Next, vars

LEMMA StepKeepsPromises ==
  ASSUME HeapInv', [Next]_vars
  PROVE  [Allocator!Next]_granted
<1>1. CASE granted' = granted
  BY <1>1
<1>2. ASSUME NEW b, blocks' = blocks \cup {b} PROVE Allocator!Next
  <2> DEFINE g == [addr |-> b.addr, size |-> b.size]
  <2>1. /\ b \in blocks' /\ b.addr \in Nat /\ b.size \in Nat /\ b.len \in Nat
        /\ 0 < b.addr /\ b.addr % HeapAlign = 0 /\ b.size <= b.len
    BY <1>2 DEF HeapInv, TypeOK, SoundBlocks
  <2>2. b.addr + b.len <= AddrTop
    <3>1. PICK r \in regions' : /\ r.lo <= b.addr /\ b.addr + b.len <= r.hi
                                /\ r.hi <= AddrTop
      BY <2>1 DEF HeapInv, SoundHeap
    <3> r.hi \in Nat
      BY DEF HeapInv, TypeOK
    <3> QED
      BY <3>1, <2>1, HeapAssumption
  <2>3. b.addr \in 1 .. AddrTop /\ b.size \in 0 .. WordMod - 1
    BY <2>1, <2>2, HeapAssumption
  <2>4. g \in Allocator!Block
    BY <2>3 DEF Allocator!Block
  <2>5. granted' = granted \cup {g}
    BY <1>2 DEF granted
  <2>6. ASSUME NEW c \in granted \ {g} PROVE Allocator!Apart(g, c)
    <3>1. PICK d \in blocks : c = [addr |-> d.addr, size |-> d.size]
      BY DEF granted
    <3>2. d \in blocks' /\ d # b /\ d.addr \in Nat /\ d.len \in Nat
          /\ d.size \in Nat /\ d.size <= d.len
      BY <1>2, <3>1, <2>6 DEF HeapInv, TypeOK, SoundBlocks
    <3>3. b.addr + b.len <= d.addr \/ d.addr + d.len <= b.addr
      BY <2>1, <3>2 DEF HeapInv, SoundBlocks, BlocksDisjoint
    <3>4. b.addr + b.size <= d.addr \/ d.addr + d.size <= b.addr
      BY <2>1, <3>2, <3>3
    <3> QED
      BY <3>1, <3>4 DEF Allocator!Apart
  <2>7. Allocator!Grant(g)
    BY <2>1, <2>5, <2>6 DEF Allocator!Grant, granted
  <2> QED
    BY <2>4, <2>7 DEF Allocator!Next
<1> QED
  BY <1>1, <1>2, StepGrants

\* julius-libc's heap implements the allocator callers are promised.
THEOREM HeapImplementsAllocator ==
  ASSUME NoWrap
  PROVE  Spec => PromisesKept
<1>1. Init => Allocator!Init
  BY DEF Init, Allocator!Init
<1>2. HeapInv' /\ [Next]_vars => [Allocator!Next]_granted
  BY StepKeepsPromises
<1> QED
  BY <1>1, <1>2, HeapInvariant, PTL DEF Spec, PromisesKept, Allocator!Spec, granted

-----------------------------------------------------------------------------
(* What is left behind                                                      *)

\* The regions are finitely many, none is empty, and no two share a byte.
Spread(rs) ==
  /\ IsFiniteSet(rs)
  /\ \A r \in rs : r.lo < r.hi
  /\ \A r, s \in rs : r # s => r.hi <= s.lo \/ s.hi <= r.lo

\* What heap h over the regions rs has left behind is paid for by the bytes
\* handed out, and with it the part of the current region that is handed out;
\* counting all of that region, a further initialisation pays the difference.
Paid(h, rs, used, ins) ==
  \E r \in rs :
    /\ r.hi = h.end /\ r.lo <= h.ptr /\ h.ptr <= h.end
    /\ Mapped(rs \ {r}) + (h.ptr - r.lo) <= 2 * used + ins * HeapInitialSize
    /\ Mapped(rs \ {r}) + (r.hi - r.lo) <= 2 * used + (ins + 1) * HeapInitialSize

WasteInv ==
  /\ Spread(regions) /\ IsFiniteSet(blocks)
  /\ heap.base # Null => Paid(heap, regions, Used, inits)

Lens(bs) == SumFunction([b \in bs |-> b.len])

LEMMA MappedSums ==
  ASSUME NEW rs \in SUBSET [lo : Nat, hi : Nat], IsFiniteSet(rs), \A r \in rs : r.lo <= r.hi
  PROVE  /\ Mapped(rs) \in Nat
         /\ \A r \in rs : Mapped(rs) = Mapped(rs \ {r}) + (r.hi - r.lo)
<1> DEFINE f == [r \in rs |-> r.hi - r.lo]
<1>1. DOMAIN f = rs /\ \A r \in rs : f[r] = r.hi - r.lo /\ f[r] \in Nat
  OBVIOUS
<1>2. Mapped(rs) = SumFunctionOnSet(f, rs)
  BY DEF Mapped, SumFunction
<1>3. ASSUME NEW r \in rs
      PROVE  Mapped(rs \ {r}) = SumFunctionOnSet(f, rs \ {r})
  <2> DEFINE g == [x \in rs \ {r} |-> x.hi - x.lo]
  <2>1. DOMAIN g = rs \ {r} /\ \A x \in rs \ {r} : f[x] = g[x]
    OBVIOUS
  <2>2. Mapped(rs \ {r}) = SumFunctionOnSet(g, rs \ {r})
    BY DEF Mapped, SumFunction
  <2>3. IsFiniteSet(rs \ {r})
    BY FS_RemoveElement
  <2> HIDE DEF f, g
  <2> QED BY <2>1, <2>2, <2>3, SumSame
<1> HIDE DEF f
<1>4. SumFunctionOnSet(f, rs) \in Nat
  BY <1>1, SumNat
<1>5. ASSUME NEW r \in rs
      PROVE  Mapped(rs) = Mapped(rs \ {r}) + (r.hi - r.lo)
  <2>1. SumFunctionOnSet(f, rs) = f[r] + SumFunctionOnSet(f, rs \ {r})
    BY <1>1, SumRemove
  <2>2. IsFiniteSet(rs \ {r}) /\ \A x \in rs \ {r} : f[x] \in Nat
    BY <1>1, FS_RemoveElement
  <2>3. SumFunctionOnSet(f, rs \ {r}) \in Nat
    BY <2>2, SumNat
  <2> QED BY <1>1, <1>2, <1>3, <2>1, <2>3
<1> QED BY <1>2, <1>4, <1>5

LEMMA LensSums ==
  ASSUME NEW bs, IsFiniteSet(bs), \A b \in bs : b.len \in Nat
  PROVE  /\ Lens(bs) \in Nat
         /\ \A b \in bs : Lens(bs) = Lens(bs \ {b}) + b.len /\ Lens(bs \ {b}) \in Nat
<1> DEFINE f == [b \in bs |-> b.len]
<1>1. DOMAIN f = bs /\ \A b \in bs : f[b] = b.len /\ f[b] \in Nat
  OBVIOUS
<1>2. Lens(bs) = SumFunctionOnSet(f, bs)
  BY DEF Lens, SumFunction
<1>3. ASSUME NEW b \in bs
      PROVE  Lens(bs \ {b}) = SumFunctionOnSet(f, bs \ {b})
  <2> DEFINE g == [x \in bs \ {b} |-> x.len]
  <2>1. DOMAIN g = bs \ {b} /\ \A x \in bs \ {b} : f[x] = g[x]
    OBVIOUS
  <2>2. Lens(bs \ {b}) = SumFunctionOnSet(g, bs \ {b})
    BY DEF Lens, SumFunction
  <2>3. IsFiniteSet(bs \ {b})
    BY FS_RemoveElement
  <2> HIDE DEF f, g
  <2> QED BY <2>1, <2>2, <2>3, SumSame
<1> HIDE DEF f
<1>4. SumFunctionOnSet(f, bs) \in Nat
  BY <1>1, SumNat
<1>5. ASSUME NEW b \in bs
      PROVE  Lens(bs) = Lens(bs \ {b}) + b.len /\ Lens(bs \ {b}) \in Nat
  <2>1. SumFunctionOnSet(f, bs) = f[b] + SumFunctionOnSet(f, bs \ {b})
    BY <1>1, SumRemove
  <2>2. IsFiniteSet(bs \ {b}) /\ \A x \in bs \ {b} : f[x] \in Nat
    BY <1>1, FS_RemoveElement
  <2>3. SumFunctionOnSet(f, bs \ {b}) \in Nat
    BY <2>2, SumNat
  <2> QED BY <1>1, <1>2, <1>3, <2>1, <2>3
<1> QED BY <1>2, <1>4, <1>5

\* One more block, unless it is there already.
LEMMA LensAdd ==
  ASSUME NEW bs, IsFiniteSet(bs), \A b \in bs : b.len \in Nat, NEW b, b.len \in Nat
  PROVE  /\ IsFiniteSet(bs \cup {b}) /\ Lens(bs) \in Nat
         /\ b \notin bs => Lens(bs \cup {b}) = Lens(bs) + b.len
<1>1. IsFiniteSet(bs \cup {b}) /\ \A c \in bs \cup {b} : c.len \in Nat
  BY FS_AddElement
<1>2. Lens(bs \cup {b}) = Lens((bs \cup {b}) \ {b}) + b.len
  BY <1>1, LensSums
<1>3. b \notin bs => (bs \cup {b}) \ {b} = bs
  OBVIOUS
<1>4. Lens(bs) \in Nat
  BY LensSums
<1> QED BY <1>1, <1>2, <1>3, <1>4

LEMMA MappedEmpty == Mapped({}) = 0
<1> DEFINE f == [r \in {} |-> r.hi - r.lo]
<1>1. Mapped({}) = SumFunctionOnSet(f, {})
  BY DEF Mapped, SumFunction
<1> HIDE DEF f
<1> QED BY <1>1, SumEmpty

\* The kernel's next region does not touch the others.
LEMMA SpreadAdd ==
  ASSUME NEW rs \in SUBSET [lo : Nat, hi : Nat], Spread(rs), NEW size \in Nat \ {0},
         NEW lo \in VmChoices(rs, size)
  PROVE  /\ Spread(rs \cup {Region(lo, size)}) /\ Region(lo, size) \notin rs
         /\ (rs \cup {Region(lo, size)}) \ {Region(lo, size)} = rs
         /\ rs \cup {Region(lo, size)} \in SUBSET [lo : Nat, hi : Nat]
         /\ Region(lo, size).lo = lo /\ Region(lo, size).hi = lo + size /\ lo \in Nat
<1> DEFINE new == Region(lo, size)
<1>1. /\ lo \in Nat /\ \A r \in rs : lo + size <= r.lo \/ r.hi <= lo
  BY HeapAssumption DEF VmChoices, Pages
<1>2. new.lo = lo /\ new.hi = lo + size /\ new \in [lo : Nat, hi : Nat]
  BY <1>1 DEF Region
<1> HIDE DEF new
<1>3. new \notin rs
  BY <1>1, <1>2 DEF Spread
<1>4. IsFiniteSet(rs \cup {new})
  BY FS_AddElement DEF Spread
<1>5. \A r \in rs \cup {new} : r.lo < r.hi
  BY <1>1, <1>2 DEF Spread
<1>6. \A r, s \in rs \cup {new} : r # s => r.hi <= s.lo \/ s.hi <= r.lo
  BY <1>1, <1>2 DEF Spread
<1>7. Spread(rs \cup {new})
  BY <1>4, <1>5, <1>6 DEF Spread
<1> QED BY <1>1, <1>2, <1>3, <1>7 DEF new

\* Handing out size bytes makes the blocks size bytes longer in all.
LEMMA BumpUses ==
  ASSUME TypeOK, SoundBlocks, IsFiniteSet(blocks), NEW h,
         NEW rs \in SUBSET [lo : Nat, hi : Nat], SoundHeap(h, rs),
         NEW size \in Nat, h.ptr + size <= h.end, NEW asked, NEW zeroed, NEW kind,
         Bump(h, rs, size, asked, zeroed, kind)
  PROVE  /\ Used \in Nat /\ Used' \in Nat /\ Used' >= Used + size /\ IsFiniteSet(blocks')
         /\ regions' = rs /\ heap' = [h EXCEPT !.ptr = h.ptr + size]
<1> DEFINE b0 == [addr |-> h.ptr, size |-> asked, len |-> size,
                  kind |-> kind, written |-> FALSE]
<1>1. /\ h.ptr \in Nat \ {0} /\ h.end \in Nat /\ h.end <= AddrTop
  <2>1. PICK r \in rs : r.lo <= h.ptr /\ h.ptr <= h.end /\ h.end = r.hi
    BY DEF SoundHeap
  <2> QED BY <2>1 DEF SoundHeap
<1>2. Wrap(h.ptr + size) = h.ptr + size
  BY <1>1, HeapAssumption DEF Wrap
<1>3. /\ heap' = [h EXCEPT !.ptr = h.ptr + size]
      /\ regions' = rs /\ blocks' = blocks \cup {b0}
  BY <1>1, <1>2 DEF Bump, Null
<1>4. \A b \in blocks : b.len \in Nat /\ b.addr \in Nat
  BY DEF TypeOK
<1>5. b0.len = size /\ b0.addr = h.ptr
  OBVIOUS
<1>6. b0 \in blocks => size = 0
  BY <1>1, <1>4, <1>5 DEF SoundHeap
<1> HIDE DEF b0
<1>7. Used = Lens(blocks) /\ Used' = Lens(blocks \cup {b0})
  BY <1>3 DEF Used, Lens
<1>8. /\ IsFiniteSet(blocks \cup {b0}) /\ Lens(blocks) \in Nat
      /\ b0 \notin blocks => Lens(blocks \cup {b0}) = Lens(blocks) + size
  BY <1>4, <1>5, LensAdd
<1>9. b0 \in blocks => blocks \cup {b0} = blocks
  OBVIOUS
<1> QED BY <1>3, <1>6, <1>7, <1>8, <1>9

\* A block cut from the front of the current region is paid for by itself.
LEMMA PaidBump ==
  ASSUME NEW h, NEW rs \in SUBSET [lo : Nat, hi : Nat], Spread(rs),
         h \in [base : Nat \ {Null}, ptr : Nat, end : Nat],
         NEW used \in Nat, NEW used2 \in Nat, NEW ins \in {0, 1}, NEW size \in Nat,
         used2 >= used + size, h.ptr + size <= h.end,
         Paid(h, rs, used, ins)
  PROVE  Paid([h EXCEPT !.ptr = h.ptr + size], rs, used2, ins)
<1> DEFINE hh == [h EXCEPT !.ptr = h.ptr + size]
<1>1. PICK r \in rs :
        /\ r.hi = h.end /\ r.lo <= h.ptr /\ h.ptr <= h.end
        /\ Mapped(rs \ {r}) + (h.ptr - r.lo) <= 2 * used + ins * HeapInitialSize
        /\ Mapped(rs \ {r}) + (r.hi - r.lo) <= 2 * used + (ins + 1) * HeapInitialSize
  BY DEF Paid
<1>2. /\ hh.ptr = h.ptr + size /\ hh.end = h.end /\ h.ptr \in Nat /\ h.end \in Nat
      /\ r.lo \in Nat /\ r.hi \in Nat
  OBVIOUS
<1> HIDE DEF hh
<1>3. Mapped(rs \ {r}) \in Nat
  <2>1. IsFiniteSet(rs \ {r}) /\ \A x \in rs \ {r} : x.lo <= x.hi
    BY FS_RemoveElement DEF Spread
  <2> QED BY <2>1, MappedSums
<1>4. HeapInitialSize \in Nat
  BY HeapAssumption
<1> DEFINE m == Mapped(rs \ {r})
<1> HIDE DEF m
<1>5. /\ m \in Nat /\ m + (h.ptr - r.lo) <= 2 * used + ins * HeapInitialSize
      /\ m + (r.hi - r.lo) <= 2 * used + (ins + 1) * HeapInitialSize
  BY <1>1, <1>3 DEF m
<1>6. /\ m + (hh.ptr - r.lo) <= 2 * used2 + ins * HeapInitialSize
      /\ m + (r.hi - r.lo) <= 2 * used2 + (ins + 1) * HeapInitialSize
  BY <1>2, <1>4, <1>5
<1>7. r.hi = hh.end /\ r.lo <= hh.ptr /\ hh.ptr <= hh.end
  BY <1>1, <1>2
<1>8. Paid(hh, rs, used2, ins)
  BY <1>6, <1>7 DEF Paid, m
<1> QED BY <1>8 DEF hh

\* A region mapped because size bytes did not fit into the current one: the tail
\* left behind is shorter than that, and a region of twice the size asked for
\* is half used at once.
LEMMA PaidExtension ==
  ASSUME NEW h, NEW rs \in SUBSET [lo : Nat, hi : Nat], Spread(rs),
         h \in [base : Nat \ {Null}, ptr : Nat, end : Nat],
         NEW used \in Nat, NEW used2 \in Nat, NEW ins \in {0, 1}, NEW size, NEW asked,
         SizeFits(size, asked), used2 >= used + size, h.ptr + size > h.end,
         Paid(h, rs, used, ins), NEW lo \in VmChoices(rs, Extent(size)),
         NEW hh, hh.ptr = lo + size, hh.end = lo + Extent(size)
  PROVE  Paid(hh, rs \cup {Region(lo, Extent(size))}, used2, ins)
<1> DEFINE new == Region(lo, Extent(size))
<1>1. PICK r \in rs :
        /\ r.hi = h.end /\ r.lo <= h.ptr /\ h.ptr <= h.end
        /\ Mapped(rs \ {r}) + (h.ptr - r.lo) <= 2 * used + ins * HeapInitialSize
        /\ Mapped(rs \ {r}) + (r.hi - r.lo) <= 2 * used + (ins + 1) * HeapInitialSize
  BY DEF Paid
<1>2. /\ size \in Nat /\ Extent(size) \in Nat \ {0} /\ size <= Extent(size)
      /\ Extent(size) = IF size < HeapInitialSize THEN HeapInitialSize ELSE 2 * size
  <2>1. Extent(size) \in Nat \ {0} /\ size <= Extent(size)
    BY ExtentFacts
  <2>2. size \in Nat /\ 2 * size \in Nat /\ 2 * size < WordMod
    BY HeapAssumption DEF SizeFits
  <2>3. Extent(size) = IF size < HeapInitialSize THEN HeapInitialSize ELSE 2 * size
    BY <2>2, HeapAssumption DEF Extent, Wrap
  <2> QED BY <2>1, <2>2, <2>3
<1>3. /\ (rs \cup {new}) \ {new} = rs /\ new.lo = lo /\ new.hi = lo + Extent(size) /\ lo \in Nat
  <2>1. lo \in Nat /\ \A x \in rs : lo + Extent(size) <= x.lo \/ x.hi <= lo
    BY <1>2, HeapAssumption DEF VmChoices, Pages
  <2>2. new.lo = lo /\ new.hi = lo + Extent(size)
    BY DEF Region
  <2> HIDE DEF new
  <2>3. new \notin rs
    BY <1>2, <2>1, <2>2 DEF Spread
  <2> QED BY <2>1, <2>2, <2>3
<1>4. hh.ptr = lo + size /\ hh.end = lo + Extent(size)
  OBVIOUS
<1>5. /\ Mapped(rs) = Mapped(rs \ {r}) + (r.hi - r.lo) /\ Mapped(rs) \in Nat
      /\ r.lo \in Nat /\ r.hi \in Nat /\ h.ptr \in Nat /\ Mapped(rs \ {r}) \in Nat
  <2>1. \A x \in rs : x.lo <= x.hi
    BY DEF Spread
  <2>2. IsFiniteSet(rs) /\ IsFiniteSet(rs \ {r}) /\ \A x \in rs \ {r} : x.lo <= x.hi
    BY <2>1, FS_RemoveElement DEF Spread
  <2>3. rs \ {r} \in SUBSET [lo : Nat, hi : Nat]
    OBVIOUS
  <2> QED BY <2>1, <2>2, <2>3, MappedSums
<1>6. HeapInitialSize \in Nat
  BY HeapAssumption
<1> DEFINE m == Mapped(rs)
<1> HIDE DEF m, new
<1>7. /\ m <= 2 * used + (ins + 1) * HeapInitialSize
      /\ m + 1 <= 2 * used + ins * HeapInitialSize + size
      /\ m \in Nat
  <2> DEFINE w == Mapped(rs \ {r})
  <2>1. w = m - (r.hi - r.lo) /\ w \in Int
    BY <1>5 DEF m
  <2> HIDE DEF w
  <2>2. /\ w + (h.ptr - r.lo) <= 2 * used + ins * HeapInitialSize
        /\ w + (r.hi - r.lo) <= 2 * used + (ins + 1) * HeapInitialSize
    BY <1>1 DEF w
  <2> QED BY <1>1, <1>2, <1>5, <1>6, <2>1, <2>2 DEF m
<1>8. /\ m + size <= 2 * used2 + ins * HeapInitialSize
      /\ m + Extent(size) <= 2 * used2 + (ins + 1) * HeapInitialSize
  BY <1>2, <1>6, <1>7
<1>9. /\ Mapped((rs \cup {new}) \ {new}) + (hh.ptr - new.lo) <= 2 * used2 + ins * HeapInitialSize
      /\ Mapped((rs \cup {new}) \ {new}) + (new.hi - new.lo)
           <= 2 * used2 + (ins + 1) * HeapInitialSize
  <2>1. hh.ptr - new.lo = size /\ new.hi - new.lo = Extent(size)
    BY <1>2, <1>3, <1>4
  <2> QED BY <1>3, <1>8, <2>1 DEF m
<1>10. new.hi = hh.end /\ new.lo <= hh.ptr /\ hh.ptr <= hh.end
  BY <1>2, <1>3, <1>4
<1>11. Paid(hh, rs \cup {new}, used2, ins)
  BY <1>9, <1>10 DEF Paid
<1> QED BY <1>11 DEF new

LEMMA UsedNat ==
  ASSUME TypeOK, IsFiniteSet(blocks)
  PROVE  Used \in Nat
<1>1. \A b \in blocks : b.len \in Nat
  BY DEF TypeOK
<1> QED BY <1>1, LensSums DEF Used, Lens

\* julius_malloc from the test for room on.
LEMMA CarveWaste ==
  ASSUME TypeOK, SoundBlocks, IsFiniteSet(blocks), NEW h, NEW rs, SoundHeap(h, rs), Holds(rs),
         Spread(rs), Paid(h, rs, Used, inits), NEW size, NEW asked, SizeFits(size, asked),
         NEW zeroed, NEW kind,
         Carve(h, rs, size, asked, zeroed, kind), inits' = inits
  PROVE  WasteInv'
<1>1. /\ rs \in SUBSET [lo : Nat, hi : Nat] /\ size \in Nat /\ asked \in Nat /\ asked <= size
      /\ inits \in {0, 1} /\ h \in [base : Nat \ {Null}, ptr : Nat, end : Nat]
  BY DEF Holds, SizeFits, TypeOK, SoundHeap
<1>2. /\ h.ptr \in Nat \ {0} /\ h.end \in Nat /\ h.end <= AddrTop
      /\ h.ptr <= h.end /\ h.base \in Nat \ {0}
  <2>1. PICK r0 \in rs : r0.lo <= h.ptr /\ h.ptr <= h.end /\ h.end = r0.hi
    BY DEF SoundHeap
  <2> QED BY <1>1, <2>1 DEF Holds, Null
<1>3. Overruns(h, size) = {h.ptr + size > h.end}
  <2>1. h.ptr + size < WordMod
    BY <1>1, <1>2, HeapAssumption DEF SizeFits
  <2> QED BY <2>1, Zenon DEF Overruns
<1>4. Used \in Nat
  BY UsedNat
<1>5. CASE ~(h.ptr + size > h.end) /\ Bump(h, rs, size, asked, zeroed, kind)
  <2>1. h.ptr + size <= h.end
    BY <1>1, <1>2, <1>5
  <2>2. /\ Used' \in Nat /\ Used' >= Used + size /\ IsFiniteSet(blocks')
        /\ regions' = rs /\ heap' = [h EXCEPT !.ptr = h.ptr + size]
    BY <1>1, <1>5, <2>1, BumpUses
  <2>3. PICK used2 \in Nat : used2 = Used'
    BY <2>2
  <2>4. Paid([h EXCEPT !.ptr = h.ptr + size], rs, used2, inits)
    BY <1>1, <1>4, <2>1, <2>2, <2>3, PaidBump
  <2> QED BY <2>2, <2>3, <2>4 DEF WasteInv, Spread, Paid
<1>6. ASSUME h.ptr + size > h.end, NEW lo \in VmChoices(rs, Extent(size)),
             Bump(ExtendedHeap(h, lo, size), rs \cup {Region(lo, Extent(size))},
                  size, asked, zeroed, kind)
      PROVE  WasteInv'
  <2> DEFINE hh == ExtendedHeap(h, lo, size)
             rr == rs \cup {Region(lo, Extent(size))}
  <2>1. Extent(size) \in Nat \ {0} /\ size <= Extent(size)
    BY ExtentFacts
  <2>2. Holds(rr) /\ lo \in Nat \ {0} /\ rr \in SUBSET [lo : Nat, hi : Nat]
    BY <2>1, NewRegion DEF Holds
  <2>3. Spread(rr)
    BY <1>1, <2>1, SpreadAdd
  <2>4. /\ hh \in [base : Nat \ {Null}, ptr : Nat, end : Nat]
        /\ hh.ptr = lo /\ hh.end = lo + Extent(size)
    <3>1. lo + Extent(size) \in Nat
      BY <2>1, <2>2
    <3> QED BY <1>1, <2>2, <3>1 DEF ExtendedHeap
  <2>5. SoundHeap(hh, rr)
    BY <2>1, <2>4, NewHeapSound
  <2>6. hh.ptr + size <= hh.end
    BY <1>1, <2>1, <2>2, <2>4
  <2>7. Bump(hh, rr, size, asked, zeroed, kind)
    BY <1>6
  <2>8. PICK used \in Nat : used = Used
    BY <1>4
  <2>12. ASSUME NEW u \in Nat, u >= used + size,
                NEW new, new.ptr = lo + size, new.end = lo + Extent(size)
         PROVE  Paid(new, rr, u, inits)
    <3>1. Paid(h, rs, used, inits)
      BY <2>8
    <3>2. inits \in {0, 1} /\ used \in Nat /\ h.ptr + size > h.end
      BY <1>1, <1>6
    <3> HIDE DEF hh
    <3> QED BY <1>1, <2>12, <3>1, <3>2, PaidExtension
  <2> HIDE DEF hh, rr
  <2>9. /\ Used' \in Nat /\ Used' >= Used + size /\ IsFiniteSet(blocks')
        /\ regions' = rr /\ heap' = [hh EXCEPT !.ptr = hh.ptr + size]
    BY <1>1, <2>2, <2>5, <2>6, <2>7, BumpUses
  <2>10. PICK used2 \in Nat : used2 = Used'
    BY <2>9
  <2>11. Paid(heap', rr, used2, inits)
    <3>1. heap'.ptr = lo + size /\ heap'.end = lo + Extent(size)
      BY <2>4, <2>9
    <3>2. PICK new : new = heap'
      OBVIOUS
    <3> QED BY <2>8, <2>9, <2>10, <2>12, <3>1, <3>2
  <2> QED BY <2>3, <2>9, <2>10, <2>11 DEF WasteInv, Spread, Paid
<1>7. CASE heap' = h /\ regions' = rs /\ blocks' = blocks
  <2>1. Used' = Used
    BY <1>7 DEF Used
  <2> QED BY <1>7, <2>1 DEF WasteInv, Spread, Paid
<1> QED
  BY <1>3, <1>5, <1>6, <1>7 DEF Carve

\* A region that replaces none has left nothing behind.
LEMMA FreshPaid ==
  ASSUME NEW lo \in VmChoices({}, HeapInitialSize), NEW used \in Nat, NEW ins \in {0, 1}
  PROVE  LET rs == {} \cup {Region(lo, HeapInitialSize)}
         IN Spread(rs) /\ Paid(FreshHeap(lo), rs, used, ins)
<1> DEFINE new == Region(lo, HeapInitialSize)
           h == FreshHeap(lo)
<1>1. HeapInitialSize \in Nat \ {0}
  BY HeapAssumption
<1>2. lo \in Nat /\ new.lo = lo /\ new.hi = lo + HeapInitialSize
      /\ h.ptr = lo /\ h.end = lo + HeapInitialSize
  BY <1>1, HeapAssumption DEF VmChoices, Pages, Region, FreshHeap
<1> HIDE DEF new, h
<1>3. Spread({new})
  <2>1. IsFiniteSet({} \cup {new}) /\ {} \cup {new} = {new}
    BY FS_EmptySet, FS_AddElement
  <2> QED BY <1>1, <1>2, <2>1 DEF Spread
<1>4. Mapped({new} \ {new}) = 0
  <2>1. {new} \ {new} = {}
    OBVIOUS
  <2> QED BY <2>1, MappedEmpty
<1>5. /\ 0 + (h.ptr - new.lo) <= 2 * used + ins * HeapInitialSize
      /\ 0 + (new.hi - new.lo) <= 2 * used + (ins + 1) * HeapInitialSize
  BY <1>1, <1>2
<1>6. Paid(h, {new}, used, ins)
  BY <1>1, <1>2, <1>4, <1>5 DEF Paid
<1>7. {} \cup {new} = {new}
  OBVIOUS
<1> QED BY <1>3, <1>6, <1>7 DEF new, h

\* julius_mem_init, a second time: what the region it throws away has left over
\* is less than one more initial region.
LEMMA PaidInit ==
  ASSUME NEW h, NEW rs \in SUBSET [lo : Nat, hi : Nat], Spread(rs),
         NEW used \in Nat, Paid(h, rs, used, 0), NEW lo \in VmChoices(rs, HeapInitialSize)
  PROVE  Paid(FreshHeap(lo), rs \cup {Region(lo, HeapInitialSize)}, used, 1)
<1> DEFINE new == Region(lo, HeapInitialSize)
           hh == FreshHeap(lo)
<1>1. HeapInitialSize \in Nat \ {0}
  BY HeapAssumption
<1>2. PICK r \in rs :
        Mapped(rs \ {r}) + (r.hi - r.lo) <= 2 * used + (0 + 1) * HeapInitialSize
  BY DEF Paid
<1>3. Mapped(rs) = Mapped(rs \ {r}) + (r.hi - r.lo) /\ Mapped(rs) \in Nat
  <2>1. \A x \in rs : x.lo <= x.hi
    BY DEF Spread
  <2>2. IsFiniteSet(rs)
    BY DEF Spread
  <2> QED BY <2>1, <2>2, MappedSums
<1>4. /\ lo \in Nat /\ new.lo = lo /\ new.hi = lo + HeapInitialSize
      /\ hh.ptr = lo /\ hh.end = lo + HeapInitialSize
  BY <1>1, HeapAssumption DEF VmChoices, Pages, Region, FreshHeap
<1>5. new \notin rs
  <2>1. \A x \in rs : lo + HeapInitialSize <= x.lo \/ x.hi <= lo
    BY <1>1 DEF VmChoices
  <2> HIDE DEF new
  <2> QED BY <1>1, <1>4, <2>1 DEF Spread
<1> HIDE DEF new, hh
<1>6. (rs \cup {new}) \ {new} = rs
  BY <1>5
<1>7. /\ Mapped(rs) + (hh.ptr - new.lo) <= 2 * used + 1 * HeapInitialSize
      /\ Mapped(rs) + (new.hi - new.lo) <= 2 * used + (1 + 1) * HeapInitialSize
  BY <1>1, <1>2, <1>3, <1>4
<1>8. new.hi = hh.end /\ new.lo <= hh.ptr /\ hh.ptr <= hh.end
  BY <1>1, <1>4
<1>9. Paid(hh, rs \cup {new}, used, 1)
  BY <1>6, <1>7, <1>8 DEF Paid
<1> QED BY <1>9 DEF new, hh

\* julius_malloc, with or without a heap to cut from.
LEMMA AllocateWaste ==
  ASSUME HeapInv, WasteInv, NEW n \in Nat, 2 * (n + HeapAlign) + AddrTop < WordMod,
         NEW zeroed, NEW kind, Allocate(n, n, zeroed, kind), inits' = inits
  PROVE  WasteInv'
<1>1. TypeOK /\ SoundBlocks /\ Holds(regions) /\ SizeFits(RoundUp(n), n) /\ IsFiniteSet(blocks)
  BY InvHolds, RoundedFits DEF WasteInv
<1>2. CASE /\ heap.base # Null
           /\ Carve(heap, regions, RoundUp(n), n, zeroed, kind)
  <2>1. SoundHeap(heap, regions) /\ Spread(regions) /\ Paid(heap, regions, Used, inits)
    BY <1>2 DEF HeapInv, WasteInv
  <2> QED
    BY <1>1, <1>2, <2>1, CarveWaste
<1>3. ASSUME heap.base = Null, NEW lo \in VmChoices(regions, HeapInitialSize),
             Carve(FreshHeap(lo), regions \cup {Region(lo, HeapInitialSize)},
                   RoundUp(n), n, zeroed, kind)
      PROVE  WasteInv'
  <2> DEFINE hh == FreshHeap(lo)
             rr == regions \cup {Region(lo, HeapInitialSize)}
  <2>1. SoundHeap(hh, rr) /\ Holds(rr)
    BY FreshSound
  <2>2. Spread(rr) /\ Paid(hh, rr, Used, inits)
    <3>1. regions = {} /\ inits \in {0, 1}
      BY <1>3 DEF HeapInv, TypeOK
    <3>2. PICK used \in Nat : used = Used
      BY UsedNat DEF HeapInv, WasteInv
    <3>3. Spread(rr) /\ Paid(hh, rr, used, inits)
      BY <1>3, <3>1, FreshPaid
    <3> QED BY <3>2, <3>3
  <2>3. Carve(hh, rr, RoundUp(n), n, zeroed, kind)
    BY <1>3
  <2> HIDE DEF hh, rr
  <2> QED
    BY <1>1, <2>1, <2>2, <2>3, CarveWaste
<1>4. CASE Panic
  BY <1>4 DEF Panic, WasteInv, Spread, Paid, Used
<1> QED
  BY <1>2, <1>3, <1>4 DEF Allocate

\* julius_mem_init, the first time or a second one.
LEMMA MemInitWaste ==
  ASSUME HeapInv, WasteInv, InitCall
  PROVE  WasteInv'
<1>1. inits = 0 /\ inits' = 1 /\ MemInit
  BY DEF InitCall
<1>2. PICK used \in Nat : used = Used
  BY UsedNat DEF HeapInv, WasteInv
<1>3. regions \in SUBSET [lo : Nat, hi : Nat]
  BY DEF HeapInv, TypeOK
<1>4. ASSUME NEW lo \in VmChoices(regions, HeapInitialSize),
             heap' = FreshHeap(lo),
             regions' = regions \cup {Region(lo, HeapInitialSize)}, blocks' = blocks
      PROVE  WasteInv'
  <2> DEFINE hh == FreshHeap(lo)
             rr == regions \cup {Region(lo, HeapInitialSize)}
  <2>1. Spread(rr)
    BY <1>3, HeapAssumption, SpreadAdd DEF WasteInv
  <2>3. Paid(hh, rr, used, 1)
    <3>1. CASE heap.base = Null
      <4>1. regions = {}
        BY <3>1 DEF HeapInv
      <4> QED BY <1>4, <4>1, FreshPaid
    <3>2. CASE heap.base # Null
      <4>1. Paid(heap, regions, used, 0) /\ Spread(regions)
        BY <1>1, <1>2, <3>2 DEF WasteInv
      <4> QED BY <1>3, <1>4, <4>1, PaidInit
    <3> QED BY <3>1, <3>2
  <2>4. Used' = used
    BY <1>2, <1>4 DEF Used
  <2>5. heap' = hh /\ regions' = rr
    BY <1>4
  <2> HIDE DEF hh, rr
  <2> QED BY <1>1, <1>4, <2>1, <2>3, <2>4, <2>5 DEF WasteInv, Spread, Paid
<1>5. CASE Panic
  <2>1. heap' = heap /\ regions' = regions /\ blocks' = blocks /\ Used' = used
    BY <1>2, <1>5 DEF Panic, Used
  <2>2. Paid(heap, regions, used, 0) => Paid(heap, regions, used, 1)
    <3> SUFFICES ASSUME Paid(heap, regions, used, 0) PROVE Paid(heap, regions, used, 1)
      OBVIOUS
    <3>1. PICK r \in regions :
            /\ r.hi = heap.end /\ r.lo <= heap.ptr /\ heap.ptr <= heap.end
            /\ Mapped(regions \ {r}) + (heap.ptr - r.lo) <= 2 * used + 0 * HeapInitialSize
            /\ Mapped(regions \ {r}) + (r.hi - r.lo) <= 2 * used + (0 + 1) * HeapInitialSize
      BY DEF Paid
    <3>2. Mapped(regions \ {r}) \in Nat
      <4>1. IsFiniteSet(regions \ {r}) /\ \A x \in regions \ {r} : x.lo <= x.hi
        BY <1>3, FS_RemoveElement DEF WasteInv, Spread
      <4>2. regions \ {r} \in SUBSET [lo : Nat, hi : Nat]
        BY <1>3
      <4> QED BY <4>1, <4>2, MappedSums
    <3>3. HeapInitialSize \in Nat /\ heap.ptr \in Nat /\ r.lo \in Nat /\ r.hi \in Nat
      BY <1>3, HeapAssumption DEF HeapInv, TypeOK
    <3>4. /\ Mapped(regions \ {r}) + (heap.ptr - r.lo) <= 2 * used + 1 * HeapInitialSize
          /\ Mapped(regions \ {r}) + (r.hi - r.lo) <= 2 * used + (1 + 1) * HeapInitialSize
      BY <3>1, <3>2, <3>3
    <3> QED BY <3>1, <3>4 DEF Paid
  <2> QED BY <1>1, <1>2, <2>1, <2>2 DEF WasteInv, Spread, Paid
<1> QED
  BY <1>1, <1>4, <1>5 DEF MemInit

\* A store leaves the block as long as it was, and makes it no other block.
LEMMA WriteWaste ==
  ASSUME HeapInv, WasteInv, NEW b \in blocks, ~b.written, Write(b), inits' = inits
  PROVE  WasteInv'
<1> DEFINE w == [b EXCEPT !.written = TRUE]
<1>1. /\ w.addr = b.addr /\ w.len = b.len /\ w.written = TRUE
      /\ b.addr \in Nat /\ b.len \in Nat
      /\ \A c \in blocks : c.addr \in Nat /\ c.len \in Nat
  BY DEF HeapInv, TypeOK
<1>2. blocks' = (blocks \ {b}) \cup {w} /\ heap' = heap /\ regions' = regions
  BY DEF Write
<1> HIDE DEF w
<1>3. /\ IsFiniteSet(blocks) /\ IsFiniteSet(blocks \ {b})
      /\ \A c \in blocks \ {b} : c.len \in Nat
  BY <1>1, FS_RemoveElement DEF WasteInv
<1>4. Lens(blocks) = Lens(blocks \ {b}) + b.len /\ Lens(blocks \ {b}) \in Nat
  BY <1>1, <1>3, LensSums
<1>5. /\ IsFiniteSet((blocks \ {b}) \cup {w})
      /\ w \notin blocks \ {b} => Lens((blocks \ {b}) \cup {w}) = Lens(blocks \ {b}) + w.len
  BY <1>1, <1>3, LensAdd
<1>6. w \in blocks \ {b} => w.len = 0 /\ (blocks \ {b}) \cup {w} = blocks \ {b}
  <2>1. w \in blocks \ {b} => w.addr + w.len <= b.addr \/ b.addr + b.len <= w.addr
    BY DEF HeapInv, SoundBlocks, BlocksDisjoint
  <2> QED BY <1>1, <2>1
<1>7. Lens((blocks \ {b}) \cup {w}) = Lens(blocks)
  <2>1. CASE w \in blocks \ {b}
    <3>1. Lens((blocks \ {b}) \cup {w}) = Lens(blocks \ {b}) /\ b.len = 0
      BY <1>1, <1>6, <2>1
    <3> QED BY <1>4, <3>1
  <2>2. CASE w \notin blocks \ {b}
    BY <1>1, <1>4, <1>5, <2>2
  <2> QED BY <2>1, <2>2
<1>8. Used' = Used
  BY <1>2, <1>7 DEF Used, Lens
<1> QED BY <1>2, <1>5, <1>8 DEF WasteInv, Spread, Paid

LEMMA StepWaste ==
  ASSUME NoWrap, HeapInv, WasteInv, [Next]_vars
  PROVE  WasteInv'
<1>1. CASE InitCall
  BY <1>1, MemInitWaste
<1>2. ASSUME NEW n \in Requests, Malloc(n), inits' = inits
      PROVE  WasteInv'
  <2>1. n \in Nat /\ 2 * (n + HeapAlign) + AddrTop < WordMod
    BY HeapAssumption DEF NoWrap
  <2> QED
    BY <1>2, <2>1, AllocateWaste DEF Malloc
<1>3. ASSUME NEW count \in Counts, NEW n \in Requests, Calloc(count, n), inits' = inits
      PROVE  WasteInv'
  <2>1. count * n \in Nat /\ 2 * (count * n + HeapAlign) + AddrTop < WordMod
    BY HeapAssumption DEF NoWrap
  <2>2. Wrap(count * n) = count * n
    BY <2>1, HeapAssumption DEF Wrap
  <2>3. Allocate(count * n, count * n, count * n, "calloc")
    BY <1>3, <2>2 DEF Calloc
  <2> QED
    BY <1>3, <2>1, <2>3, AllocateWaste
<1>4. CASE Use
  BY <1>4, WriteWaste DEF Use
<1>5. CASE UNCHANGED vars
  <2>1. Used' = Used
    BY <1>5 DEF vars, Used
  <2> QED
    BY <1>5, <2>1 DEF vars, WasteInv, Spread, Paid
<1> QED
  BY <1>1, <1>2, <1>3, <1>4, <1>5 DEF Next, Call

\* The regions left behind are all but one, and that one is heap's.
LEMMA WasteFits ==
  ASSUME HeapInv, WasteInv
  PROVE  WasteBounded
<1> DEFINE left == {r \in regions : r.hi # heap.end}
<1>1. PICK used \in Nat : used = Used
  BY UsedNat DEF HeapInv, WasteInv
<1>2. inits \in {0, 1} /\ HeapInitialSize \in Nat
  BY HeapAssumption DEF HeapInv, TypeOK
<1>3. CASE heap.base = Null
  <2>1. left = {}
    BY <1>3 DEF HeapInv
  <2>2. Mapped(left) = 0
    BY <2>1, MappedEmpty
  <2> HIDE DEF left
  <2>3. Mapped(left) <= 2 * used + inits * HeapInitialSize
    BY <1>2, <2>2
  <2> QED BY <1>1, <2>3 DEF WasteBounded, left
<1>4. CASE heap.base # Null
  <2>1. PICK r \in regions :
          /\ r.hi = heap.end /\ r.lo <= heap.ptr
          /\ Mapped(regions \ {r}) + (heap.ptr - r.lo) <= 2 * used + inits * HeapInitialSize
    BY <1>1, <1>4 DEF WasteInv, Paid
  <2>2. \A x \in regions : x.lo \in Nat /\ x.hi \in Nat /\ x.lo < x.hi
    BY DEF HeapInv, TypeOK, WasteInv, Spread
  <2>3. \A x \in regions : x.hi = heap.end => x = r
    BY <2>1, <2>2 DEF WasteInv, Spread
  <2>4. left = regions \ {r}
    BY <2>1, <2>3
  <2>5. Mapped(left) \in Nat
    <3>1. IsFiniteSet(regions \ {r}) /\ \A x \in regions \ {r} : x.lo <= x.hi
      BY <2>2, FS_RemoveElement DEF WasteInv, Spread
    <3>2. regions \ {r} \in SUBSET [lo : Nat, hi : Nat]
      BY DEF HeapInv, TypeOK
    <3> QED BY <2>4, <3>1, <3>2, MappedSums
  <2> HIDE DEF left
  <2>6. heap.ptr \in Nat /\ r.lo \in Nat
    BY DEF HeapInv, TypeOK
  <2>7. Mapped(left) <= 2 * used + inits * HeapInitialSize
    BY <1>2, <2>1, <2>4, <2>5, <2>6
  <2> QED BY <1>1, <2>7 DEF WasteBounded, left
<1> QED BY <1>3, <1>4

\* The memory never freeing costs: the regions julius_malloc has left behind
\* hold, in all, at most twice the bytes it has handed out and the region a
\* second julius_mem_init throws away.
THEOREM WasteIsBounded ==
  ASSUME NoWrap
  PROVE  Spec => []WasteBounded
<1>1. ASSUME Init PROVE WasteInv
  <2>1. regions = {} /\ blocks = {} /\ heap.base = Null
    BY <1>1 DEF Init
  <2>2. IsFiniteSet({})
    BY FS_EmptySet
  <2> QED BY <2>1, <2>2 DEF WasteInv, Spread
<1>2. HeapInv /\ WasteInv /\ [Next]_vars => WasteInv'
  BY StepWaste
<1>3. HeapInv /\ WasteInv => WasteBounded
  BY WasteFits
<1> QED
  BY <1>1, <1>2, <1>3, HeapInvariant, PTL DEF Spec
=============================================================================
