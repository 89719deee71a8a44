--------------------------- MODULE PhysAddrProofs ---------------------------
(***************************************************************************)
(* What the arithmetic of PhysAddr, PhysFrame and FrameRange computes, for *)
(* every page size and every width of an address.                          *)
(***************************************************************************)
EXTENDS PhysAddr, TLAPS

\* Division by the page size, as the frames are counted.
LEMMA PageDivision ==
    ASSUME NEW a \in Nat
    PROVE  /\ a \div PageSize \in Nat
           /\ (a \div PageSize) * PageSize <= a
           /\ a < (a \div PageSize) * PageSize + PageSize
<1>1. PageSize \in Nat /\ PageSize > 0
  BY PhysAssumption
<1>2. QED
  BY <1>1, SMTT(30)

\* Multiples of the page size are ordered as their factors are.
LEMMA PageOrder ==
    ASSUME NEW i \in Nat, NEW j \in Nat
    PROVE  /\ i * PageSize \in Nat
           /\ i < j <=> i * PageSize < j * PageSize
           /\ i < j => i * PageSize + PageSize <= j * PageSize
<1>1. PageSize \in Nat /\ PageSize > 0
  BY PhysAssumption
<1>2. QED
  BY <1>1, SMTT(30)

\* align_up rounds to the least multiple of the page size that is not below its
\* argument (PhysAddr::align_up).
THEOREM AlignUpIsLeast ==
    ASSUME NEW a \in Nat
    PROVE  /\ \E k \in Nat : AlignUp(a, PageSize) = k * PageSize
           /\ a <= AlignUp(a, PageSize)
           /\ \A k \in Nat : a <= k * PageSize => AlignUp(a, PageSize) <= k * PageSize
<1> DEFINE q == (a + PageSize - 1) \div PageSize
<1>1. PageSize \in Nat /\ PageSize > 0 /\ a + PageSize - 1 \in Nat
  BY PhysAssumption
<1>2. q \in Nat /\ q * PageSize <= a + PageSize - 1 /\ a + PageSize - 1 < q * PageSize + PageSize
  BY <1>1, PageDivision
<1>3. AlignUp(a, PageSize) = q * PageSize
  BY DEF AlignUp, CeilDiv
<1> HIDE DEF q
<1>4. q * PageSize \in Nat
  BY <1>2, PageOrder
<1>5. ASSUME NEW k \in Nat, a <= k * PageSize PROVE q * PageSize <= k * PageSize
  <2>1. CASE k < q
    <3>1. k * PageSize + PageSize <= q * PageSize /\ k * PageSize \in Nat
      BY <1>2, <2>1, PageOrder
    <3>2. QED
      BY <1>1, <1>2, <1>4, <1>5, <3>1
  <2>2. CASE ~(k < q)
    <3>1. k = q \/ q < k
      BY <1>2, <2>2
    <3>2. k * PageSize \in Nat /\ (q < k => q * PageSize < k * PageSize)
      BY <1>2, PageOrder
    <3>3. QED
      BY <1>4, <3>1, <3>2
  <2>3. QED
    BY <2>1, <2>2
<1>6. QED
  BY <1>1, <1>2, <1>3, <1>4, <1>5

\* from_index accepts exactly the indices of frames (PhysFrame::from_index).
LEMMA FromIndexIsFrames ==
    ASSUME NEW i \in Nat
    PROVE  FromIndex(i) = IF i \in Frames THEN {i} ELSE {}
<1> DEFINE n == PhysLimit \div PageSize
<1>1. PageSize \in Nat /\ PageSize > 0 /\ PhysLimit \in Nat /\ PhysLimit % PageSize = 0
  BY PhysAssumption
<1>2. n \in Nat /\ n * PageSize = PhysLimit
  BY <1>1, SMTT(30)
<1>3. i \in Frames <=> i < n
  BY <1>2 DEF Frames
<1> HIDE DEF n
<1>4. i < n <=> i * PageSize < n * PageSize
  BY <1>2, PageOrder
<1>5. i \in Frames <=> i * PageSize < PhysLimit
  BY <1>2, <1>3, <1>4
<1>6. QED
  BY <1>5 DEF FromIndex, IsPhys

\* A range made from an address and a length has exactly the frames that hold a
\* byte of it (FrameRange::from_addr_len and contains).
THEOREM RangeHoldsTheBytes ==
    ASSUME NEW base \in Nat, NEW len \in Nat, NEW r \in FromAddrLen(base, len), NEW f \in Nat
    PROVE  RangeContains(r, f) <=>
               \E a \in Nat : base <= a /\ a < base + len /\ Containing(a) = f
<1> DEFINE last == base + (len - 1)
           lo == base \div PageSize
           hi == last \div PageSize
<1>1. PageSize \in Nat /\ PageSize > 0
  BY PhysAssumption
<1>2. len # 0 /\ r = [start |-> lo, end |-> hi]
  BY DEF FromAddrLen, PhysCheckedAdd, PhysNew, Containing
<1>3. last \in Nat /\ base <= last /\ last < base + len
  BY <1>2
<1>4. /\ lo \in Nat /\ lo * PageSize <= base /\ base < lo * PageSize + PageSize
      /\ hi \in Nat /\ hi * PageSize <= last /\ last < hi * PageSize + PageSize
  BY <1>3, PageDivision
<1>5. RangeContains(r, f) <=> lo <= f /\ f <= hi
  BY <1>2, <1>4 DEF RangeContains
<1>6. ASSUME NEW a \in Nat, base <= a, a < base + len, Containing(a) = f
      PROVE  lo <= f /\ f <= hi
  <2>1. a \div PageSize = f /\ f * PageSize <= a /\ a < f * PageSize + PageSize
    BY <1>6, PageDivision DEF Containing
  <2>2. a <= last
    BY <1>2, <1>6
  <2> HIDE DEF lo, hi, last
  <2>3. ~(f < lo)
    <3>1. f < lo => f * PageSize + PageSize <= lo * PageSize
      BY <1>4, PageOrder
    <3>2. f * PageSize \in Nat /\ lo * PageSize \in Nat
      BY <1>4, PageOrder
    <3>3. QED
      BY <1>1, <1>4, <1>6, <2>1, <3>1, <3>2
  <2>4. ~(hi < f)
    <3>1. hi < f => hi * PageSize + PageSize <= f * PageSize
      BY <1>4, PageOrder
    <3>2. f * PageSize \in Nat /\ hi * PageSize \in Nat
      BY <1>4, PageOrder
    <3>3. QED
      BY <1>1, <1>3, <1>4, <2>1, <2>2, <3>1, <3>2
  <2>5. QED
    BY <1>4, <2>3, <2>4
<1>7. ASSUME lo <= f, f <= hi
      PROVE  \E a \in Nat : base <= a /\ a < base + len /\ Containing(a) = f
  <2>1. CASE f = lo
    BY <1>2, <2>1 DEF Containing
  <2>2. CASE lo < f
    <3>1. f * PageSize \in Nat /\ lo * PageSize + PageSize <= f * PageSize
      BY <1>4, <2>2, PageOrder
    <3>2. base <= f * PageSize
      <4> HIDE DEF lo
      <4>1. lo * PageSize \in Nat
        BY <1>4, PageOrder
      <4>2. QED
        BY <1>1, <1>4, <3>1, <4>1
    <3>3. f * PageSize <= last
      <4> HIDE DEF hi, last
      <4>1. f = hi \/ f < hi
        BY <1>4, <1>7
      <4>2. hi * PageSize \in Nat /\ (f < hi => f * PageSize < hi * PageSize)
        BY <1>4, PageOrder
      <4>3. QED
        BY <1>3, <1>4, <3>1, <4>1, <4>2
    <3>4. Containing(f * PageSize) = f
      <4> DEFINE g == (f * PageSize) \div PageSize
      <4>1. g \in Nat /\ g * PageSize <= f * PageSize /\ f * PageSize < g * PageSize + PageSize
        BY <3>1, PageDivision
      <4>2. Containing(f * PageSize) = g
        BY DEF Containing
      <4> HIDE DEF g
      <4>3. ~(f < g)
        <5>1. f < g => f * PageSize < g * PageSize
          BY <4>1, PageOrder
        <5>2. g * PageSize \in Nat
          BY <4>1, PageOrder
        <5>3. QED
          BY <3>1, <4>1, <5>1, <5>2
      <4>4. ~(g < f)
        <5>1. g < f => g * PageSize + PageSize <= f * PageSize
          BY <4>1, PageOrder
        <5>2. g * PageSize \in Nat
          BY <4>1, PageOrder
        <5>3. QED
          BY <1>1, <3>1, <4>1, <5>1, <5>2
      <4>5. QED
        BY <4>1, <4>2, <4>3, <4>4
    <3>5. f * PageSize < base + len
      BY <1>3, <3>1, <3>3
    <3>6. QED
      BY <3>1, <3>2, <3>4, <3>5
  <2>3. QED
    BY <1>4, <1>7, <2>1, <2>2
<1>8. QED
  BY <1>5, <1>6, <1>7

\* next yields the first frame and leaves the others, as long as there is a frame
\* after it in the address space (FrameRange, Iterator::next and len).
THEOREM NextTakesTheFirst ==
    ASSUME NEW r \in FrameRanges, ~RangeIsEmpty(r), r.start + 1 \in Frames
    PROVE  LET n == RangeNext(r)
           IN  /\ n.item = {r.start}
               /\ RangeLen(n.rest) = RangeLen(r) - 1
               /\ \A f \in Nat : RangeContains(n.rest, f) <=> RangeContains(r, f) /\ f # r.start
<1>1. r.start \in Nat /\ r.end \in Nat /\ r = [start |-> r.start, end |-> r.end]
  BY DEF FrameRanges, Frames
<1>2. r.start <= r.end
  BY <1>1 DEF RangeIsEmpty
<1>3. FromIndex(r.start + 1) # {}
  BY <1>1, FromIndexIsFrames
<1>4. RangeNext(r) = [item |-> {r.start}, rest |-> [r EXCEPT !.start = @ + 1]]
  BY <1>2, <1>3 DEF RangeNext
<1>5. [r EXCEPT !.start = @ + 1] = [start |-> r.start + 1, end |-> r.end]
  BY <1>1
<1>6. QED
  BY <1>1, <1>2, <1>4, <1>5 DEF RangeLen, RangeIsEmpty, RangeContains

\* The last frame of the address space is never yielded: next returns None and
\* leaves a range whose len is 1.  The range is documented as inclusive at both
\* ends, and as an ExactSizeIterator it promises that one more frame comes.
THEOREM LastFrameIsWithheld ==
    ASSUME NEW r \in FrameRanges, r.start = r.end, r.start + 1 \notin Frames
    PROVE  RangeNext(r) = [item |-> {}, rest |-> r] /\ RangeLen(r) = 1
<1>1. r.start \in Nat /\ r.end \in Nat
  BY DEF FrameRanges, Frames
<1>2. FromIndex(r.start + 1) = {}
  BY <1>1, FromIndexIsFrames
<1>3. RangeLen(r) = 1
  BY <1>1 DEF RangeLen, RangeIsEmpty
<1>4. QED
  BY <1>2, <1>3 DEF RangeNext

=============================================================================
