------------------------ MODULE FrameAllocatorProofs ------------------------
(***************************************************************************)
(* Proofs about FrameAllocator, for every page size, memory size and       *)
(* whatever the owners of frames write into them.                          *)
(***************************************************************************)
EXTENDS FrameAllocator, SeqLemmas

\* The end mark is no frame, and the frames below an address are frames.
LEMMA FrameArithmetic ==
    /\ FREE_LIST_EMPTY \notin Frames
    /\ \A a \in Nat : a < PhysLimit => \A f \in Nat : f < a \div PageSize => f \in Frames
<1> DEFINE top == PhysLimit \div PageSize
<1>1. PageSize \in Nat /\ PageSize > 0 /\ PhysLimit \in Nat
  BY PhysAssumption
<1>2. top \in Nat /\ top <= PhysLimit
  BY <1>1, SMTT(30)
<1>3. ASSUME NEW a \in Nat, a < PhysLimit PROVE a \div PageSize <= top /\ a \div PageSize \in Nat
  BY <1>1, <1>3, SMTT(30)
<1> HIDE DEF top
<1>4. QED
  BY <1>1, <1>2, <1>3 DEF Frames, FREE_LIST_EMPTY, top
\* The inductive invariant: besides what is to be shown, the frames add_region has
\* still to push are nobody's.
CursorFresh ==
    phase = "adding" =>
        /\ cursor.from < cursor.to
        /\ \A f \in cursor.from..(cursor.to - 1) :
              f \in Frames /\ f \notin held /\ f \notin Range(list)

IInv == TypeOK /\ FreeListIntact /\ BitsAreHeld /\ CursorFresh

\* free_frame of a frame that is on no list keeps list, links, counter and bits in
\* step, whoever held the frame.
LEMMA FreeFrameKeeps ==
    ASSUME TypeOK, FreeListIntact, BitsAreHeld, NEW f \in Frames, f \notin Range(list),
           FreeFrame(f)
    PROVE  /\ FreeListIntact' /\ BitsAreHeld'
           /\ word' \in [Frames -> Frames \union {FREE_LIST_EMPTY} \union Words]
           /\ head' \in Frames \union {FREE_LIST_EMPTY}
           /\ free' \in Nat /\ held' \subseteq Frames /\ list' \in Seq(Frames)
           /\ marked' \subseteq Frames
           /\ Range(list') = Range(list) \union {f}
<1>1. /\ list \in Seq(Frames) /\ list' = Cons(f, list) /\ free' = free + 1
      /\ head' = f /\ word' = [word EXCEPT ![f] = head]
      /\ held' = held \ {f} /\ marked' = marked \ {f}
      /\ word \in [Frames -> Frames \union {FREE_LIST_EMPTY} \union Words]
      /\ head \in Frames \union {FREE_LIST_EMPTY}
  BY DEF FreeFrame, TypeOK
<1>2. /\ IsInjective(list) /\ free = Len(list)
      /\ head = (IF list = <<>> THEN FREE_LIST_EMPTY ELSE list[1])
      /\ \A i \in DOMAIN list :
            word[list[i]] = (IF i = Len(list) THEN FREE_LIST_EMPTY ELSE list[i + 1])
  BY DEF FreeListIntact
<1>3. /\ list' \in Seq(Frames) /\ Len(list') = Len(list) + 1 /\ list' # <<>>
      /\ list'[1] = f /\ \A i \in 1..Len(list) : list'[i + 1] = list[i]
      /\ Range(list') = Range(list) \union {f} /\ IsInjective(list')
  <2> DEFINE c == Cons(f, list)
  <2>1. f \notin Range(list) /\ list \in Seq(Frames)
    BY <1>1
  <2>2. /\ c \in Seq(Frames) /\ Len(c) = Len(list) + 1 /\ c # <<>>
        /\ c[1] = f /\ \A i \in 1..Len(list) : c[i + 1] = list[i]
        /\ Range(c) = Range(list) \union {f}
        /\ IsInjective(list) /\ f \notin Range(list) => IsInjective(c)
    <3>1. /\ c \in Seq(Frames) /\ Len(c) = Len(list) + 1 /\ c # <<>>
          /\ c[1] = f /\ \A i \in 1..Len(list) : c[i + 1] = list[i]
      BY <2>1, PushElements
    <3>2. Range(c) = Range(list) \union {f}
      BY <2>1, PushElements
    <3>3. IsInjective(list) /\ f \notin Range(list) => IsInjective(c)
      BY <2>1, PushElements
    <3>4. QED
      BY <3>1, <3>2, <3>3
  <2>3. list' = c
    BY <1>1
  <2> HIDE DEF c
  <2>4. QED
    BY <1>2, <2>1, <2>2, <2>3, Zenon
<1>4. /\ Len(list) \in Nat /\ DOMAIN list = 1..Len(list) /\ DOMAIN list' = 1..(Len(list) + 1)
      /\ \A i \in DOMAIN list : list[i] \in Frames /\ list[i] # f
      /\ list = <<>> <=> Len(list) = 0
  BY <1>1, <1>3, LenProperties, ElementOfSeq, EmptySeq DEF Range
<1>5. ASSUME NEW i \in DOMAIN list'
      PROVE  word'[list'[i]] = (IF i = Len(list') THEN FREE_LIST_EMPTY ELSE list'[i + 1])
  <2>1. CASE i = 1
    <3>1. word'[list'[1]] = head
      BY <1>1, <1>3
    <3>2. CASE list = <<>>
      BY <1>2, <1>3, <1>4, <2>1, <3>1, <3>2
    <3>3. CASE list # <<>>
      <4>1. 1 \in 1..Len(list) /\ Len(list') # 1 /\ list'[1 + 1] = list[1]
        BY <1>3, <1>4, <3>3
      <4>2. QED
        BY <1>2, <2>1, <3>1, <3>3, <4>1
    <3>4. QED
      BY <3>2, <3>3
  <2>2. CASE i # 1
    <3> DEFINE j == i - 1
    <3>1. j \in 1..Len(list) /\ i = j + 1 /\ (i = Len(list') <=> j = Len(list))
      BY <1>3, <1>4, <2>2
    <3> HIDE DEF j
    <3>2. list'[i] = list[j] /\ list[j] \in Frames /\ list[j] # f
      BY <1>3, <1>4, <3>1
    <3>3. word'[list'[i]] = word[list[j]]
      BY <1>1, <3>2
    <3>4. j # Len(list) => list'[i + 1] = list[j + 1]
      <4>1. ASSUME j # Len(list) PROVE j + 1 \in 1..Len(list)
        <5>1. Len(list) \in Nat /\ j \in 1..Len(list)
          BY <1>4, <3>1
        <5>2. QED
          BY <4>1, <5>1
      <4>2. QED
        BY <1>3, <3>1, <4>1, Zenon
    <3>5. QED
      BY <1>2, <1>4, <3>1, <3>3, <3>4
  <2>3. QED
    BY <2>1, <2>2
<1>6. FreeListIntact'
  BY <1>1, <1>2, <1>3, <1>4, <1>5 DEF FreeListIntact
<1>7. BitsAreHeld' /\ held' \subseteq Frames /\ marked' \subseteq Frames
  BY <1>1, <1>3 DEF BitsAreHeld, TypeOK
<1>8. free' \in Nat
  BY <1>1, <1>2, <1>4
<1>9. QED
  BY <1>1, <1>3, <1>6, <1>7, <1>8

\* pop_free takes the first frame off the list, reads the new head out of it
\* before its owner can overwrite the link, and sets the bit.
LEMMA PopFreeKeeps ==
    ASSUME IInv, PopFree, phase = "ready"
    PROVE  IInv'
<1>1. /\ TypeOK /\ FreeListIntact /\ BitsAreHeld
      /\ head' = word[head] /\ marked' = marked \union {head}
      /\ free' = free - 1 /\ held' = held \union {head} /\ list' = Tail(list)
      /\ UNCHANGED <<phase, cursor, bitmapLen, total, word>>
      /\ head # FREE_LIST_EMPTY
  BY DEF IInv, PopFree
<1>2. /\ IsInjective(list) /\ free = Len(list) /\ list \in Seq(Frames)
      /\ head = (IF list = <<>> THEN FREE_LIST_EMPTY ELSE list[1])
      /\ \A i \in DOMAIN list :
            word[list[i]] = (IF i = Len(list) THEN FREE_LIST_EMPTY ELSE list[i + 1])
  BY <1>1 DEF FreeListIntact, TypeOK
<1>3. list # <<>> /\ head = list[1]
  BY <1>1, <1>2
<1>4. /\ Len(list) \in Nat /\ Len(list) > 0 /\ list[1] \in Frames
      /\ Tail(list) \in Seq(Frames) /\ Len(Tail(list)) = Len(list) - 1
      /\ \A i \in 1..(Len(list) - 1) : Tail(list)[i] = list[i + 1]
      /\ list[1] \in Range(list)
  BY <1>2, <1>3, PopElements
<1>5. Range(Tail(list)) = Range(list) \ {list[1]} /\ IsInjective(Tail(list))
  BY <1>2, <1>3, PopElements
<1>6. /\ list' \in Seq(Frames) /\ Len(list') = Len(list) - 1 /\ IsInjective(list')
      /\ \A i \in 1..(Len(list) - 1) : list'[i] = list[i + 1]
      /\ Range(list') = Range(list) \ {head} /\ head \in Frames /\ head \in Range(list)
  BY <1>1, <1>3, <1>4, <1>5
<1>7. /\ DOMAIN list = 1..Len(list) /\ DOMAIN list' = 1..(Len(list) - 1)
      /\ list' = <<>> <=> Len(list) = 1
  BY <1>2, <1>4, <1>6, LenProperties, EmptySeq
<1>8. head' = (IF list' = <<>> THEN FREE_LIST_EMPTY ELSE list'[1])
  <2>1. head' = IF 1 = Len(list) THEN FREE_LIST_EMPTY ELSE list[1 + 1]
    BY <1>1, <1>2, <1>3, <1>4, <1>7
  <2>2. Len(list) # 1 => 1 \in 1..(Len(list) - 1)
    BY <1>4
  <2>3. QED
    BY <1>6, <1>7, <2>1, <2>2
<1>9. ASSUME NEW i \in DOMAIN list'
      PROVE  word'[list'[i]] = (IF i = Len(list') THEN FREE_LIST_EMPTY ELSE list'[i + 1])
  <2>1. /\ i \in 1..(Len(list) - 1) /\ i \in Int /\ i + 1 \in DOMAIN list
        /\ (i + 1 = Len(list) <=> i = Len(list) - 1)
        /\ (i # Len(list) - 1 => i + 1 \in 1..(Len(list) - 1))
    BY <1>4, <1>7
  <2>2. word'[list'[i]] = word[list[i + 1]]
    BY <1>1, <1>6, <2>1
  <2>3. word[list[i + 1]] = (IF i + 1 = Len(list) THEN FREE_LIST_EMPTY ELSE list[(i + 1) + 1])
    BY <1>2, <2>1
  <2>4. i # Len(list) - 1 => list'[i + 1] = list[(i + 1) + 1]
    BY <1>6, <2>1
  <2>5. QED
    BY <1>6, <2>1, <2>2, <2>3, <2>4
<1>10. FreeListIntact'
  <2>1. free' = Len(list')
    BY <1>1, <1>2, <1>6
  <2>2. QED
    BY <1>6, <1>8, <1>9, <2>1 DEF FreeListIntact
<1>11. BitsAreHeld'
  BY <1>1, <1>6 DEF BitsAreHeld
<1>12. TypeOK'
  <2>1. head' \in Frames \union {FREE_LIST_EMPTY}
    <3>1. list' # <<>> => list'[1] \in Frames
      <4>1. ASSUME list' # <<>> PROVE 1 \in 1..(Len(list) - 1)
        BY <1>4, <1>7, <4>1
      <4>2. QED
        BY <1>6, <4>1, ElementOfSeq
    <3>2. QED
      BY <1>8, <3>1
  <2>2. free' \in Nat
    BY <1>1, <1>2, <1>4
  <2>3. QED
    BY <1>1, <1>6, <2>1, <2>2 DEF TypeOK
<1>13. CursorFresh'
  BY <1>1 DEF CursorFresh
<1>14. QED
  BY <1>10, <1>11, <1>12, <1>13 DEF IInv

\* A step that leaves list, links and bits alone and starts no loop.
LEMMA QuietStep ==
    ASSUME IInv, UNCHANGED <<marked, word, head, free, held, list>>,
           phase' \in {"ready", "panic", "none"}, cursor' \in [from : Nat, to : Nat],
           bitmapLen' \in Nat, total' \in Nat
    PROVE  IInv'
<1>1. TypeOK'
  BY DEF IInv, TypeOK
<1>2. FreeListIntact' /\ BitsAreHeld' /\ CursorFresh'
  BY DEF IInv, FreeListIntact, BitsAreHeld, CursorFresh
<1>3. QED
  BY <1>1, <1>2 DEF IInv

\* A panic changes no data.
LEMMA PanicKeeps ==
    ASSUME IInv, Panic
    PROVE  IInv'
BY QuietStep DEF IInv, Panic, TypeOK

\* Rounding keeps natural numbers natural.
LEMMA RoundingIsNat ==
    /\ \A a \in Nat : CeilDiv(a, PageSize) \in Nat
    /\ \A a \in Nat : a \div PageSize \in Nat
    /\ \A a \in Nat : AlignUp(a, PageSize) \div PageSize \in Nat
<1>1. PageSize \in Nat /\ PageSize > 0
  BY PhysAssumption
<1>2. \A a \in Nat : a \div PageSize \in Nat
  BY <1>1
<1>3. \A a \in Nat : a + PageSize - 1 \in Nat
  BY <1>1
<1>4. \A a \in Nat : CeilDiv(a, PageSize) \in Nat
  BY <1>2, <1>3 DEF CeilDiv
<1>5. \A a \in Nat : AlignUp(a, PageSize) \in Nat
  <2>1. \A k \in Nat : k * PageSize \in Nat
    BY <1>1
  <2>2. QED
    BY <1>4, <2>1 DEF AlignUp
<1>6. QED
  BY <1>2, <1>4, <1>5

\* new builds an allocator with nothing in it.
LEMMA NewKeeps ==
    ASSUME IInv, NEW len \in Nat, NEW maxPhys \in Nat, New(len, maxPhys)
    PROVE  IInv'
<1>1. CASE Panic
  BY <1>1, PanicKeeps
<1>2. CASE ~Panic
  <2>1. /\ phase' = "ready" /\ bitmapLen' = len /\ total' = CeilDiv(maxPhys, PageSize)
        /\ UNCHANGED <<cursor, marked, word, head, free, held, list>>
    BY <1>2 DEF New
  <2>2. cursor \in [from : Nat, to : Nat]
    BY DEF IInv, TypeOK
  <2>3. QED
    BY <2>1, <2>2, QuietStep, RoundingIsNat
<1>3. QED
  BY <1>1, <1>2

\* add_region of unused memory sets out to push frames that are nobody's.
LEMMA AddRegionKeeps ==
    ASSUME IInv, NEW base \in Nat, NEW len \in Nat, Unused(base, len), AddRegion(base, len)
    PROVE  IInv'
<1> DEFINE start == AlignUp(base, PageSize) \div PageSize
           end   == (base + len) \div PageSize
<1>1. start \in Nat /\ end \in Nat /\ base + len \in Nat
  BY RoundingIsNat
<1>2. cursor \in [from : Nat, to : Nat] /\ bitmapLen \in Nat /\ total \in Nat
  BY DEF IInv, TypeOK
<1>3. CASE Panic
  BY <1>3, PanicKeeps
<1>4. CASE UNCHANGED allocVars
  BY <1>4 DEF IInv, allocVars, TypeOK, FreeListIntact, BitsAreHeld, CursorFresh
<1>5. CASE /\ start < end /\ base + len < PhysLimit
           /\ phase' = "adding" /\ cursor' = [from |-> start, to |-> end]
           /\ UNCHANGED <<bitmapLen, marked, word, head, total, free, held, list>>
  <2>1. \A f \in start..(end - 1) : f \notin held \union Range(list)
    BY DEF Unused, Containing
  <2>2. \A f \in start..(end - 1) : f \in Nat /\ f < end
    BY <1>1
  <2>3. \A f \in start..(end - 1) : f \in Frames
    BY <1>1, <1>5, <2>2, FrameArithmetic
  <2> HIDE DEF start, end
  <2>4. cursor' \in [from : Nat, to : Nat] /\ cursor'.from = start /\ cursor'.to = end
    BY <1>1, <1>5
  <2>5. TypeOK'
    BY <1>5, <2>4 DEF IInv, TypeOK
  <2>6. FreeListIntact' /\ BitsAreHeld'
    BY <1>5 DEF IInv, FreeListIntact, BitsAreHeld
  <2>7. CursorFresh'
    BY <1>5, <2>1, <2>3, <2>4 DEF CursorFresh
  <2>8. QED
    BY <2>5, <2>6, <2>7 DEF IInv
<1>6. Panic \/ UNCHANGED allocVars \/
      /\ start < end /\ base + len < PhysLimit
      /\ phase' = "adding" /\ cursor' = [from |-> start, to |-> end]
      /\ UNCHANGED <<bitmapLen, marked, word, head, total, free, held, list>>
  <2>1. PhysCheckedAdd(base, len) = {} <=> ~(base + len < PhysLimit)
    BY DEF PhysCheckedAdd, PhysNew, IsPhys
  <2>2. PhysCheckedAdd(base, len) = {} \/ start >= end
        \/ (base + len < PhysLimit /\ start < end)
    <3> HIDE DEF start, end
    <3>1. base + len < PhysLimit \/ PhysCheckedAdd(base, len) = {}
      BY <2>1, Zenon
    <3>2. start >= end \/ start < end
      BY <1>1
    <3>3. QED
      BY <3>1, <3>2, Zenon
  <2>3. Containing(AlignUp(base, PageSize)) = start /\ Containing(base + len) = end
    BY Zenon DEF Containing
  <2> HIDE DEF start, end
  <2>4. QED
    BY <2>2, <2>3, Zenon DEF AddRegion, allocVars
<1>7. QED
  BY <1>3, <1>4, <1>5, <1>6

\* A round of add_region's loop pushes the frame at the cursor.
LEMMA AddFrameKeeps ==
    ASSUME IInv, AddFrame
    PROVE  IInv'
<1>1. CASE Panic
  BY <1>1, PanicKeeps
<1>2. CASE ~Panic
  <2>1. /\ phase = "adding" /\ FreeFrame(cursor.from)
        /\ cursor' = [cursor EXCEPT !.from = @ + 1]
        /\ phase' = IF cursor.from + 1 < cursor.to THEN "adding" ELSE "ready"
    BY <1>2 DEF AddFrame
  <2>2. /\ TypeOK /\ FreeListIntact /\ BitsAreHeld /\ cursor \in [from : Nat, to : Nat]
        /\ cursor.from < cursor.to
        /\ \A f \in cursor.from..(cursor.to - 1) :
              f \in Frames /\ f \notin held /\ f \notin Range(list)
    BY <2>1 DEF IInv, CursorFresh, TypeOK
  <2> DEFINE f == cursor.from
             t == cursor.to
  <2>3. /\ f \in Nat /\ t \in Nat /\ f < t
        /\ cursor' \in [from : Nat, to : Nat] /\ cursor'.from = f + 1 /\ cursor'.to = t
    BY <2>1, <2>2
  <2> HIDE DEF f, t
  <2>4. \A g \in f..(t - 1) : g \in Frames /\ g \notin held /\ g \notin Range(list)
    BY <2>2 DEF f, t
  <2>5. f \in f..(t - 1)
    BY <2>3
  <2>6. f \in Frames /\ f \notin Range(list) /\ FreeFrame(f)
    BY <2>1, <2>4, <2>5 DEF f
  <2>7. /\ FreeListIntact' /\ BitsAreHeld'
        /\ word' \in [Frames -> Frames \union {FREE_LIST_EMPTY} \union Words]
        /\ head' \in Frames \union {FREE_LIST_EMPTY}
        /\ free' \in Nat /\ held' \subseteq Frames /\ list' \in Seq(Frames)
        /\ marked' \subseteq Frames
        /\ Range(list') = Range(list) \union {f}
    BY <2>2, <2>6, FreeFrameKeeps
  <2>8. held' = held \ {f} /\ UNCHANGED <<bitmapLen, total>>
    BY <2>6 DEF FreeFrame
  <2>9. TypeOK'
    BY <2>1, <2>2, <2>3, <2>7, <2>8 DEF TypeOK
  <2>10. CursorFresh'
    <3>1. SUFFICES ASSUME phase' = "adding"
                   PROVE  /\ f + 1 < t
                          /\ \A g \in (f + 1)..(t - 1) :
                                g \in Frames /\ g \notin held' /\ g \notin Range(list')
      BY <2>3 DEF CursorFresh
    <3>2. f + 1 < t
      BY <2>1, <3>1 DEF f, t
    <3>3. \A g \in (f + 1)..(t - 1) : g \in f..(t - 1) /\ g # f
      BY <2>3
    <3>4. QED
      BY <2>4, <2>7, <2>8, <3>2, <3>3, Zenon
  <2>11. QED
    BY <2>7, <2>9, <2>10 DEF IInv
<1>3. QED
  BY <1>1, <1>2

\* deallocate pushes a frame only if its bit is 1, so only one that is on no list.
LEMMA DeallocateKeeps ==
    ASSUME IInv, NEW f \in Frames, Deallocate(f)
    PROVE  IInv'
<1>1. CASE Panic
  BY <1>1, PanicKeeps
<1>2. CASE ~Panic
  <2>1. /\ phase = "ready" /\ IsAllocated(f) /\ FreeFrame(f) /\ UNCHANGED <<phase, cursor>>
    BY <1>2 DEF Deallocate
  <2>2. f \in held /\ f \notin Range(list)
    BY <2>1 DEF IsAllocated, FreeFrame, IInv, BitsAreHeld
  <2>3. /\ FreeListIntact' /\ BitsAreHeld'
        /\ word' \in [Frames -> Frames \union {FREE_LIST_EMPTY} \union Words]
        /\ head' \in Frames \union {FREE_LIST_EMPTY}
        /\ free' \in Nat /\ held' \subseteq Frames /\ list' \in Seq(Frames)
        /\ marked' \subseteq Frames
    BY <2>1, <2>2, FreeFrameKeeps DEF IInv
  <2>4. UNCHANGED <<bitmapLen, total>>
    BY <2>1 DEF FreeFrame
  <2>5. TypeOK'
    BY <2>1, <2>3, <2>4 DEF IInv, TypeOK
  <2>6. CursorFresh'
    BY <2>1 DEF CursorFresh
  <2>7. QED
    BY <2>3, <2>5, <2>6 DEF IInv
<1>3. QED
  BY <1>1, <1>2

\* What an owner writes is in no frame of the list.
LEMMA WriteFrameKeeps ==
    ASSUME IInv, NEW f \in Frames, NEW w \in Words, WriteFrame(f, w)
    PROVE  IInv'
<1>1. /\ f \in held /\ f \notin Range(list) /\ phase = "ready"
      /\ word' = [word EXCEPT ![f] = w]
      /\ UNCHANGED <<phase, cursor, bitmapLen, marked, head, total, free, held, list>>
  BY DEF WriteFrame, IInv, BitsAreHeld
<1>2. word \in [Frames -> Frames \union {FREE_LIST_EMPTY} \union Words] /\ list \in Seq(Frames)
  BY DEF IInv, TypeOK
<1>3. \A g \in Frames : g # f => word'[g] = word[g]
  BY <1>1, <1>2
<1>4. \A i \in DOMAIN list : list[i] \in Frames /\ list[i] # f
  BY <1>1, <1>2, ElementOfSeq, LenProperties DEF Range
<1>5. FreeListIntact'
  BY <1>1, <1>3, <1>4 DEF IInv, FreeListIntact
<1>6. TypeOK'
  BY <1>1, <1>2 DEF IInv, TypeOK
<1>7. BitsAreHeld' /\ CursorFresh'
  BY <1>1 DEF IInv, BitsAreHeld, CursorFresh
<1>8. QED
  BY <1>5, <1>6, <1>7 DEF IInv

\* The inductive step.
LEMMA NextKeepsIInv ==
    ASSUME IInv, [AllocNext]_allocVars
    PROVE  IInv'
<1>1. PhysLimit \in Nat /\ MaxBitmap \in Nat
  BY PhysAssumption, FrameAssumption
<1>2. ASSUME NEW len \in 0..MaxBitmap, NEW maxPhys \in 0..PhysLimit, New(len, maxPhys)
      PROVE  IInv'
  <2>1. len \in Nat /\ maxPhys \in Nat
    BY <1>1
  <2>2. QED
    BY <1>2, <2>1, NewKeeps
<1>3. ASSUME NEW base \in 0..(PhysLimit - 1), NEW len \in 1..PhysLimit,
             Unused(base, len), AddRegion(base, len)
      PROVE  IInv'
  <2>1. base \in Nat /\ len \in Nat
    BY <1>1
  <2>2. QED
    BY <1>3, <2>1, AddRegionKeeps
<1>4. CASE AddFrame
  BY <1>4, AddFrameKeeps
<1>5. CASE Allocate
  BY <1>5, PopFreeKeeps, PanicKeeps DEF Allocate
<1>6. ASSUME NEW f \in Frames, Deallocate(f) PROVE IInv'
  BY <1>6, DeallocateKeeps
<1>7. ASSUME NEW f \in Frames, NEW w \in Words, WriteFrame(f, w) PROVE IInv'
  BY <1>7, WriteFrameKeeps
<1>8. CASE UNCHANGED allocVars
  BY <1>8 DEF IInv, allocVars, TypeOK, FreeListIntact, BitsAreHeld, CursorFresh
<1>9. QED
  BY <1>2, <1>3, <1>4, <1>5, <1>6, <1>7, <1>8 DEF AllocNext, Halted

\* The empty allocator satisfies the invariant.
LEMMA InitIInv == AllocInit => IInv
<1>1. <<>> \in Seq(Frames) /\ Len(<<>>) = 0 /\ DOMAIN <<>> = {} /\ Range(<<>>) = {}
  BY DEF Range
<1>2. IsInjective(<<>>)
  BY <1>1 DEF IsInjective
<1>3. QED
  BY <1>1, <1>2 DEF AllocInit, IInv, TypeOK, FreeListIntact, BitsAreHeld, CursorFresh

\* The inductive invariant holds in every reachable state.
THEOREM AllocatorInvariant == AllocSpec => []IInv
BY InitIInv, NextKeepsIInv, PTL DEF AllocSpec

\* Type correctness; in particular the head of the free list, which is read out of
\* the memory of a frame, is always a frame or the end mark.
THEOREM AllocatorTypeCorrect == AllocSpec => []TypeOK
<1>1. IInv => TypeOK
  BY DEF IInv
<1>2. QED
  BY <1>1, AllocatorInvariant, PTL

\* The free list survives whatever the owners of frames do.
THEOREM FreeListStaysIntact == AllocSpec => []FreeListIntact
<1>1. IInv => FreeListIntact
  BY DEF IInv
<1>2. QED
  BY <1>1, AllocatorInvariant, PTL

\* Bitmap and free list describe the same frames.
THEOREM BitmapAgreesWithList == AllocSpec => []BitsAreHeld
<1>1. IInv => BitsAreHeld
  BY DEF IInv
<1>2. QED
  BY <1>1, AllocatorInvariant, PTL

\* allocate fails only when nothing is free, and always then.
THEOREM ExhaustionIsReal == AllocSpec => []ExhaustedWhenNoneFree
<1>1. IInv => ExhaustedWhenNoneFree
  <2>1. SUFFICES ASSUME IInv PROVE ExhaustedWhenNoneFree
    OBVIOUS
  <2>2. /\ free = Len(list) /\ list \in Seq(Frames)
        /\ head = (IF list = <<>> THEN FREE_LIST_EMPTY ELSE list[1])
    BY <2>1 DEF IInv, TypeOK, FreeListIntact
  <2>3. list = <<>> <=> Len(list) = 0
    BY <2>2, EmptySeq
  <2>4. list # <<>> => list[1] \in Frames
    BY <2>2, ElementOfSeq, LenProperties, EmptySeq
  <2>5. QED
    BY <2>2, <2>3, <2>4, FrameArithmetic DEF ExhaustedWhenNoneFree
<1>2. QED
  BY <1>1, AllocatorInvariant, PTL

\* What a step does to the list and to the owners, and nothing else: a frame is
\* pushed that nobody else held, or the first frame is popped.
LEMMA StepOnList ==
    ASSUME IInv, [AllocNext]_allocVars
    PROVE  \/ UNCHANGED <<list, held>>
           \/ \E f \in Frames :
                /\ f \notin Range(list)
                /\ Range(list') = Range(list) \union {f}
                /\ held' = held \ {f}
                /\ word' = [word EXCEPT ![f] = head]
           \/ \E f \in Frames :
                /\ f \in Range(list)
                /\ f \notin held
                /\ Range(list') = Range(list) \ {f}
                /\ held' = held \union {f}
                /\ word' = word
<1> DEFINE Push(f) == /\ f \notin Range(list)
                      /\ Range(list') = Range(list) \union {f}
                      /\ held' = held \ {f}
                      /\ word' = [word EXCEPT ![f] = head]
           Pop(f)  == /\ f \in Range(list)
                      /\ f \notin held
                      /\ Range(list') = Range(list) \ {f}
                      /\ held' = held \union {f}
                      /\ word' = word
<1>1. TypeOK /\ FreeListIntact /\ BitsAreHeld
  BY DEF IInv
<1>2. ASSUME NEW f \in Frames, f \notin Range(list), FreeFrame(f) PROVE Push(f)
  <2>1. Range(list') = Range(list) \union {f}
    BY <1>1, <1>2, FreeFrameKeeps
  <2>2. QED
    BY <1>2, <2>1 DEF FreeFrame
<1>3. ASSUME PopFree PROVE head \in Frames /\ Pop(head)
  <2>1. list # <<>> /\ head = list[1] /\ list \in Seq(Frames) /\ IsInjective(list)
    BY <1>1, <1>3 DEF PopFree, FreeListIntact, TypeOK
  <2>2. list[1] \in Frames /\ list[1] \in Range(list)
    BY <2>1, PopElements
  <2>3. Range(Tail(list)) = Range(list) \ {list[1]}
    BY <2>1, PopElements
  <2>4. head \notin held
    BY <1>1, <2>1, <2>2 DEF BitsAreHeld
  <2>5. QED
    BY <1>3, <2>1, <2>2, <2>3, <2>4 DEF PopFree
<1>4. ASSUME AddFrame, ~Panic PROVE cursor.from \in Frames /\ Push(cursor.from)
  <2>1. phase = "adding" /\ FreeFrame(cursor.from)
    BY <1>4 DEF AddFrame
  <2>2. cursor.from \in Nat /\ cursor.to \in Nat /\ cursor.from < cursor.to
    BY <1>1, <2>1 DEF IInv, CursorFresh, TypeOK
  <2>3. cursor.from \in cursor.from..(cursor.to - 1)
    BY <2>2
  <2>4. cursor.from \in Frames /\ cursor.from \notin Range(list)
    BY <2>1, <2>3 DEF IInv, CursorFresh
  <2>5. QED
    BY <1>2, <2>1, <2>4
<1>5. ASSUME NEW f \in Frames, Deallocate(f), ~Panic PROVE Push(f)
  <2>1. IsAllocated(f) /\ FreeFrame(f)
    BY <1>5 DEF Deallocate
  <2>2. f \notin Range(list)
    BY <1>1, <2>1 DEF IsAllocated, FreeFrame, BitsAreHeld
  <2>3. QED
    BY <1>2, <2>1, <2>2
<1>6. ASSUME Panic PROVE UNCHANGED <<list, held>>
  BY <1>6 DEF Panic
<1>7. ASSUME NEW len, NEW maxPhys, New(len, maxPhys) PROVE UNCHANGED <<list, held>>
  BY <1>6, <1>7 DEF New
<1>8. ASSUME NEW base, NEW len, AddRegion(base, len) PROVE UNCHANGED <<list, held>>
  BY <1>6, <1>8 DEF AddRegion
<1>9. ASSUME NEW f, NEW w, WriteFrame(f, w) PROVE UNCHANGED <<list, held>>
  BY <1>9 DEF WriteFrame
<1>10. ASSUME UNCHANGED allocVars PROVE UNCHANGED <<list, held>>
  BY <1>10 DEF allocVars
<1>11. CASE Panic
  BY <1>6, <1>11
<1>12. CASE ~Panic
  <2>1. \/ AddFrame \/ PopFree \/ \E f \in Frames : Deallocate(f)
        \/ UNCHANGED <<list, held>>
    BY <1>7, <1>8, <1>9, <1>10, <1>12 DEF AllocNext, Allocate, Halted
  <2> HIDE DEF Push, Pop
  <2>2. (\E f \in Frames : Push(f)) \/ (\E f \in Frames : Pop(f)) \/ UNCHANGED <<list, held>>
    BY <1>3, <1>4, <1>5, <1>12, <2>1
  <2>3. QED
    BY <2>2 DEF Push, Pop
<1>13. QED
  BY <1>11, <1>12

\* The allocator never writes into a frame somebody holds.
THEOREM OwnersStayUndisturbed == AllocSpec => OwnersUndisturbed
<1>1. ASSUME IInv, [AllocNext]_allocVars
      PROVE  [list' # list => \A f \in held \cap held' : word'[f] = word[f]]_allocVars
  <2>1. word \in [Frames -> Frames \union {FREE_LIST_EMPTY} \union Words] /\ held \subseteq Frames
    BY <1>1 DEF IInv, TypeOK
  <2>2. QED
    BY <1>1, <2>1, StepOnList
<1>2. QED
  BY <1>1, AllocatorInvariant, PTL DEF AllocSpec, OwnersUndisturbed

\* The frame allocator implements the pool: what it hands out is nobody else's.
THEOREM AllocatorImplementsPool == AllocSpec => ImplementsPool
<1> DEFINE H(S) == {[base |-> f, size |-> 1] : f \in S}
           C(r) == r.base..(r.base + r.size - 1)
<1>1. ASSUME NEW f \in Frames PROVE C([base |-> f, size |-> 1]) = {f}
  BY DEF Frames
<1>2. AllocInit => Pool!PoolInit
  BY DEF AllocInit, Pool!PoolInit, Range
<1>3. ASSUME IInv, IInv', [AllocNext]_allocVars
      PROVE  [Pool!PoolNext]_(Pool!poolVars)
  <2>1. held \subseteq Frames /\ held' \subseteq Frames /\ held' \cap Range(list') = {}
    BY <1>3 DEF IInv, TypeOK, BitsAreHeld
  <2>2. CASE UNCHANGED <<list, held>>
    BY <2>2 DEF Pool!poolVars
  <2>3. ASSUME NEW f \in Frames, f \notin Range(list), f \notin held,
               Range(list') = Range(list) \union {f}, held' = held \ {f}
        PROVE  Pool!Donate
    <3>1. UNION {C(r) : r \in H(held)} \subseteq held
      BY <1>1, <2>1
    <3>2. held' = held
      BY <2>3
    <3>3. Range(list') \cap held = {}
      BY <2>1, <3>2
    <3>4. QED
      BY <2>3, <3>1, <3>2, <3>3 DEF Pool!Donate, Pool!HeldCells, Pool!Cells
  <2>4. ASSUME NEW f \in Frames, f \in held,
               Range(list') = Range(list) \union {f}, held' = held \ {f}
        PROVE  Pool!Free
    <3> DEFINE r == [base |-> f, size |-> 1]
    <3>1. r \in H(held) \ H(held') /\ H(held') = H(held) \ {r}
      <4>1. \A g : [base |-> g, size |-> 1] = r => g = f
        OBVIOUS
      <4>2. r \in H(held) /\ r \notin H(held')
        BY <2>4, <4>1
      <4>3. ASSUME NEW x \in H(held'), x # r PROVE x \in H(held) \ {r}
        BY <2>4, <4>3
      <4>4. ASSUME NEW x \in H(held) \ {r} PROVE x \in H(held')
        BY <2>4, <4>4
      <4> HIDE DEF H, r
      <4>5. QED
        BY <4>2, <4>3, <4>4
    <3>2. C(r) = {f}
      BY <1>1
    <3>3. QED
      BY <2>4, <3>1, <3>2 DEF Pool!Free, Pool!Cells
  <2>5. ASSUME NEW f \in Frames, f \in Range(list), f \notin held,
               Range(list') = Range(list) \ {f}, held' = held \union {f}
        PROVE  Pool!Alloc
    <3> DEFINE r == [base |-> f, size |-> 1]
    <3>1. r \in H(held') \ H(held) /\ H(held') = H(held) \union {r}
      BY <2>5
    <3>2. C(r) = {f}
      BY <1>1
    <3>3. QED
      BY <2>5, <3>1, <3>2 DEF Pool!Alloc, Pool!Cells
  <2>6. QED
    BY <1>3, <2>2, <2>3, <2>4, <2>5, StepOnList DEF Pool!PoolNext
<1>4. QED
  BY <1>2, <1>3, AllocatorInvariant, PTL DEF AllocSpec, ImplementsPool, Pool!PoolSpec

=============================================================================
