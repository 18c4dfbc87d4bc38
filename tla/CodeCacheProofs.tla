--------------------------- MODULE CodeCacheProofs ---------------------------
(***************************************************************************)
(* The safety of the code cache for every arena size, every policy and     *)
(* every set of block sizes: TypeOK, SpansDisjoint, FreeListApart,         *)
(* InsideArena and FullyCoalesced are invariants of CodeCache!Spec, and    *)
(* CodeCache!Spec implements Arena!Spec.                                   *)
(*                                                                         *)
(* None of these invariants is inductive.  Inv strengthens them with what  *)
(* the allocator silently relies on: every offset and every free size is a *)
(* multiple of the alignment, no span is empty, the policies without a     *)
(* free list keep it empty, and the bump cursor lies beyond every block.   *)
(*                                                                         *)
(* Of the history it is proved that no byte of an LRU arena is lost except *)
(* in a drop (NoOtherLeak), by showing that what a free list covers is     *)
(* kept by every operation on it; a list that covers the arena and is      *)
(* coalesced is one span, so only lost bytes make a request fail.  Of      *)
(* termination it is proved that each eviction leaves one block fewer.     *)
(***************************************************************************)
EXTENDS CodeCacheHistory, FiniteSetTheorems, TLAPS

Aligned(n) == n % 8 = 0

\* A non-empty, aligned span inside the arena.
GoodSpan(s) ==
    /\ s \in Span
    /\ s.size > 0
    /\ Aligned(s.off) /\ Aligned(s.size)
    /\ s.off + s.size <= Cap

Clear(t, spans) == \A f \in spans : Apart(f, t)

\* A well-formed free list.
GoodFree(spans) ==
    /\ \A f \in spans : GoodSpan(f)
    /\ \A f, g \in spans : f # g => Apart(f, g)

\* lru_free left no two neighbours.
Coalesced(spans) == \A f, g \in spans : f.off + f.size # g.off

-----------------------------------------------------------------------------
(* Arithmetic of the alignment *)

\* cc_align rounds up to a multiple of 8, and leaves a multiple alone.
LEMMA CcAlignFacts ==
    ASSUME NEW v \in Nat
    PROVE  /\ CcAlign(v) \in Nat /\ Aligned(CcAlign(v))
           /\ v <= CcAlign(v)
           /\ Aligned(v) => CcAlign(v) = v
           /\ v > 0 => CcAlign(v) >= 8
BY DEF CcAlign, CC_ALIGN, Aligned

\* cc_align is monotone.
LEMMA CcAlignMonotone ==
    ASSUME NEW v \in Nat, NEW w \in Nat, v <= w
    PROVE  CcAlign(v) <= CcAlign(w)
BY DEF CcAlign, CC_ALIGN

\* Room for v bytes between two aligned offsets is room for its footprint.
LEMMA CcAlignLeast ==
    ASSUME NEW v \in Nat, NEW a \in Nat, NEW b \in Nat,
           Aligned(a), Aligned(b), a + v <= b
    PROVE  a + CcAlign(v) <= b
BY DEF CcAlign, CC_ALIGN, Aligned

\* Sums and differences of multiples of 8 are multiples of 8.
LEMMA AlignedSums ==
    ASSUME NEW a \in Nat, NEW b \in Nat, Aligned(a), Aligned(b)
    PROVE  Aligned(a + b) /\ Aligned(a - b)
BY DEF Aligned

\* codecache_init leaves an aligned capacity.
LEMMA CapFacts == Cap \in Nat /\ Aligned(Cap)
BY ArenaAssumption DEF Cap, CC_ALIGN, Aligned

\* The size the LRU allocator uses is the footprint of a non-empty block.
LEMMA LruSizeFacts ==
    ASSUME NEW v \in Nat, v > 0
    PROVE  LruSize(v) = CcAlign(v)
BY CcAlignFacts DEF LruSize, HdrSize

-----------------------------------------------------------------------------
(* The free-list operators *)

\* lru_free of a span that is clear of the free list yields a well-formed
\* free list that stays clear of everything that was clear of both.
LEMMA LruFreeFacts ==
    ASSUME NEW F, GoodFree(F), Coalesced(F),
           NEW o \in Nat, NEW n \in Nat, n > 0,
           GoodSpan([off |-> o, size |-> CcAlign(n)]),
           Clear([off |-> o, size |-> CcAlign(n)], F)
    PROVE  /\ GoodFree(LruFree(F, o, n))
           /\ Coalesced(LruFree(F, o, n))
           /\ \A t \in Span :
                 /\ t.size > 0
                 /\ Clear(t, F)
                 /\ Apart([off |-> o, size |-> CcAlign(n)], t)
                 => Clear(t, LruFree(F, o, n))
<1> DEFINE size   == LruSize(n)
           new    == [off |-> o, size |-> size]
           after  == {s \in NextSpan(F, o) : o + size = s.off}
           before == {s \in PrevSpan(F, o) : s.off + s.size = o}
           lo     == IF before = {} THEN o ELSE (CHOOSE s \in before : TRUE).off
           hi     == IF after = {} THEN o + size
                     ELSE LET s == CHOOSE s \in after : TRUE IN s.off + s.size
           merged == [off |-> lo, size |-> hi - lo]
<1>0. LruFree(F, o, n) = (F \ (before \cup after)) \cup {merged}
  BY Zenon DEF LruFree
<1>a. size = CcAlign(n)
  BY LruSizeFacts
<1>1. /\ size \in Nat /\ size > 0 /\ Aligned(size) /\ Aligned(o) /\ o + size <= Cap
      /\ Cap \in Nat
  BY <1>a, CcAlignFacts, CapFacts DEF GoodSpan
<1>2. /\ before \subseteq F /\ \A s \in before : s.off + s.size = o
      /\ after \subseteq F /\ \A s \in after : o + size = s.off
  BY DEF PrevSpan, NextSpan
<1>3. \A s \in F : /\ s.off \in Nat /\ s.size \in Nat /\ s.size > 0
                   /\ Aligned(s.off) /\ Aligned(s.size) /\ s.off + s.size <= Cap
  BY DEF GoodFree, GoodSpan, Span
<1>4. \/ before = {} /\ lo = o
      \/ \E s \in before : lo = s.off
  OBVIOUS
<1>5. \/ after = {} /\ hi = o + size
      \/ \E s \in after : hi = s.off + s.size
  OBVIOUS
<1>6. /\ lo \in Nat /\ lo <= o /\ Aligned(lo)
      /\ hi \in Nat /\ o + size <= hi /\ hi <= Cap /\ Aligned(hi)
  <2>1. lo \in Nat /\ lo <= o /\ Aligned(lo)
    BY <1>1, <1>2, <1>3, <1>4
  <2>2. hi \in Nat /\ o + size <= hi /\ hi <= Cap
    BY <1>1, <1>2, <1>3, <1>5
  <2>3. Aligned(hi)
    BY <1>1, <1>2, <1>3, <1>5, AlignedSums
  <2> QED BY <2>1, <2>2, <2>3
<1> HIDE DEF before, after, lo, hi, size
<1>7. GoodSpan(merged)
  <2>1. Aligned(hi - lo)
    BY <1>6, AlignedSums
  <2> QED BY <1>1, <1>6, <2>1 DEF GoodSpan, Span
\* A non-empty span clear of the parts is clear of the merged span.
<1>8. ASSUME NEW t, t.off \in Nat, t.size \in Nat, t.size > 0,
             Clear(t, before), Clear(t, after), Apart(new, t)
      PROVE  Apart(merged, t)
  <2>1. t.off + t.size <= o \/ o + size <= t.off
    BY <1>8 DEF Apart
  <2>2. CASE t.off + t.size <= o
    <3>1. t.off + t.size <= lo
      BY <1>8, <1>1, <1>2, <1>3, <1>4, <2>2 DEF Clear, Apart
    <3> QED BY <3>1 DEF Apart
  <2>3. CASE o + size <= t.off
    <3>1. hi <= t.off
      BY <1>8, <1>1, <1>2, <1>3, <1>5, <2>3 DEF Clear, Apart
    <3> QED BY <3>1, <1>6 DEF Apart
  <2> QED BY <2>1, <2>2, <2>3
<1>9. ASSUME NEW f \in F \ (before \cup after)
      PROVE  Apart(merged, f) /\ Apart(f, merged)
  <2>1. Apart(new, f)
    BY <1>a, <1>9 DEF Clear, Apart
  <2>2. Clear(f, before) /\ Clear(f, after)
    BY <1>2, <1>9 DEF Clear, GoodFree
  <2>3. Apart(merged, f)
    BY <1>3, <1>8, <2>1, <2>2, <1>9
  <2> QED BY <2>3 DEF Apart
<1>10. GoodFree(LruFree(F, o, n))
  BY <1>0, <1>7, <1>9 DEF GoodFree
<1>11. Coalesced(LruFree(F, o, n))
  <2>1. ASSUME NEW f \in F \ (before \cup after)
        PROVE  f.off + f.size # lo
    <3>1. CASE before = {}
      <4>1. SUFFICES ASSUME f.off + f.size = o PROVE FALSE
        BY <1>2, <1>4, <3>1
      <4>2. f.off < o
        BY <4>1, <1>3, <2>1
      <4>3. ASSUME NEW t \in F, t.off < o PROVE t.off <= f.off
        <5>1. t = f \/ Apart(f, t)
          BY <2>1 DEF GoodFree
        <5> QED BY <5>1, <4>1, <4>3, <1>3, <2>1, <1>1 DEF Apart
      <4>4. f \in before
        BY <4>1, <4>2, <4>3, <2>1 DEF before, PrevSpan
      <4> QED BY <4>4, <3>1
    <3>2. CASE \E s \in before : lo = s.off
      BY <3>2, <1>2, <2>1 DEF Coalesced
    <3> QED BY <3>1, <3>2, <1>4
  <2>2. ASSUME NEW f \in F \ (before \cup after)
        PROVE  hi # f.off
    <3>1. CASE after = {}
      <4>1. SUFFICES ASSUME f.off = o + size PROVE FALSE
        BY <1>2, <1>5, <3>1
      <4>2. f.off >= o
        BY <4>1, <1>1
      <4>3. ASSUME NEW t \in F, t.off >= o PROVE f.off <= t.off
        <5>1. Apart(t, new)
          BY <1>a DEF Clear
        <5> QED BY <5>1, <4>1, <4>3, <1>3, <2>2, <1>1 DEF Apart
      <4>4. f \in after
        BY <4>1, <4>2, <4>3, <2>2 DEF after, NextSpan
      <4> QED BY <4>4, <3>1
    <3>2. CASE \E s \in after : hi = s.off + s.size
      BY <3>2, <1>2, <2>2 DEF Coalesced
    <3> QED BY <3>1, <3>2, <1>5
  <2>3. lo + (hi - lo) = hi /\ hi # lo
    BY <1>1, <1>6
  <2> QED BY <1>0, <2>1, <2>2, <2>3 DEF Coalesced
<1>12. ASSUME NEW t \in Span, t.size > 0, Clear(t, F), Apart(new, t)
       PROVE  Clear(t, LruFree(F, o, n))
  <2>1. Clear(t, before) /\ Clear(t, after)
    BY <1>2, <1>12 DEF Clear
  <2>2. Apart(merged, t)
    BY <1>8, <1>12, <2>1 DEF Span
  <2> QED BY <1>0, <1>12, <2>2 DEF Clear
<1> QED BY <1>a, <1>10, <1>11, <1>12

\* The carve of lru_alloc: the span taken off the front is clear of the list
\* that is left, and both are clear of what was clear of the list before.
LEMMA CarveFacts ==
    ASSUME NEW F, GoodFree(F), Coalesced(F),
           NEW n \in Nat, n > 0,
           NEW s \in FirstFit(F, CcAlign(n))
    PROVE  LET new == [off |-> s.off, size |-> CcAlign(n)]
               G   == Carve(F, s, CcAlign(n))
           IN  /\ GoodFree(G) /\ Coalesced(G)
               /\ GoodSpan(new) /\ Clear(new, G)
               /\ \A t \in Span : Clear(t, F) => Clear(t, G) /\ Apart(new, t)
<1> DEFINE size == CcAlign(n)
           new  == [off |-> s.off, size |-> size]
           rest == [off |-> s.off + size, size |-> s.size - size]
           G    == Carve(F, s, size)
<1>1. size \in Nat /\ size > 0 /\ Aligned(size)
  BY CcAlignFacts
<1>2. s \in F /\ size <= s.size
  BY DEF FirstFit
<1>3. \A f \in F : /\ f.off \in Nat /\ f.size \in Nat /\ f.size > 0
                   /\ Aligned(f.off) /\ Aligned(f.size) /\ f.off + f.size <= Cap
  BY DEF GoodFree, GoodSpan, Span
<1>4. G \subseteq (F \ {s}) \cup {rest} /\ (rest \in G => size < s.size \/ rest \in F \ {s})
  BY <1>1, <1>2, <1>3 DEF Carve, HdrSize
<1>5. Cap \in Nat
  BY CapFacts
<1> HIDE DEF size, G
<1>6. GoodSpan(new)
  BY <1>1, <1>2, <1>3, <1>5 DEF GoodSpan, Span
<1>7. ASSUME size < s.size
      PROVE  GoodSpan(rest)
  <2>1. Aligned(s.off + size) /\ Aligned(s.size - size)
    BY <1>1, <1>2, <1>3, AlignedSums
  <2> QED BY <1>1, <1>2, <1>3, <1>5, <1>7, <2>1 DEF GoodSpan, Span
<1>8. \A f \in F \ {s} : Apart(f, rest) /\ Apart(rest, f) /\ Apart(f, new)
  <2>1. \A f \in F \ {s} : Apart(f, s)
    BY <1>2 DEF GoodFree
  <2> QED BY <1>1, <1>2, <1>3, <2>1 DEF Apart
<1>9. GoodFree(G)
  BY <1>4, <1>7, <1>8 DEF GoodFree
<1>10. Coalesced(G)
  <2>1. \A f \in F \ {s} : size < s.size => f.off + f.size # rest.off
    BY <1>1, <1>2, <1>3, <1>8 DEF Apart
  <2>2. \A f \in F : rest.off + rest.size # f.off
    BY <1>1, <1>2, <1>3 DEF Coalesced
  <2>3. size < s.size => rest.off + rest.size # rest.off
    BY <1>1, <1>2, <1>3
  <2> QED BY <1>4, <2>1, <2>2, <2>3 DEF Coalesced
<1>11. Clear(new, G)
  BY <1>1, <1>2, <1>3, <1>4, <1>8 DEF Clear, Apart
<1>12. ASSUME NEW t \in Span, Clear(t, F)
       PROVE  Clear(t, G) /\ Apart(new, t)
  <2>1. Apart(s, t)
    BY <1>2, <1>12 DEF Clear
  <2>2. Apart(new, t) /\ Apart(rest, t)
    BY <2>1, <1>1, <1>2, <1>3 DEF Apart, Span
  <2> QED BY <1>4, <1>12, <2>2 DEF Clear
<1> QED BY <1>6, <1>9, <1>10, <1>11, <1>12 DEF G, size

\* codecache_free of a span that is clear of the free list.
LEMMA FreedFacts ==
    ASSUME NEW F, GoodFree(F), Coalesced(F), mode # LRU => F = {},
           NEW o \in Nat, NEW n \in Nat, n > 0,
           GoodSpan([off |-> o, size |-> CcAlign(n)]),
           Clear([off |-> o, size |-> CcAlign(n)], F)
    PROVE  LET G == FreedList(F, o, n)
           IN  /\ GoodFree(G) /\ Coalesced(G) /\ (mode # LRU => G = {})
               /\ \A t \in Span :
                     /\ t.size > 0
                     /\ Clear(t, F)
                     /\ Apart([off |-> o, size |-> CcAlign(n)], t)
                     => Clear(t, G)
<1>1. CASE mode = LRU
  BY <1>1, LruFreeFacts, Zenon DEF FreedList
<1>2. CASE mode # LRU
  BY <1>2 DEF FreedList
<1> QED BY <1>1, <1>2

\* codecache_trim: the tail beyond the footprint of the real size joins the
\* free list, and the shortened span is clear of it.
LEMMA TrimmedFacts ==
    ASSUME NEW F, GoodFree(F), Coalesced(F), mode # LRU => F = {},
           NEW o \in Nat, NEW a \in Nat, NEW r \in Nat, a > 0, a <= r,
           GoodSpan([off |-> o, size |-> CcAlign(r)]),
           Clear([off |-> o, size |-> CcAlign(r)], F)
    PROVE  LET G   == TrimmedList(F, o, a, r)
               cut == [off |-> o, size |-> CcAlign(a)]
           IN  /\ GoodFree(G) /\ Coalesced(G) /\ (mode # LRU => G = {})
               /\ GoodSpan(cut) /\ Clear(cut, G)
               /\ \A t \in Span :
                     /\ t.size > 0
                     /\ Clear(t, F)
                     /\ Apart([off |-> o, size |-> CcAlign(r)], t)
                     => Clear(t, G) /\ Apart(cut, t)
<1> DEFINE G    == TrimmedList(F, o, a, r)
           cut  == [off |-> o, size |-> CcAlign(a)]
           tail == CcAlign(r) - CcAlign(a)
           at   == o + CcAlign(a)
<1>1. /\ CcAlign(a) \in Nat /\ CcAlign(r) \in Nat /\ CcAlign(a) <= CcAlign(r)
      /\ CcAlign(a) > 0 /\ Aligned(CcAlign(a)) /\ Aligned(CcAlign(r)) /\ Cap \in Nat
  BY CcAlignFacts, CcAlignMonotone, CapFacts
<1>2. Aligned(o) /\ o + CcAlign(r) <= Cap
  BY DEF GoodSpan
<1>3. GoodSpan(cut)
  BY <1>1, <1>2 DEF GoodSpan, Span
<1>4. Clear(cut, F)
  <2>1. \A f \in F : f.off \in Nat /\ f.size \in Nat
    BY DEF GoodFree, GoodSpan, Span
  <2> QED BY <1>1, <2>1 DEF Clear, Apart
<1>5. \A t \in Span : Apart([off |-> o, size |-> CcAlign(r)], t) => Apart(cut, t)
  BY <1>1 DEF Apart, Span
<1>6. CASE ~ (mode = LRU /\ CcAlign(r) > CcAlign(a))
  <2>1. G = F
    BY <1>6 DEF TrimmedList
  <2> QED BY <1>3, <1>4, <1>5, <2>1, <1>6
<1>7. CASE mode = LRU /\ CcAlign(r) > CcAlign(a)
  <2>1. /\ tail \in Nat /\ tail > 0 /\ Aligned(tail) /\ CcAlign(tail) = tail
        /\ at \in Nat /\ Aligned(at)
    <3>1. tail \in Nat /\ tail > 0 /\ at \in Nat
      BY <1>1, <1>7
    <3>2. Aligned(tail) /\ Aligned(at)
      BY <1>1, <1>2, AlignedSums
    <3> QED BY <3>1, <3>2, CcAlignFacts
  <2>2. G = LruFree(F, at, tail)
    BY <1>7 DEF TrimmedList
  <2> DEFINE back == [off |-> at, size |-> CcAlign(tail)]
  <2>3. GoodSpan(back)
    BY <1>1, <1>2, <2>1 DEF GoodSpan, Span
  <2>4. Clear(back, F)
    <3>1. \A f \in F : f.off \in Nat /\ f.size \in Nat
      BY DEF GoodFree, GoodSpan, Span
    <3> QED BY <1>1, <2>1, <3>1 DEF Clear, Apart
  <2>5. Apart(back, cut)
    BY <1>1, <2>1 DEF Apart
  <2>6. \A t \in Span : Apart([off |-> o, size |-> CcAlign(r)], t) => Apart(back, t)
    BY <1>1, <2>1 DEF Apart, Span
  <2> HIDE DEF G, cut, back, tail, at
  <2>7. /\ GoodFree(G) /\ Coalesced(G)
        /\ \A t \in Span : t.size > 0 /\ Clear(t, F) /\ Apart(back, t) => Clear(t, G)
    BY <2>1, <2>2, <2>3, <2>4, LruFreeFacts DEF back
  <2>8. cut \in Span /\ cut.size > 0
    BY <1>3 DEF GoodSpan
  <2>9. Clear(cut, G)
    BY <1>4, <2>5, <2>7, <2>8
  <2>10. \A t \in Span : /\ t.size > 0
                         /\ Clear(t, F)
                         /\ Apart([off |-> o, size |-> CcAlign(r)], t)
                         => Clear(t, G) /\ Apart(cut, t)
    BY <1>5, <2>6, <2>7
  <2> QED BY <1>3, <1>7, <2>7, <2>9, <2>10 DEF G, cut
<1> QED BY <1>6, <1>7

\* The fresh arena of codecache_init and codecache_reset.
LEMMA WholeArenaFacts ==
    /\ GoodFree(WholeArena) /\ Coalesced(WholeArena)
    /\ mode # LRU => WholeArena = {}
<1>1. 0 \in Nat /\ Aligned(0)
  BY DEF Aligned
<1> QED BY <1>1, CapFacts
        DEF WholeArena, GoodFree, GoodSpan, Coalesced, Span, HdrSize, Apart

-----------------------------------------------------------------------------
(* The inductive invariant *)

\* The footprint of the reservation being emitted into.
Held == [off |-> open, size |-> CcAlign(req)]

FreeInv == GoodFree(free) /\ Coalesced(free) /\ (mode # LRU => free = {})

LiveInv ==
    /\ \A s \in live : /\ s.size > 0
                       /\ GoodSpan(Footprint(s))
                       /\ Clear(Footprint(s), free)
    /\ \A s, t \in live : s # t => Apart(Footprint(s), Footprint(t))

EmitInv ==
    /\ phase # "idle" => req > 0
    /\ phase = "emit" => /\ GoodSpan(Held)
                         /\ Clear(Held, free)
                         /\ \A s \in live : Apart(Footprint(s), Held)

CursorInv ==
    /\ mode = FIFO => Aligned(used)
    /\ mode = BUMP =>
          \A s \in live : /\ s.off + CcAlign(s.size) <= CcAlign(used)
                          /\ phase = "emit" => /\ s.off + CcAlign(s.size) <= open
                                               /\ open <= used

Inv == TypeOK /\ FreeInv /\ LiveInv /\ EmitInv /\ CursorInv

\* The footprint of a span starts with it and is at least as long.
LEMMA FootprintFacts ==
    ASSUME NEW s \in Span
    PROVE  /\ Footprint(s) \in Span
           /\ Footprint(s).off = s.off /\ Footprint(s).size = CcAlign(s.size)
           /\ s.size > 0 => Footprint(s).size > 0
BY CcAlignFacts DEF Footprint, Span

\* A fresh code cache satisfies the invariant.
LEMMA InitInv == Init => Inv
<1> SUFFICES ASSUME Init PROVE Inv
  OBVIOUS
<1>1. FreeInv
  BY WholeArenaFacts DEF Init, FreeInv
<1>2. TypeOK
  BY <1>1 DEF Init, TypeOK, FreeInv, GoodFree, GoodSpan
<1>3. LiveInv /\ EmitInv /\ CursorInv
  BY DEF Init, LiveInv, EmitInv, CursorInv, Aligned
<1> QED BY <1>1, <1>2, <1>3 DEF Inv

\* The live blocks stay well formed when some of them go and the free list
\* grows only by spans they are clear of.
LEMMA LiveShrinks ==
    ASSUME LiveInv, live' \subseteq live,
           \A s \in live' : Clear(Footprint(s), free')
    PROVE  LiveInv'
BY DEF LiveInv, Footprint

\* Every step of the code cache preserves the invariant.
LEMMA NextInv == Inv /\ [Next]_vars => Inv'
<1> SUFFICES ASSUME Inv, [Next]_vars
             PROVE  Inv'
  OBVIOUS
<1> USE DEF Inv
<1>0. /\ used \in Nat /\ open \in Nat /\ req \in Nat /\ Cap \in Nat /\ Aligned(Cap)
      /\ live \subseteq Span /\ free \subseteq Span
  BY CapFacts DEF TypeOK
<1>m. mode' = mode /\ mode \in {BUMP, LRU, FIFO}
  BY ModeAssumption DEF TypeOK, Next, vars, Alloc, LruAllocTake, LruAllocEvict,
     LruAllocNull, FifoAllocTake, FifoAllocNull, BumpAllocTake, BumpAllocNull,
     Finish, FinishNoDescriptor, Overflow, Drop, Reset
<1> USE <1>m
<1>f. FreeInv' => free' \subseteq Span
  BY DEF FreeInv, GoodFree, GoodSpan
<1>1. ASSUME NEW size \in Reserves, Alloc(size)
      PROVE  Inv'
  <2>1. size \in Nat /\ size > 0
    BY ReservesAssumption
  <2>2. UNCHANGED <<used, free, live, open>> /\ phase' = "alloc" /\ req' = size
    BY <1>1 DEF Alloc
  <2>3. TypeOK' /\ FreeInv' /\ EmitInv' /\ CursorInv'
    BY <2>1, <2>2 DEF TypeOK, FreeInv, EmitInv, CursorInv
  <2>4. LiveInv'
    BY <2>2, LiveShrinks DEF LiveInv
  <2> QED BY <2>3, <2>4
<1>2. ASSUME LruAllocTake
      PROVE  Inv'
  <2>1. /\ phase = "alloc" /\ mode = LRU /\ phase' = "emit" /\ req > 0
        /\ UNCHANGED <<used, live, req>> /\ LruSize(req) = CcAlign(req)
    BY <1>2, <1>0, LruSizeFacts DEF LruAllocTake, EmitInv
  <2>2. PICK s \in FirstFit(free, CcAlign(req)) :
           free' = Carve(free, s, CcAlign(req)) /\ open' = s.off
    BY <1>2, <2>1 DEF LruAllocTake
  <2>3. Held' = [off |-> s.off, size |-> CcAlign(req)]
    BY <2>1, <2>2 DEF Held
  <2>4. /\ GoodFree(free') /\ Coalesced(free') /\ GoodSpan(Held') /\ Clear(Held', free')
        /\ \A t \in Span : Clear(t, free) => Clear(t, free') /\ Apart(Held', t)
    <3> HIDE DEF Inv
    <3>1. GoodFree(free) /\ Coalesced(free)
      BY DEF FreeInv, Inv
    <3> QED BY <1>0, <2>1, <2>2, <2>3, <3>1, CarveFacts
  <2>5. FreeInv'
    BY <2>1, <2>4 DEF FreeInv
  <2>6. LiveInv'
    BY <1>0, <2>1, <2>4, LiveShrinks, FootprintFacts DEF LiveInv
  <2>7. \A t \in live' : Apart(Footprint(t)', Held')
    BY <1>0, <2>1, <2>4, FootprintFacts DEF LiveInv, Apart, Footprint
  <2>8. EmitInv'
    BY <2>1, <2>4, <2>7 DEF EmitInv
  <2>9. TypeOK' /\ CursorInv'
    BY <1>f, <2>1, <2>2, <2>5, <1>0 DEF TypeOK, CursorInv, FirstFit, Span, LRU, FIFO, BUMP
  <2> QED BY <2>5, <2>6, <2>8, <2>9
<1>3. ASSUME NEW victim \in live, LruAllocEvict(victim)
      PROVE  Inv'
  <2>1. /\ phase = "alloc" /\ mode = LRU
        /\ live' = live \ {victim}
        /\ free' = LruFree(free, victim.off, victim.size)
        /\ UNCHANGED <<used, phase, open, req>>
    BY <1>3 DEF LruAllocEvict
  <2>2. /\ victim \in Span /\ victim.off \in Nat /\ victim.size \in Nat /\ victim.size > 0
        /\ GoodSpan([off |-> victim.off, size |-> CcAlign(victim.size)])
        /\ Clear([off |-> victim.off, size |-> CcAlign(victim.size)], free)
    BY <1>0 DEF LiveInv, Footprint, Span
  <2>3. /\ GoodFree(free') /\ Coalesced(free')
        /\ \A t \in Span : t.size > 0 /\ Clear(t, free) /\ Apart(Footprint(victim), t)
                           => Clear(t, free')
    BY <2>1, <2>2, LruFreeFacts DEF FreeInv, Footprint
  <2>4. FreeInv'
    BY <2>1, <2>3 DEF FreeInv
  <2>5. \A t \in live' : Clear(Footprint(t), free')
    BY <1>0, <2>1, <2>3, FootprintFacts DEF LiveInv
  <2>6. LiveInv'
    BY <2>1, <2>5, LiveShrinks
  <2>7. TypeOK' /\ EmitInv' /\ CursorInv'
    BY <1>f, <2>1, <2>4 DEF TypeOK, EmitInv, CursorInv, LRU, FIFO, BUMP
  <2> QED BY <2>4, <2>6, <2>7
<1>4. ASSUME LruAllocNull \/ FifoAllocNull
      PROVE  Inv'
  <2>1. phase' = "idle" /\ open' = 0 /\ req' = 0 /\ UNCHANGED <<used, free, live>>
    BY <1>4 DEF LruAllocNull, FifoAllocNull, Idle
  <2>2. LiveInv'
    BY <2>1, LiveShrinks DEF LiveInv
  <2> QED BY <2>1, <2>2 DEF TypeOK, FreeInv, EmitInv, CursorInv
<1>5. ASSUME FifoAllocTake
      PROVE  Inv'
  <2> DEFINE size  == CcAlign(req)
             start == FifoStart(used, size)
  <2>1. /\ phase = "alloc" /\ mode = FIFO /\ size <= Cap /\ req > 0
        /\ live' = {s \in live : ~ Overlaps(s, start, start + size)}
        /\ open' = start /\ used' = start + size
        /\ phase' = "emit" /\ UNCHANGED <<free, req>>
    BY <1>5 DEF FifoAllocTake, EmitInv
  <2>2. size \in Nat /\ size > 0 /\ Aligned(size)
    BY <1>0, <2>1, CcAlignFacts
  <2>3. Aligned(used)
    BY <2>1 DEF CursorInv
  <2>4. start \in Nat /\ Aligned(start) /\ start + size <= Cap
    <3>1. Aligned(0)
      BY DEF Aligned
    <3>2. start = 0 \/ (start = used /\ used + size <= Cap)
      BY <1>0, <2>2 DEF FifoStart
    <3> QED BY <1>0, <2>1, <2>2, <2>3, <3>1, <3>2
  <2>5. Aligned(start + size)
    BY <2>2, <2>3, <2>4, AlignedSums
  <2>6. free = {} /\ free' = {}
    BY <2>1 DEF FreeInv, LRU, FIFO
  <2> HIDE DEF size, start
  <2>7. Held' = [off |-> start, size |-> size]
    BY <2>1 DEF Held, size
  <2>8. GoodSpan(Held')
    BY <1>0, <2>2, <2>4, <2>7 DEF GoodSpan, Span
  <2>9. LiveInv'
    BY <2>1, <2>6, LiveShrinks DEF Clear
  <2>10. ASSUME NEW t \in live' PROVE Apart(Footprint(t), Held')
    <3>1. t \in live /\ ~ (t.off < start + size /\ t.off + t.size > start)
      BY <2>1 DEF Overlaps
    <3>2. t.off \in Nat /\ t.size \in Nat /\ Aligned(t.off) /\ CcAlign(t.size) \in Nat
      BY <1>0, <3>1, CcAlignFacts DEF LiveInv, GoodSpan, Footprint, Span
    <3>3. CASE start + size <= t.off
      BY <2>7, <3>3 DEF Apart, Footprint
    <3>4. CASE t.off + t.size <= start
      <4>1. t.off + CcAlign(t.size) <= start
        BY <2>4, <3>2, <3>4, CcAlignLeast
      <4> QED BY <2>7, <4>1 DEF Apart, Footprint
    <3> QED BY <2>2, <2>4, <3>1, <3>2, <3>3, <3>4
  <2>11. EmitInv'
    BY <2>1, <2>6, <2>8, <2>10 DEF EmitInv, Clear, Footprint
  <2>12. TypeOK' /\ FreeInv' /\ CursorInv'
    BY <1>0, <2>1, <2>2, <2>4, <2>5, <2>6
       DEF TypeOK, FreeInv, CursorInv, GoodFree, Coalesced, FIFO, BUMP
  <2> QED BY <2>9, <2>11, <2>12
<1>6. ASSUME BumpAllocTake
      PROVE  Inv'
  <2>1. /\ phase = "alloc" /\ mode = BUMP /\ req > 0
        /\ CcAlign(used) + req <= Cap
        /\ open' = CcAlign(used) /\ used' = CcAlign(used) + req
        /\ phase' = "emit" /\ UNCHANGED <<free, live, req>>
    BY <1>6 DEF BumpAllocTake, EmitInv
  <2>2. /\ CcAlign(used) \in Nat /\ Aligned(CcAlign(used))
        /\ CcAlign(req) \in Nat /\ CcAlign(req) > 0 /\ Aligned(CcAlign(req))
    BY <1>0, <2>1, CcAlignFacts
  <2>3. CcAlign(used) + CcAlign(req) <= Cap
    BY <1>0, <2>1, <2>2, CcAlignLeast
  <2>4. Held' = [off |-> CcAlign(used), size |-> CcAlign(req)]
    BY <2>1 DEF Held
  <2>5. GoodSpan(Held')
    BY <1>0, <2>2, <2>3, <2>4 DEF GoodSpan, Span
  <2>6. free = {} /\ free' = {}
    BY <2>1 DEF FreeInv, LRU, BUMP
  <2>7. LiveInv'
    BY <2>1, <2>6, LiveShrinks DEF Clear
  <2>8. \A s \in live' : s.off + CcAlign(s.size) <= CcAlign(used)
    BY <2>1 DEF CursorInv
  <2>9. \A s \in live' : Apart(Footprint(s), Held')
    BY <2>4, <2>8 DEF Apart, Footprint
  <2>10. EmitInv'
    BY <2>1, <2>5, <2>6, <2>9 DEF EmitInv, Clear, Footprint
  <2>11. CcAlign(used) <= CcAlign(used') /\ CcAlign(used) <= used'
    <3>1. used' \in Nat /\ CcAlign(used) <= used'
      BY <1>0, <2>1, <2>2
    <3> QED BY <3>1, <2>2, CcAlignFacts
  <2>12. CursorInv'
    <3>1. \A s \in live' : s.off + CcAlign(s.size) \in Nat
      BY <1>0, <2>1, CcAlignFacts DEF Span
    <3>2. CcAlign(used') \in Nat
      BY <1>0, <2>1, <2>2, CcAlignFacts
    <3> QED BY <2>1, <2>2, <2>8, <2>11, <3>1, <3>2 DEF CursorInv, BUMP, FIFO
  <2>13. TypeOK' /\ FreeInv'
    BY <1>0, <2>1, <2>2, <2>6 DEF TypeOK, FreeInv
  <2> QED BY <2>7, <2>10, <2>12, <2>13
<1>7. ASSUME BumpAllocNull
      PROVE  Inv'
  <2>1. /\ used' = CcAlign(used) /\ UNCHANGED <<free, live>>
        /\ phase' = "idle" /\ open' = 0 /\ req' = 0
    BY <1>7 DEF BumpAllocNull, Idle
  <2>2. CcAlign(used) \in Nat /\ Aligned(used') /\ CcAlign(used') = CcAlign(used)
    BY <1>0, <2>1, CcAlignFacts
  <2>3. LiveInv'
    BY <2>1, LiveShrinks DEF LiveInv
  <2> QED BY <2>1, <2>2, <2>3 DEF TypeOK, FreeInv, EmitInv, CursorInv
<1>8. ASSUME NEW actual \in Actuals, Finish(actual)
      PROVE  Inv'
  <2> DEFINE new == [off |-> open, size |-> actual]
  <2>1. /\ phase = "emit" /\ actual <= req
        /\ live' = live \cup {new}
        /\ free' = TrimmedList(free, open, actual, req)
        /\ used' = TrimmedCursor(used, open, actual)
        /\ phase' = "idle" /\ open' = 0 /\ req' = 0
    BY <1>8 DEF Finish, Idle
  <2>2. actual \in Nat /\ actual > 0
    BY ActualsAssumption
  <2>3. /\ GoodSpan([off |-> open, size |-> CcAlign(req)])
        /\ Clear([off |-> open, size |-> CcAlign(req)], free)
        /\ \A s \in live : Apart(Footprint(s), Held)
    BY <2>1 DEF EmitInv, Held
  <2>4. Footprint(new) = [off |-> open, size |-> CcAlign(actual)]
    BY DEF Footprint
  <2>5. /\ GoodFree(free') /\ Coalesced(free') /\ (mode # LRU => free' = {})
        /\ GoodSpan(Footprint(new)) /\ Clear(Footprint(new), free')
        /\ \A t \in Span : t.size > 0 /\ Clear(t, free) /\ Apart(Held, t)
                           => Clear(t, free') /\ Apart(Footprint(new), t)
    BY <1>0, <2>1, <2>2, <2>3, <2>4, TrimmedFacts DEF FreeInv, Held
  <2>6. \A s \in live : Clear(Footprint(s), free') /\ Apart(Footprint(new), Footprint(s))
    BY <1>0, <2>3, <2>5, FootprintFacts DEF LiveInv, Apart
  <2>7. LiveInv'
    <3> HIDE DEF new
    <3>1. \A s \in live' : /\ s.size > 0
                           /\ GoodSpan(Footprint(s))
                           /\ Clear(Footprint(s), free')
      BY <2>1, <2>2, <2>5, <2>6 DEF LiveInv, new
    <3>2. \A s, t \in live' : s # t => Apart(Footprint(s), Footprint(t))
      BY <2>1, <2>6 DEF LiveInv, Apart
    <3> QED BY <3>1, <3>2 DEF LiveInv, Footprint
  <2>8. FreeInv' /\ EmitInv'
    BY <2>1, <2>5 DEF FreeInv, EmitInv
  <2>9. CcAlign(actual) \in Nat /\ Aligned(CcAlign(actual)) /\ Aligned(open)
    BY <2>2, <2>3, CcAlignFacts DEF GoodSpan
  <2>10. TypeOK'
    BY <1>0, <1>f, <2>1, <2>2, <2>8, <2>9 DEF TypeOK, TrimmedCursor, Span
  <2>11. CursorInv'
    <3>1. CASE mode = FIFO
      BY <1>0, <3>1, <2>1, <2>9, AlignedSums DEF CursorInv, TrimmedCursor, FIFO, BUMP, LRU
    <3>2. CASE mode = BUMP
      <4>1. used' = open + CcAlign(actual)
        BY <3>2, <2>1 DEF TrimmedCursor, BUMP, LRU
      <4>2. CcAlign(used') = used' /\ used' \in Nat
        BY <1>0, <4>1, <2>9, AlignedSums, CcAlignFacts
      <4>3. \A s \in live : s.off + CcAlign(s.size) <= open /\ s.off + CcAlign(s.size) \in Nat
        BY <1>0, <3>2, <2>1, CcAlignFacts DEF CursorInv, Span
      <4> QED BY <1>0, <2>1, <2>9, <3>2, <4>1, <4>2, <4>3 DEF CursorInv, FIFO, BUMP
    <3>3. CASE mode = LRU
      BY <3>3 DEF CursorInv, LRU, FIFO, BUMP
    <3> QED BY <3>1, <3>2, <3>3
  <2> QED BY <2>7, <2>8, <2>10, <2>11
<1>9. ASSUME NEW actual \in Actuals, FinishNoDescriptor(actual)
      PROVE  Inv'
  <2> DEFINE cut  == [off |-> open, size |-> CcAlign(actual)]
             trim == TrimmedList(free, open, actual, req)
  <2>1. /\ phase = "emit" /\ actual <= req
        /\ free' = FreedList(trim, open, actual)
        /\ used' = TrimmedCursor(used, open, actual)
        /\ phase' = "idle" /\ open' = 0 /\ req' = 0 /\ live' = live
    BY <1>9 DEF FinishNoDescriptor, Idle
  <2>2. actual \in Nat /\ actual > 0
    BY ActualsAssumption
  <2>3. /\ GoodSpan([off |-> open, size |-> CcAlign(req)])
        /\ Clear([off |-> open, size |-> CcAlign(req)], free)
        /\ \A s \in live : Apart(Footprint(s), Held)
    BY <2>1 DEF EmitInv, Held
  <2> HIDE DEF cut, trim
  <2>4. /\ GoodFree(trim) /\ Coalesced(trim) /\ (mode # LRU => trim = {})
        /\ GoodSpan(cut) /\ Clear(cut, trim)
        /\ \A t \in Span : t.size > 0 /\ Clear(t, free) /\ Apart(Held, t)
                           => Clear(t, trim) /\ Apart(cut, t)
    BY <1>0, <2>1, <2>2, <2>3, TrimmedFacts DEF FreeInv, Held, cut, trim
  <2>5. /\ GoodFree(free') /\ Coalesced(free') /\ (mode # LRU => free' = {})
        /\ \A t \in Span : t.size > 0 /\ Clear(t, trim) /\ Apart(cut, t) => Clear(t, free')
    BY <1>0, <2>1, <2>2, <2>4, FreedFacts DEF cut
  <2>6. \A s \in live : Clear(Footprint(s), free')
    BY <1>0, <2>3, <2>4, <2>5, FootprintFacts DEF LiveInv, Apart
  <2>7. LiveInv'
    BY <2>1, <2>6, LiveShrinks
  <2>8. FreeInv' /\ EmitInv'
    BY <2>1, <2>5 DEF FreeInv, EmitInv
  <2>9. CcAlign(actual) \in Nat /\ Aligned(CcAlign(actual)) /\ Aligned(open)
    BY <2>2, <2>3, CcAlignFacts DEF GoodSpan
  <2>10. TypeOK'
    BY <1>0, <1>f, <2>1, <2>2, <2>8, <2>9 DEF TypeOK, TrimmedCursor
  <2>11. CursorInv'
    <3>1. CASE mode = FIFO
      BY <1>0, <3>1, <2>1, <2>9, AlignedSums DEF CursorInv, TrimmedCursor, FIFO, BUMP, LRU
    <3>2. CASE mode = BUMP
      <4>1. used' = open + CcAlign(actual)
        BY <3>2, <2>1 DEF TrimmedCursor, BUMP, LRU
      <4>2. CcAlign(used') = used' /\ used' \in Nat
        BY <1>0, <4>1, <2>9, AlignedSums, CcAlignFacts
      <4>3. \A s \in live : s.off + CcAlign(s.size) <= open /\ s.off + CcAlign(s.size) \in Nat
        BY <1>0, <3>2, <2>1, CcAlignFacts DEF CursorInv, Span
      <4> QED BY <1>0, <2>1, <2>9, <3>2, <4>1, <4>2, <4>3 DEF CursorInv, FIFO, BUMP
    <3>3. CASE mode = LRU
      BY <3>3 DEF CursorInv, LRU, FIFO, BUMP
    <3> QED BY <3>1, <3>2, <3>3
  <2> QED BY <2>7, <2>8, <2>10, <2>11
<1>10. ASSUME Overflow
       PROVE  Inv'
  <2>1. /\ phase = "emit" /\ free' = FreedList(free, open, req)
        /\ phase' = "idle" /\ open' = 0 /\ req' = 0 /\ UNCHANGED <<used, live>>
    BY <1>10 DEF Overflow, Idle
  <2>2. /\ GoodSpan([off |-> open, size |-> CcAlign(req)]) /\ req > 0
        /\ Clear([off |-> open, size |-> CcAlign(req)], free)
        /\ \A s \in live : Apart(Footprint(s), Held)
    BY <2>1 DEF EmitInv, Held
  <2>3. /\ GoodFree(free') /\ Coalesced(free') /\ (mode # LRU => free' = {})
        /\ \A t \in Span : t.size > 0 /\ Clear(t, free) /\ Apart(Held, t) => Clear(t, free')
    BY <1>0, <2>1, <2>2, FreedFacts DEF FreeInv, Held
  <2>4. \A s \in live : Clear(Footprint(s), free')
    BY <1>0, <2>2, <2>3, FootprintFacts DEF LiveInv, Apart
  <2>5. LiveInv'
    BY <2>1, <2>4, LiveShrinks
  <2>6. FreeInv' /\ EmitInv'
    BY <2>1, <2>3 DEF FreeInv, EmitInv
  <2>7. TypeOK' /\ CursorInv'
    BY <1>f, <2>1, <2>6 DEF TypeOK, CursorInv
  <2> QED BY <2>5, <2>6, <2>7
<1>11. ASSUME NEW spans \in SUBSET live, Drop(spans)
       PROVE  Inv'
  <2>1. live' \subseteq live /\ UNCHANGED <<used, free, phase, open, req>> /\ phase = "idle"
    BY <1>11 DEF Drop
  <2>2. LiveInv'
    BY <2>1, LiveShrinks DEF LiveInv
  <2> QED BY <2>1, <2>2 DEF TypeOK, FreeInv, EmitInv, CursorInv
<1>12. ASSUME Reset
       PROVE  Inv'
  <2>1. /\ phase = "idle" /\ used' = 0 /\ free' = WholeArena /\ live' = {}
        /\ UNCHANGED <<phase, open, req>>
    BY <1>12 DEF Reset
  <2>2. FreeInv'
    BY <2>1, WholeArenaFacts DEF FreeInv
  <2> QED BY <1>f, <2>1, <2>2 DEF TypeOK, LiveInv, EmitInv, CursorInv, Aligned
<1>13. ASSUME UNCHANGED vars
       PROVE  Inv'
  BY <1>13 DEF vars, TypeOK, FreeInv, LiveInv, EmitInv, CursorInv, Held, Footprint
<1> QED
  BY <1>1, <1>2, <1>3, <1>4, <1>5, <1>6, <1>7, <1>8, <1>9, <1>10, <1>11, <1>12, <1>13
     DEF Next

-----------------------------------------------------------------------------
(* The theorems *)

\* The strengthened invariant holds in every reachable state.
THEOREM Invariance == Spec => []Inv
BY InitInv, NextInv, PTL DEF Spec

\* The state of the code cache is always well formed.
THEOREM TypeCorrect == Spec => []TypeOK
<1>1. Inv => TypeOK
  BY DEF Inv
<1> QED BY <1>1, Invariance, PTL

\* What the five safety invariants say follows from Inv.
LEMMA InvSafe ==
    Inv => /\ SpansDisjoint /\ FreeListApart /\ InsideArena /\ FullyCoalesced
<1> SUFFICES ASSUME Inv
             PROVE  SpansDisjoint /\ FreeListApart /\ InsideArena /\ FullyCoalesced
  OBVIOUS
<1> USE DEF Inv
<1>1. \A r \in Reserved : phase = "emit" /\ r \in Span /\ Footprint(r) = Held
  BY DEF Reserved, Footprint, Held, TypeOK, Span
<1>2. \A r, q \in Reserved : r = q
  BY DEF Reserved
<1>3. \A s \in live, r \in Reserved : /\ Apart(Footprint(s), Footprint(r))
                                      /\ Apart(Footprint(r), Footprint(s))
  BY <1>1 DEF EmitInv, Apart
<1>4. SpansDisjoint
  BY <1>2, <1>3 DEF SpansDisjoint, LiveInv
<1>5. \A t \in Taken : GoodSpan(t) /\ Clear(t, free)
  BY <1>1 DEF Taken, LiveInv, EmitInv
<1>6. FreeListApart
  BY <1>5 DEF FreeListApart, FreeInv, GoodFree, Clear
<1>7. InsideArena
  BY <1>5 DEF InsideArena, FreeInv, GoodFree, GoodSpan
<1>8. FullyCoalesced
  BY DEF FullyCoalesced, FreeInv, Coalesced
<1> QED BY <1>4, <1>6, <1>7, <1>8

\* No two cached blocks, and no block and the reservation being emitted
\* into, ever share a byte of the arena.
THEOREM SpansNeverOverlap == Spec => []SpansDisjoint
BY InvSafe, Invariance, PTL

\* The headers lru_free writes into free spans never land in compiled code.
THEOREM HeadersNeverInCode == Spec => []FreeListApart
BY InvSafe, Invariance, PTL

\* Nothing the allocator hands out or lists runs past the arena.
THEOREM AlwaysInsideArena == Spec => []InsideArena
BY InvSafe, Invariance, PTL

\* lru_free always leaves a fully coalesced free list.
THEOREM AlwaysCoalesced == Spec => []FullyCoalesced
BY InvSafe, Invariance, PTL

\* All five together: the arena is always sound, for every size of it and
\* every set of block sizes, under all three policies.
THEOREM HeapAlwaysSound == Spec => []HeapSound
<1>1. Inv => HeapSound
  BY InvSafe DEF Inv, HeapSound
<1> QED BY <1>1, Invariance, PTL

-----------------------------------------------------------------------------
(* Refinement: the code cache implements Arena *)

\* The footprints of the cached blocks.
Prints(spans) == {Footprint(s) : s \in spans}

\* The footprints once a span has joined.
LEMMA PrintsJoin ==
    \A spans, r : Prints(spans \cup {r}) = Prints(spans) \cup {Footprint(r)}
BY DEF Prints

\* The arena's view of the state, outside and inside an emission.
LEMMA TakenSplit ==
    /\ phase # "emit" => Taken = Prints(live)
    /\ phase = "emit" => Taken = Prints(live) \cup {Held}
<1>1. Taken = Prints(live \cup Reserved)
  BY DEF Taken, Prints
<1>2. CASE phase # "emit"
  <2>1. live \cup Reserved = live
    BY <1>2 DEF Reserved
  <2> QED BY <1>1, <1>2, <2>1
<1>3. CASE phase = "emit"
  <2>1. Reserved = {[off |-> open, size |-> req]}
    BY <1>3 DEF Reserved
  <2>2. Prints(live \cup {[off |-> open, size |-> req]}) = Prints(live) \cup {Held}
    <3>1. Held = Footprint([off |-> open, size |-> req])
      BY DEF Held, Footprint
    <3> QED BY <3>1, PrintsJoin
  <2> QED BY <1>1, <1>3, <2>1, <2>2, Zenon
<1> QED BY <1>2, <1>3

\* The same of the next state.
LEMMA TakenSplitNext ==
    /\ phase' # "emit" => Taken' = Prints(live')
    /\ phase' = "emit" => Taken' = Prints(live') \cup {Held'}
<1>1. Taken' = Prints(live' \cup Reserved')
  BY DEF Taken, Prints, Footprint
<1>2. CASE phase' # "emit"
  <2>1. live' \cup Reserved' = live'
    BY <1>2 DEF Reserved
  <2> QED BY <1>1, <1>2, <2>1
<1>3. CASE phase' = "emit"
  <2>1. Reserved' = {[off |-> open', size |-> req']}
    BY <1>3 DEF Reserved
  <2>2. Held' = [off |-> open', size |-> CcAlign(req')]
    BY DEF Held
  <2>3. Prints(live' \cup {[off |-> open', size |-> req']}) = Prints(live') \cup {Held'}
    <3>1. Held' = Footprint([off |-> open', size |-> req'])
      BY <2>2 DEF Footprint
    <3> QED BY <3>1, PrintsJoin
  <2> QED BY <1>1, <1>3, <2>1, <2>3, Zenon
<1> QED BY <1>2, <1>3

\* Spans are taken away, or nothing changes, when live only shrinks and no
\* reservation begins.
LEMMA RevokeStep ==
    ASSUME live' \subseteq live, phase' = "emit" => phase = "emit" /\ Held' = Held
    PROVE  Promise!Revoke
<1>1. Prints(live') \subseteq Prints(live)
  BY DEF Prints
<1>2. Taken' \subseteq Taken
  BY <1>1, TakenSplit, TakenSplitNext
<1> QED BY <1>2 DEF Promise!Revoke

\* Every step of the code cache is a step of Arena or leaves it unchanged.
LEMMA NextRefines ==
    Inv /\ Inv' /\ [Next]_vars => [Promise!Next]_Taken
<1> SUFFICES ASSUME Inv, Inv', [Next]_vars
             PROVE  Promise!Revoke \/ Promise!Grant \/ Promise!Shorten
  BY DEF Promise!Next
\* A reservation begins: it is granted clear of the blocks that stay.
<1>1. ASSUME phase' = "emit", live' \subseteq live, phase # "emit"
      PROVE  Promise!Grant
  <2>1. Taken' = Prints(live') \cup {Held'}
    BY <1>1, TakenSplitNext
  <2>2. Taken' \ {Held'} \subseteq Taken
    BY <1>1, <2>1, TakenSplit DEF Prints
  <2>3. GoodSpan(Held)' /\ \A s \in live' : Apart(Footprint(s), Held')
    BY <1>1 DEF Inv, EmitInv, Footprint
  <2>4. Held'.off >= 0 /\ Held'.off + Held'.size <= Cap
    BY <2>3 DEF GoodSpan, Span
  <2>5. \A t \in Taken' \ {Held'} : Promise!Separate(Held', t)
    BY <2>1, <2>3 DEF Promise!Separate, Apart, Prints
  <2> QED BY <2>1, <2>2, <2>4, <2>5 DEF Promise!Grant
<1>2. ASSUME NEW actual \in Actuals, Finish(actual)
      PROVE  Promise!Shorten
  <2> DEFINE new == [off |-> open, size |-> actual]
  <2>1. phase = "emit" /\ phase' = "idle" /\ actual <= req /\ live' = live \cup {new}
    BY <1>2 DEF Finish, Idle
  <2>2. /\ Taken = Prints(live) \cup {Held}
        /\ Taken' = Prints(live) \cup {Footprint(new)}
    <3>1. Taken = Prints(live) \cup {Held} /\ Taken' = Prints(live')
      BY <2>1, TakenSplit, TakenSplitNext
    <3>2. Prints(live \cup {new}) = Prints(live) \cup {Footprint(new)}
      BY PrintsJoin
    <3> QED BY <2>1, <3>1, <3>2
  <2>3. Held \notin Prints(live)
    <3>1. \A s \in live : Apart(Footprint(s), Held)
      BY <2>1 DEF Inv, EmitInv
    <3>2. Held.off \in Nat /\ Held.size \in Nat /\ Held.size > 0
      BY <2>1 DEF Inv, EmitInv, GoodSpan, Span
    <3>3. ~ Apart(Held, Held)
      BY <3>2 DEF Apart
    <3> QED BY <3>1, <3>3 DEF Prints
  <2>4. Footprint(new).off = Held.off /\ Footprint(new).size <= Held.size
    BY <2>1, CcAlignMonotone, ActualsAssumption DEF Footprint, Held, Inv, TypeOK
  <2>5. Taken' = (Taken \ {Held}) \cup {Footprint(new)}
    BY <2>2, <2>3
  <2> QED BY <2>2, <2>4, <2>5 DEF Promise!Shorten
<1>3. ASSUME NEW size \in Reserves, Alloc(size)
      PROVE  Promise!Revoke
  BY <1>3, RevokeStep DEF Alloc
<1>4. ASSUME LruAllocTake \/ FifoAllocTake \/ BumpAllocTake
      PROVE  Promise!Grant
  BY <1>1, <1>4 DEF LruAllocTake, FifoAllocTake, BumpAllocTake
<1>5. ASSUME NEW victim \in live, LruAllocEvict(victim)
      PROVE  Promise!Revoke
  BY <1>5, RevokeStep DEF LruAllocEvict
<1>6. ASSUME LruAllocNull \/ FifoAllocNull \/ BumpAllocNull \/ Overflow
      PROVE  Promise!Revoke
  BY <1>6, RevokeStep DEF LruAllocNull, FifoAllocNull, BumpAllocNull, Overflow, Idle
<1>7. ASSUME NEW actual \in Actuals, FinishNoDescriptor(actual)
      PROVE  Promise!Revoke
  BY <1>7, RevokeStep DEF FinishNoDescriptor, Idle
<1>8. ASSUME NEW spans \in SUBSET live, Drop(spans)
      PROVE  Promise!Revoke
  BY <1>8, RevokeStep DEF Drop
<1>9. ASSUME Reset
      PROVE  Promise!Revoke
  BY <1>9, RevokeStep DEF Reset
<1>10. ASSUME UNCHANGED vars
       PROVE  Promise!Revoke
  BY <1>10, RevokeStep DEF vars, Held
<1> QED
  BY <1>2, <1>3, <1>4, <1>5, <1>6, <1>7, <1>8, <1>9, <1>10 DEF Next

\* The code cache, under every policy, keeps the promise the compiler and
\* the dispatcher rely on.
THEOREM Refinement == Spec => ImplementsArena
<1>1. Init => Promise!Init
  BY DEF Init, Promise!Init, Taken, Reserved
<1> QED BY <1>1, Invariance, NextRefines, PTL DEF Spec, ImplementsArena, Promise!Spec

-----------------------------------------------------------------------------
(* No byte leaks: the history of CodeCacheHistory *)

Covered(spans, g) == \E s \in spans : Covers(s, g)

\* lru_free loses nothing: a byte of the list or of the span that is freed is
\* a byte of the list that results.
LEMMA LruFreeCovers ==
    ASSUME NEW F, GoodFree(F), NEW o \in Nat, NEW n \in Nat, n > 0,
           GoodSpan([off |-> o, size |-> CcAlign(n)]),
           NEW g \in Nat,
           Covered(F, g) \/ Covers([off |-> o, size |-> CcAlign(n)], g)
    PROVE  Covered(LruFree(F, o, n), g)
<1> DEFINE size   == LruSize(n)
           after  == {s \in NextSpan(F, o) : o + size = s.off}
           before == {s \in PrevSpan(F, o) : s.off + s.size = o}
           lo     == IF before = {} THEN o ELSE (CHOOSE s \in before : TRUE).off
           hi     == IF after = {} THEN o + size
                     ELSE LET s == CHOOSE s \in after : TRUE IN s.off + s.size
           merged == [off |-> lo, size |-> hi - lo]
<1>0. LruFree(F, o, n) = (F \ (before \cup after)) \cup {merged}
  BY Zenon DEF LruFree
<1>1. size = CcAlign(n) /\ size \in Nat
  BY LruSizeFacts, CcAlignFacts
<1>2. /\ \A s \in before : s \in F /\ s.off < o /\ s.off + s.size = o
      /\ \A s, t \in before : s.off <= t.off
      /\ \A s \in after : s \in F /\ o + size = s.off
  BY DEF PrevSpan, NextSpan
<1>3. \A s \in F : s.off \in Nat /\ s.size \in Nat /\ s.size > 0
  BY DEF GoodFree, GoodSpan, Span
<1>4. \/ before = {} /\ lo = o
      \/ \E s \in before : lo = s.off
  OBVIOUS
<1>5. \/ after = {} /\ hi = o + size
      \/ \E s \in after : hi = s.off + s.size
  OBVIOUS
<1> HIDE DEF before, after, lo, hi, size
<1>6. lo \in Nat /\ lo <= o /\ \A s \in before : lo = s.off
  BY <1>2, <1>3, <1>4
<1>7. hi \in Nat /\ o + size <= hi /\ \A s \in after : s.off + s.size <= hi
  <2>1. \A s, t \in after : s.size = t.size
    <3> SUFFICES ASSUME NEW s \in after, NEW t \in after, s # t PROVE FALSE
      OBVIOUS
    <3>1. Apart(s, t)
      BY <1>2 DEF GoodFree
    <3> QED BY <1>1, <1>2, <1>3, <3>1 DEF Apart
  <2> QED BY <1>1, <1>2, <1>3, <1>5, <2>1
<1>8. merged.off = lo /\ merged.size = hi - lo
  OBVIOUS
<1>9. ASSUME lo <= g, g < hi
      PROVE  Covered(LruFree(F, o, n), g)
  <2>1. Covers(merged, g)
    BY <1>6, <1>7, <1>9 DEF Covers
  <2> QED BY <1>0, <2>1 DEF Covered
<1>10. CASE Covers([off |-> o, size |-> CcAlign(n)], g)
  <2>1. o <= g /\ g < o + size
    BY <1>1, <1>10 DEF Covers
  <2> QED BY <1>1, <1>6, <1>7, <1>9, <2>1
<1>11. CASE Covered(F, g)
  <2>1. PICK s \in F : s.off <= g /\ g < s.off + s.size
    BY <1>11 DEF Covered, Covers
  <2>2. CASE s \in before
    BY <1>1, <1>2, <1>3, <1>6, <1>7, <1>9, <2>1, <2>2
  <2>3. CASE s \in after
    BY <1>1, <1>2, <1>3, <1>6, <1>7, <1>9, <2>1, <2>3
  <2>4. CASE s \notin before \cup after
    BY <1>0, <2>1, <2>4 DEF Covered, Covers
  <2> QED BY <2>2, <2>3, <2>4
<1> QED BY <1>10, <1>11

\* lru_alloc loses nothing: what is left of an aligned span after an aligned
\* carve is nothing at all or large enough for a header.
LEMMA CarveCovers ==
    ASSUME NEW F, GoodFree(F), NEW n \in Nat, n > 0,
           NEW s \in FirstFit(F, CcAlign(n)),
           NEW g \in Nat, Covered(F, g)
    PROVE  \/ Covered(Carve(F, s, CcAlign(n)), g)
           \/ Covers([off |-> s.off, size |-> CcAlign(n)], g)
<1> DEFINE size == CcAlign(n)
           rest == [off |-> s.off + size, size |-> s.size - size]
<1>1. size \in Nat /\ size > 0 /\ Aligned(size)
  BY CcAlignFacts
<1>2. s \in F /\ size <= s.size
  BY DEF FirstFit
<1>3. s.off \in Nat /\ s.size \in Nat /\ Aligned(s.size)
  BY <1>2 DEF GoodFree, GoodSpan, Span
<1> HIDE DEF size
<1>4. s.size - size >= 8 \/ s.size = size
  BY <1>1, <1>2, <1>3 DEF Aligned
<1>5. /\ F \ {s} \subseteq Carve(F, s, size)
      /\ s.size - size >= 8 => rest \in Carve(F, s, size)
  BY DEF Carve, HdrSize
<1>6. PICK t \in F : Covers(t, g)
  BY DEF Covered
<1>7. CASE t # s
  BY <1>5, <1>6, <1>7 DEF Covered, size
<1>8. CASE t = s
  <2>1. s.off <= g /\ g < s.off + s.size
    BY <1>6, <1>8 DEF Covers
  <2>2. CASE g < s.off + size
    BY <2>1, <2>2 DEF Covers, size
  <2>3. CASE g >= s.off + size
    <3>1. s.size - size >= 8
      BY <1>1, <1>3, <1>4, <2>1, <2>3
    <3>2. Covers(rest, g)
      BY <1>1, <1>3, <2>1, <2>3 DEF Covers
    <3> QED BY <1>5, <3>1, <3>2 DEF Covered, size
  <2> QED BY <1>1, <1>3, <2>2, <2>3
<1> QED BY <1>7, <1>8

\* codecache_trim loses nothing: a byte of the reservation stays in the block
\* or joins the free list.
LEMMA TrimmedCovers ==
    ASSUME mode = LRU, NEW F, GoodFree(F),
           NEW o \in Nat, NEW a \in Nat, NEW r \in Nat, a > 0, a <= r,
           GoodSpan([off |-> o, size |-> CcAlign(r)]),
           NEW g \in Nat,
           Covered(F, g) \/ Covers([off |-> o, size |-> CcAlign(r)], g)
    PROVE  \/ Covered(TrimmedList(F, o, a, r), g)
           \/ Covers([off |-> o, size |-> CcAlign(a)], g)
<1> DEFINE A == CcAlign(a)
           R == CcAlign(r)
<1>1. A \in Nat /\ R \in Nat /\ Aligned(A) /\ Aligned(R) /\ A <= R
  BY CcAlignFacts, CcAlignMonotone
<1>2. o + R <= Cap /\ Aligned(o) /\ Cap \in Nat
  BY CapFacts DEF GoodSpan
<1> HIDE DEF A, R
<1>3. CASE A = R
  BY <1>1, <1>3 DEF TrimmedList, A, R
<1>4. CASE A < R
  <2>1. TrimmedList(F, o, a, r) = LruFree(F, o + A, R - A)
    BY <1>1, <1>4 DEF TrimmedList, A, R
  <2>2. R - A \in Nat /\ R - A > 0 /\ Aligned(R - A) /\ o + A \in Nat /\ Aligned(o + A)
    BY <1>1, <1>2, <1>4, AlignedSums
  <2>3. CcAlign(R - A) = R - A
    BY <2>2, CcAlignFacts
  <2>4. GoodSpan([off |-> o + A, size |-> CcAlign(R - A)])
    BY <1>1, <1>2, <2>2, <2>3 DEF GoodSpan, Span
  <2>5. \/ Covered(F, g) \/ Covers([off |-> o + A, size |-> CcAlign(R - A)], g)
        \/ Covers([off |-> o, size |-> A], g)
    <3>1. Covers([off |-> o, size |-> R], g)
             => \/ Covers([off |-> o + A, size |-> R - A], g)
                \/ Covers([off |-> o, size |-> A], g)
      BY <1>1 DEF Covers
    <3> QED BY <2>3, <3>1 DEF R
  <2>6. CASE Covers([off |-> o, size |-> A], g)
    BY <2>6 DEF A
  <2>7. CASE Covered(F, g) \/ Covers([off |-> o + A, size |-> CcAlign(R - A)], g)
    BY <2>1, <2>2, <2>4, <2>7, LruFreeCovers
  <2> QED BY <2>5, <2>6, <2>7
<1> QED BY <1>1, <1>3, <1>4

\* Where a byte of an LRU arena may be.
Kept(g) ==
    \/ Covered(free, g)
    \/ Covered(Prints(live), g)
    \/ phase = "emit" /\ Covers(Held, g)
    \/ Covered(Prints(lost), g)

\* NoOtherLeak in terms of the four places.
LEMMA LeakSplit ==
    NoOtherLeak <=> (mode = LRU => \A g \in 0 .. Cap - 1 : Kept(g))
<1>1. {Footprint(s) : s \in lost} = Prints(lost)
  BY DEF Prints
<1>2. \A g : (\E s \in free \cup Taken \cup Prints(lost) : Covers(s, g)) <=> Kept(g)
  BY TakenSplit DEF Kept, Covered
<1> QED BY <1>1, <1>2 DEF NoOtherLeak

\* The same of the next state.
LEMMA LeakSplitNext ==
    NoOtherLeak' <=> (mode' = LRU => \A g \in 0 .. Cap - 1 : Kept(g)')
<1>1. {Footprint(s) : s \in lost'} = Prints(lost')
  BY DEF Prints
<1>2. \A g : (\E s \in free' \cup Taken' \cup Prints(lost') : Covers(s, g)) <=> Kept(g)'
  BY TakenSplitNext DEF Kept, Covered, Prints, Footprint, Covers
<1> QED BY <1>1, <1>2 DEF NoOtherLeak, Footprint, Covers

\* Covering is monotone in the spans.
LEMMA CoveredGrows ==
    ASSUME NEW S, NEW T, S \subseteq T, NEW g
    PROVE  /\ Covered(S, g) => Covered(T, g)
           /\ Covered(Prints(S), g) => Covered(Prints(T), g)
BY DEF Covered, Prints

\* An untouched LRU arena is free from the first byte to the last.
LEMMA WholeArenaCovers ==
    ASSUME mode = LRU, NEW g \in 0 .. Cap - 1
    PROVE  Covered(WholeArena, g)
<1>1. Cap \in Nat /\ Cap > 0 /\ Cap >= 8
  BY CapFacts DEF Aligned
<1>2. WholeArena = {[off |-> 0, size |-> Cap]}
  BY <1>1 DEF WholeArena, HdrSize
<1> QED BY <1>1, <1>2 DEF Covered, Covers

\* The blocks that leave an LRU arena in a step are the evicted one or, in a
\* drop, blocks the history records; every step but a reset keeps the record.
LEMMA HistoryStep ==
    ASSUME HistoryNext, mode = LRU, ~ Reset
    PROVE  /\ lost \subseteq lost'
           /\ Dropping => lost' = lost \cup (live \ live')
BY DEF HistoryNext

\* The invariant of CodeCache is one of the specification with history.
THEOREM HistoryInvariance == HistorySpec => []Inv
<1>1. HistoryInit => Inv
  BY InitInv DEF HistoryInit
<1>2. Inv /\ [HistoryNext]_historyVars => Inv'
  BY NextInv DEF HistoryNext, historyVars
<1> QED BY <1>1, <1>2, PTL DEF HistorySpec

\* No step loses a byte.
LEMMA NextKeepsBytes ==
    Inv /\ NoOtherLeak /\ [HistoryNext]_historyVars => NoOtherLeak'
<1> SUFFICES ASSUME Inv, NoOtherLeak, [HistoryNext]_historyVars, mode' = LRU,
                    NEW g \in 0 .. Cap - 1
             PROVE  Kept(g)'
  BY LeakSplitNext
<1>0. /\ used \in Nat /\ open \in Nat /\ req \in Nat /\ Cap \in Nat
      /\ live \subseteq Span /\ free \subseteq Span /\ g \in Nat
      /\ GoodFree(free) /\ Coalesced(free)
  BY CapFacts DEF Inv, TypeOK, FreeInv
<1>m. mode = LRU
  BY DEF HistoryNext, historyVars, Next, vars, Alloc, LruAllocTake, LruAllocEvict,
     LruAllocNull, FifoAllocTake, FifoAllocNull, BumpAllocTake, BumpAllocNull,
     Finish, FinishNoDescriptor, Overflow, Drop, Reset
<1>k. Kept(g)
  BY <1>m, LeakSplit
\* What a step has to show: each place keeps its bytes or passes them on.
<1>s. ASSUME HistoryNext, ~ Reset,
             Covered(free, g) => Kept(g)',
             Covered(Prints(live), g) => Kept(g)',
             phase = "emit" /\ Covers(Held, g) => Kept(g)'
      PROVE  Kept(g)'
  <2>1. lost \subseteq lost'
    BY <1>s, <1>m, HistoryStep
  <2>2. Covered(Prints(lost), g) => Covered(Prints(lost'), g)
    BY <2>1, CoveredGrows
  <2>3. Covered(Prints(lost'), g) => Kept(g)'
    BY DEF Kept, Covered, Prints, Footprint, Covers
  <2> QED BY <1>s, <1>k, <2>2, <2>3 DEF Kept
<1>p. /\ Covered(free', g) => Kept(g)'
      /\ Covered(Prints(live'), g) => Kept(g)'
      /\ phase' = "emit" /\ Covers(Held', g) => Kept(g)'
      /\ Covered(Prints(lost'), g) => Kept(g)'
  BY DEF Kept, Covered, Prints, Footprint, Covers
<1>u. CASE UNCHANGED historyVars
  <2>1. UNCHANGED <<free, live, phase, open, req, lost>>
    BY <1>u DEF historyVars, vars
  <2>2. Held' = Held
    BY <2>1 DEF Held
  <2> QED BY <1>k, <1>p, <2>1, <2>2 DEF Kept
<1> SUFFICES ASSUME HistoryNext PROVE Kept(g)'
  BY <1>u
<1>1. CASE Reset
  <2>1. free' = WholeArena
    BY <1>1 DEF Reset
  <2> QED BY <1>m, <1>p, <2>1, WholeArenaCovers
<1> SUFFICES ASSUME ~ Reset PROVE Kept(g)'
  BY <1>1
<1>2. ASSUME NEW size \in Reserves, Alloc(size)
      PROVE  Kept(g)'
  <2>1. phase = "idle" /\ UNCHANGED <<free, live>>
    BY <1>2 DEF Alloc
  <2> QED BY <1>p, <1>s, <2>1
<1>3. CASE LruAllocTake
  <2>1. phase = "alloc" /\ phase' = "emit" /\ req > 0 /\ UNCHANGED <<live, req>>
    BY <1>3 DEF LruAllocTake, Inv, EmitInv
  <2>2. LruSize(req) = CcAlign(req)
    BY <1>0, <2>1, LruSizeFacts
  <2>3. PICK s \in FirstFit(free, CcAlign(req)) :
           free' = Carve(free, s, CcAlign(req)) /\ open' = s.off
    BY <1>3, <2>2 DEF LruAllocTake
  <2>4. Held' = [off |-> s.off, size |-> CcAlign(req)]
    BY <2>1, <2>3 DEF Held
  <2>5. Covered(free, g) => Covered(free', g) \/ Covers(Held', g)
    BY <1>0, <2>1, <2>3, <2>4, CarveCovers
  <2> QED BY <1>p, <1>s, <2>1, <2>5
<1>4. ASSUME NEW victim \in live, LruAllocEvict(victim)
      PROVE  Kept(g)'
  <2>1. /\ phase = "alloc" /\ live' = live \ {victim}
        /\ free' = LruFree(free, victim.off, victim.size)
    BY <1>4 DEF LruAllocEvict
  <2>2. /\ victim.off \in Nat /\ victim.size \in Nat /\ victim.size > 0
        /\ GoodSpan([off |-> victim.off, size |-> CcAlign(victim.size)])
    BY <1>0 DEF Inv, LiveInv, Footprint, Span
  <2>3. Covered(free, g) \/ Covers(Footprint(victim), g) => Covered(free', g)
    BY <1>0, <2>1, <2>2, LruFreeCovers DEF Footprint
  <2>4. Covered(Prints(live), g)
           => Covers(Footprint(victim), g) \/ Covered(Prints(live'), g)
    BY <2>1 DEF Covered, Prints
  <2> QED BY <1>p, <1>s, <2>1, <2>3, <2>4
<1>5. CASE LruAllocNull
  <2>1. phase = "alloc" /\ UNCHANGED <<free, live>>
    BY <1>5 DEF LruAllocNull
  <2> QED BY <1>p, <1>s, <2>1
<1>6. ASSUME NEW actual \in Actuals, Finish(actual)
      PROVE  Kept(g)'
  <2> DEFINE own == [off |-> open, size |-> actual]
  <2>1. /\ phase = "emit" /\ actual \in Nat /\ actual > 0 /\ actual <= req
        /\ live' = live \cup {own}
        /\ free' = TrimmedList(free, open, actual, req)
    BY <1>6, ActualsAssumption DEF Finish
  <2>2. GoodSpan([off |-> open, size |-> CcAlign(req)])
    BY <2>1 DEF Inv, EmitInv, Held
  <2>3. Footprint(own) = [off |-> open, size |-> CcAlign(actual)]
    BY DEF Footprint
  <2>4. Covered(free, g) \/ Covers(Held, g)
           => Covered(free', g) \/ Covers(Footprint(own), g)
    BY <1>0, <1>m, <2>1, <2>2, <2>3, TrimmedCovers DEF Held
  <2>5. Covers(Footprint(own), g) => Covered(Prints(live'), g)
    BY <2>1 DEF Covered, Prints
  <2>6. Covered(Prints(live), g) => Covered(Prints(live'), g)
    BY <2>1, CoveredGrows
  <2> QED BY <1>p, <1>s, <2>4, <2>5, <2>6
<1>7. ASSUME NEW actual \in Actuals, FinishNoDescriptor(actual)
      PROVE  Kept(g)'
  <2> DEFINE G == TrimmedList(free, open, actual, req)
  <2>1. /\ phase = "emit" /\ actual \in Nat /\ actual > 0 /\ actual <= req
        /\ live' = live /\ free' = FreedList(G, open, actual)
    BY <1>7, ActualsAssumption DEF FinishNoDescriptor
  <2>2. free' = LruFree(G, open, actual)
    BY <1>m, <2>1 DEF FreedList
  <2>3. /\ GoodSpan([off |-> open, size |-> CcAlign(req)])
        /\ Clear([off |-> open, size |-> CcAlign(req)], free)
    BY <2>1 DEF Inv, EmitInv, Held
  <2>4. GoodFree(G) /\ GoodSpan([off |-> open, size |-> CcAlign(actual)])
    BY <1>0, <1>m, <2>1, <2>3, TrimmedFacts
  <2>5. Covered(free, g) \/ Covers(Held, g)
           => Covered(G, g) \/ Covers([off |-> open, size |-> CcAlign(actual)], g)
    BY <1>0, <1>m, <2>1, <2>3, TrimmedCovers DEF Held
  <2> HIDE DEF G
  <2>6. Covered(G, g) \/ Covers([off |-> open, size |-> CcAlign(actual)], g)
           => Covered(free', g)
    BY <1>0, <2>1, <2>2, <2>4, LruFreeCovers
  <2> QED BY <1>p, <1>s, <2>1, <2>5, <2>6
<1>8. CASE Overflow
  <2>1. phase = "emit" /\ live' = live /\ free' = FreedList(free, open, req)
    BY <1>8 DEF Overflow
  <2>2. free' = LruFree(free, open, req) /\ req > 0
    BY <1>m, <2>1 DEF FreedList, Inv, EmitInv
  <2>3. GoodSpan([off |-> open, size |-> CcAlign(req)])
    BY <2>1 DEF Inv, EmitInv, Held
  <2>4. Covered(free, g) \/ Covers(Held, g) => Covered(free', g)
    BY <1>0, <2>2, <2>3, LruFreeCovers DEF Held
  <2> QED BY <1>p, <1>s, <2>1, <2>4
<1>9. CASE Dropping
  <2>1. phase = "idle" /\ free' = free /\ live' \subseteq live
    BY <1>9 DEF Dropping, Drop
  <2>2. lost' = lost \cup (live \ live')
    BY <1>9, <1>m, HistoryStep
  <2>3. Covered(Prints(live), g) => Covered(Prints(live'), g) \/ Covered(Prints(lost'), g)
    BY <2>1, <2>2 DEF Covered, Prints
  <2> QED BY <1>p, <1>s, <2>1, <2>3
<1>10. ASSUME FifoAllocTake \/ FifoAllocNull \/ BumpAllocTake \/ BumpAllocNull
       PROVE  FALSE
  BY <1>10, <1>m DEF FifoAllocTake, FifoAllocNull, BumpAllocTake, BumpAllocNull,
     LRU, FIFO, BUMP
<1> QED BY <1>2, <1>3, <1>4, <1>5, <1>6, <1>7, <1>8, <1>9, <1>10
        DEF HistoryNext, Next, Dropping

\* Every byte of an LRU arena is always free, cached, reserved or was lost in
\* a drop for self-modifying code, whatever the sizes of arena and blocks.
THEOREM NoOtherLeakEver == HistorySpec => []NoOtherLeak
<1>1. HistoryInit => NoOtherLeak
  <2> SUFFICES ASSUME HistoryInit, mode = LRU, NEW g \in 0 .. Cap - 1
               PROVE  Kept(g)
    BY LeakSplit
  <2> QED BY WholeArenaCovers DEF HistoryInit, Init, Kept
<1> QED BY <1>1, HistoryInvariance, NextKeepsBytes, PTL DEF HistorySpec

\* A coalesced free list that holds every byte is one span, and any request
\* that fits the arena is met from it.
LEMMA AllFreeFits ==
    ASSUME NEW F, GoodFree(F), Coalesced(F),
           \A g \in 0 .. Cap - 1 : Covered(F, g),
           NEW n \in Nat, n > 0, n <= Cap
    PROVE  FirstFit(F, n) # {}
<1>1. Cap \in Nat
  BY CapFacts
<1>2. \A f \in F : /\ f.off \in Nat /\ f.size \in Nat /\ f.size > 0
                   /\ f.off + f.size <= Cap
  BY DEF GoodFree, GoodSpan, Span
<1>3. PICK s \in F : s.off <= 0 /\ 0 < s.off + s.size
  BY <1>1 DEF Covered, Covers
<1>4. s.off = 0
  BY <1>2, <1>3
<1>5. s.size = Cap
  <2> SUFFICES ASSUME s.size < Cap PROVE FALSE
    BY <1>1, <1>2, <1>4
  <2>1. PICK t \in F : t.off <= s.size /\ s.size < t.off + t.size
    BY <1>1, <1>2 DEF Covered, Covers
  <2>2. t # s
    BY <1>2, <1>4, <2>1
  <2>3. Apart(s, t)
    BY <2>2 DEF GoodFree
  <2>4. s.off + s.size = t.off
    BY <1>2, <1>4, <2>1, <2>3 DEF Apart
  <2> QED BY <2>4 DEF Coalesced
<1> QED BY <1>1, <1>2, <1>4, <1>5 DEF FirstFit

\* lru_alloc refuses a request that fits the arena only after blocks were
\* dropped without returning their bytes.
THEOREM OnlyLostBytesEverFail == HistorySpec => OnlyLostBytesFail
<1>1. ASSUME Inv, NoOtherLeak
      PROVE  LruAllocNull => LruSize(req) > Cap \/ lost # {}
  <2> SUFFICES ASSUME LruAllocNull, ~ (LruSize(req) > Cap), lost = {}
               PROVE  FALSE
    OBVIOUS
  <2>1. phase = "alloc" /\ mode = LRU /\ live = {} /\ FirstFit(free, LruSize(req)) = {}
    BY DEF LruAllocNull
  <2>2. req \in Nat /\ req > 0 /\ GoodFree(free) /\ Coalesced(free)
    BY <1>1, <2>1 DEF Inv, TypeOK, EmitInv, FreeInv
  <2>3. LruSize(req) \in Nat /\ LruSize(req) > 0 /\ LruSize(req) <= Cap
    BY <2>2, LruSizeFacts, CcAlignFacts, CapFacts
  <2>4. \A g \in 0 .. Cap - 1 : Covered(free, g)
    BY <1>1, <2>1, LeakSplit DEF Kept, Covered, Prints
  <2> QED BY <2>1, <2>2, <2>3, <2>4, AllFreeFits
<1> QED BY <1>1, HistoryInvariance, NoOtherLeakEver, PTL DEF HistorySpec, OnlyLostBytesFail

-----------------------------------------------------------------------------
(* Termination: what makes the loop of lru_alloc end *)

\* Only finitely many blocks are cached.
FinitelyMany == IsFiniteSet(live)

\* Every compilation that finishes adds one block, nothing else adds any.
LEMMA NextFinite == FinitelyMany /\ [Next]_vars => FinitelyMany'
<1> SUFFICES ASSUME IsFiniteSet(live), [Next]_vars
             PROVE  IsFiniteSet(live')
  BY DEF FinitelyMany
<1>1. \A S \in SUBSET live : IsFiniteSet(S)
  BY FS_Subset
<1>2. CASE UNCHANGED vars
  BY <1>2 DEF vars
<1>3. ASSUME NEW actual \in Actuals, Finish(actual)
      PROVE  IsFiniteSet(live')
  BY <1>3, FS_AddElement DEF Finish
<1>4. CASE Next /\ ~ (\E actual \in Actuals : Finish(actual))
  <2>1. live' \in SUBSET live
    BY <1>4
       DEF Next, Alloc, LruAllocTake, LruAllocEvict, LruAllocNull,
           FifoAllocTake, FifoAllocNull, BumpAllocTake, BumpAllocNull,
           FinishNoDescriptor, Overflow, Drop, Reset
  <2> QED BY <1>1, <2>1
<1> QED BY <1>2, <1>3, <1>4

\* In every reachable state the number of cached blocks is finite.
THEOREM AlwaysFinitelyMany == Spec => []FinitelyMany
<1>1. Init => FinitelyMany
  BY FS_EmptySet DEF Init, FinitelyMany
<1> QED BY <1>1, NextFinite, PTL DEF Spec

\* Every step that leaves the call in progress evicts a block: one fewer is
\* cached than before.
CallShrinks ==
    phase = "alloc" /\ phase' = "alloc" =>
        Cardinality(live') + 1 = Cardinality(live)

\* lru_alloc calls its callback at most once for each cached block: an
\* iteration that does not end the call leaves one block fewer, and their
\* number is finite.  What AllocReturns needs beyond this is fairness alone.
THEOREM EvictionsRunOut ==
    Spec => [][CallShrinks /\ Cardinality(live) \in Nat]_vars
<1>1. ASSUME Inv, FinitelyMany, [Next]_vars
      PROVE  [CallShrinks /\ Cardinality(live) \in Nat]_vars
  <2>1. Cardinality(live) \in Nat
    BY <1>1, FS_CardinalityType DEF FinitelyMany
  <2>2. SUFFICES ASSUME Next, phase = "alloc", phase' = "alloc"
                 PROVE  Cardinality(live') + 1 = Cardinality(live)
    BY <1>1, <2>1 DEF CallShrinks
  <2>3. PICK victim \in live : LruAllocEvict(victim)
    BY <2>2
       DEF Next, Alloc, LruAllocTake, LruAllocNull, FifoAllocTake,
           FifoAllocNull, BumpAllocTake, BumpAllocNull, Finish,
           FinishNoDescriptor, Overflow, Drop, Reset, Idle
  <2>4. Cardinality(live') = Cardinality(live) - 1
    BY <1>1, <2>3, FS_RemoveElement DEF LruAllocEvict, FinitelyMany
  <2> QED BY <2>1, <2>4
<1> QED BY <1>1, Invariance, AlwaysFinitelyMany, PTL DEF Spec

=============================================================================
