-------------------------- MODULE DispatcherProofs --------------------------
(***************************************************************************)
(* Proofs about the dispatcher, for every guest program (Succ, BlockEnd,   *)
(* Reserve, Actual), arena, page size, queue length and set of options.    *)
(*                                                                         *)
(* Inv, which no hypothesis limits, gives the pointers: nothing dangles    *)
(* (PointersLive) and no descriptor is leaked or doubled (OneBlockPerPc).  *)
(* SmcInv adds what a block knows of the words and pages it covers, for    *)
(* stores that go through the write watch; EmptyInv adds that a compile    *)
(* which failed has nothing cached; ChainInv adds when the chain budget is *)
(* zero; HeldInv says which policies keep the block that is being held     *)
(* across prefetches.  CacheInv is the code cache's own invariant, and     *)
(* gives the refinement of CodeCache.                                      *)
(***************************************************************************)
EXTENDS Dispatcher, FiniteSetTheorems, TLAPS

-----------------------------------------------------------------------------
(* Block descriptors *)

\* What clearing a prediction leaves of a descriptor.
LEMMA UnlinkedFacts ==
    ASSUME NEW b \in Block
    PROVE  /\ Unlinked(b) \in Block
           /\ Unlinked(b).pn = NULL /\ Unlinked(b).tag = b.tag
           /\ Unlinked(b).pc = b.pc /\ Unlinked(b).end = b.end
           /\ Unlinked(b).off = b.off /\ Unlinked(b).size = b.size
           /\ Unlinked(b).code = b.code
BY DEF Unlinked, Block

\* The parts of two descriptors that say which code they stand for.
SameCode(b, c) ==
    /\ b.pc = c.pc /\ b.end = c.end /\ b.code = c.code
    /\ b.off = c.off /\ b.size = c.size

\* A prediction is kept as it was, or cleared.
SamePrediction(b, c) ==
    \/ b.pn = NULL
    \/ b.pn = c.pn /\ b.pnpc = c.pnpc /\ b.entry = c.entry

\* g is what evictions, flushes and resets may leave of the descriptors h.
Shrunk(h, g) ==
    /\ DOMAIN g \subseteq DOMAIN h
    /\ \A b \in DOMAIN g :
          g[b] \in Block /\ SameCode(g[b], h[b]) /\ SamePrediction(g[b], h[b])

Descriptors(h) == \A b \in DOMAIN h : h[b] \in Block

\* Freeing descriptors.
LEMMA WithoutFacts ==
    ASSUME NEW h, Descriptors(h), NEW V
    PROVE  /\ DOMAIN Without(h, V) = DOMAIN h \ V
           /\ \A b \in DOMAIN h \ V : Without(h, V)[b] = h[b]
           /\ Descriptors(Without(h, V)) /\ Shrunk(h, Without(h, V))
BY DEF Without, Descriptors, Shrunk, SameCode, SamePrediction

\* Clearing every prediction.
LEMMA ForgetFacts ==
    ASSUME NEW h, Descriptors(h)
    PROVE  /\ DOMAIN Forget(h) = DOMAIN h
           /\ \A b \in DOMAIN h : Forget(h)[b].pn = NULL
           /\ Shrunk(h, Forget(h))
<1>1. DOMAIN Forget(h) = DOMAIN h /\ \A b \in DOMAIN h : Forget(h)[b] = Unlinked(h[b])
  BY DEF Forget
<1> QED BY <1>1, UnlinkedFacts DEF Descriptors, Shrunk, SameCode, SamePrediction

\* Clearing the predictions of one victim: none is left that names it.
LEMMA ForgetOneFacts ==
    ASSUME NEW h, Descriptors(h), NEW v \in BlockId
    PROVE  /\ DOMAIN ForgetOne(h, v) = DOMAIN h
           /\ \A b \in DOMAIN h : ForgetOne(h, v)[b].pn # v
           /\ Shrunk(h, ForgetOne(h, v))
<1>1. /\ DOMAIN ForgetOne(h, v) = DOMAIN h
      /\ \A b \in DOMAIN h :
            ForgetOne(h, v)[b] = IF h[b].pn = v THEN Unlinked(h[b]) ELSE h[b]
  BY DEF ForgetOne
<1>2. \A b \in DOMAIN h : ForgetOne(h, v)[b].pn # v
  BY <1>1, UnlinkedFacts, NullAssumption DEF Descriptors
<1> QED BY <1>1, <1>2, UnlinkedFacts DEF Descriptors, Shrunk, SameCode, SamePrediction

\* From nothing, nothing is left.
LEMMA NothingLeft ==
    ASSUME NEW h, DOMAIN h = {}, NEW V
    PROVE  DOMAIN Forget(Without(h, V)) = {}
BY DEF Forget, Without

\* Shrinking twice is shrinking.
LEMMA ShrunkTwice ==
    ASSUME NEW h, NEW g, NEW k, Shrunk(h, g), Shrunk(g, k)
    PROVE  Shrunk(h, k)
BY DEF Shrunk, SameCode, SamePrediction

\* The descriptor of a freshly compiled block.
LEMMA NewBlockFacts ==
    ASSUME NEW pc \in Pc, NEW off \in Nat, NEW size \in Nat, cycles \in Nat,
           mem \in [Word -> Val]
    PROVE  LET b == NewBlock(pc, off, size)
           IN  /\ b \in Block
               /\ b.pc = pc /\ b.end = BlockEnd[pc] /\ b.pn = NULL
               /\ b.off = off /\ b.size = size
               /\ b.code = [w \in Words(pc) |-> mem[w]]
<1> DEFINE code  == [w \in Words(pc) |-> mem[w]]
           codes == UNION {[ws -> Val] : ws \in SUBSET Word}
<1>1. Words(pc) \subseteq Word /\ BlockEnd[pc] \in Nat
  BY BlockAssumption DEF Words
<1>2. code \in [Words(pc) -> Val]
  BY <1>1
<1>3. code \in codes
  BY <1>1, <1>2
<1>4. Block = [pc : Pc, end : Nat, off : Nat, size : Nat, tag : Nat,
               pn : BlockId \cup {NULL}, pnpc : Pc \cup {NoPc},
               entry : {"none", "chain", "body"}, code : codes]
  BY Zenon DEF Block
<1>5. NewBlock(pc, off, size)
         = [pc |-> pc, end |-> BlockEnd[pc], off |-> off, size |-> size,
            tag |-> cycles, pn |-> NULL, pnpc |-> NoPc, entry |-> "none",
            code |-> code]
  BY Zenon DEF NewBlock
<1> HIDE DEF code, codes
<1> QED BY <1>1, <1>3, <1>4, <1>5 DEF code

-----------------------------------------------------------------------------
(* The inductive invariant *)

\* A call of get_block_impl is in progress.
Calling == ctl \in {"find", "compile", "alloc", "emit", "failed"}

Typed ==
    /\ TypeOK
    /\ todo \in Seq([pc : Pc, depth : Nat])
    /\ Calling => job.pc \in Pc

\* get_block: a demand call comes first and holds nothing yet; prefetches
\* follow once it has its block; a call that gave up has reset the arena; and
\* unless a counter moved the result is still there.
GetInv ==
    /\ retried => moved
    /\ ctl = "head" => got = NULL
    /\ Calling /\ ~ Prefetching => got = NULL /\ todo = <<>> /\ job.pc = pcr
    /\ Calling /\ Prefetching => got # NULL /\ ~ opts.no_cache
    /\ ctl = "link" /\ got = NULL => moved
    /\ InGetBlock /\ got # NULL /\ ~ moved => got \in DOMAIN heap /\ heap[got].pc = pcr

\* The block table: between a miss and the insertion the pc stays absent.
TableInv ==
    /\ OneBlockPerPc
    /\ opts.no_cache => table = {}
    /\ ctl \in {"compile", "alloc", "emit", "failed"} /\ ~ opts.no_cache =>
          \A b \in table : heap[b].pc # job.pc

Linked(b) ==
    /\ heap[b].pn \in table
    /\ heap[heap[b].pn].pc = heap[b].pnpc
    /\ heap[b].entry = "body" => Compat(heap[b], heap[heap[b].pn])

LinkInv ==
    /\ \A b \in DOMAIN heap : heap[b].pn # NULL => Linked(b)
    /\ PrevLive

\* The block that runs, and the one the loop entered first.
RunInv ==
    /\ ctl \in {"body", "exit"} \/ (ctl = "enter" /\ chained)
          => cur \in DOMAIN heap /\ got \in DOMAIN heap
    /\ ctl = "enter" /\ ~ chained => cur = got

Inv == Typed /\ GetInv /\ TableInv /\ LinkInv /\ RunInv

-----------------------------------------------------------------------------
(* What a step does to the block table *)

\* Blocks leave, predictions are cleared, tags change; nothing else does, and
\* no prediction of a block that leaves is left behind.
ShrinkStep ==
    /\ Shrunk(heap, heap')
    /\ table' = table \cap DOMAIN heap'
    /\ \A b \in DOMAIN heap' : heap'[b].pn # NULL => heap'[b].pn \in table'

\* A step that leaves the table alone.
LEMMA QuietStep ==
    ASSUME Inv, heap' = heap, table' = table
    PROVE  ShrinkStep
BY DEF Inv, Typed, TypeOK, LinkInv, Linked, ShrinkStep, Shrunk, SameCode, SamePrediction

\* Blocks are dropped and every prediction is cleared.
LEMMA FlushStep ==
    ASSUME Inv, NEW V, heap' = Forget(Without(heap, V)), table' = table \ V
    PROVE  ShrinkStep
<1>1. Descriptors(heap) /\ table \subseteq DOMAIN heap
  BY DEF Inv, Typed, TypeOK, Descriptors
<1> DEFINE g == Without(heap, V)
<1>2. Descriptors(g) /\ DOMAIN g = DOMAIN heap \ V /\ Shrunk(heap, g)
  BY <1>1, WithoutFacts
<1> HIDE DEF g
<1>3. /\ DOMAIN Forget(g) = DOMAIN g /\ Shrunk(g, Forget(g))
      /\ \A b \in DOMAIN g : Forget(g)[b].pn = NULL
  BY <1>2, ForgetFacts
<1>4. Shrunk(heap, Forget(g))
  BY <1>2, <1>3, ShrunkTwice
<1>5. heap' = Forget(g)
  BY DEF g
<1> QED BY <1>1, <1>2, <1>3, <1>4, <1>5 DEF ShrinkStep

\* Every block is freed.
LEMMA EmptyStep ==
    ASSUME Inv, DOMAIN heap' = {}, table' = {}
    PROVE  ShrinkStep
BY DEF ShrinkStep, Shrunk

\* lru_evict_cb.
LEMMA EvictStep ==
    ASSUME Inv, NEW victim \in table,
           heap' = ForgetOne(Without(heap, {victim}), victim),
           table' = table \ {victim}
    PROVE  ShrinkStep
<1>1. Descriptors(heap) /\ table \subseteq DOMAIN heap /\ victim \in BlockId
  BY DEF Inv, Typed, TypeOK, Descriptors
<1> DEFINE g == Without(heap, {victim})
<1>2. Descriptors(g) /\ DOMAIN g = DOMAIN heap \ {victim} /\ Shrunk(heap, g)
  BY <1>1, WithoutFacts
<1> HIDE DEF g
<1>3. /\ DOMAIN ForgetOne(g, victim) = DOMAIN g /\ Shrunk(g, ForgetOne(g, victim))
      /\ \A b \in DOMAIN g : ForgetOne(g, victim)[b].pn # victim
  BY <1>1, <1>2, ForgetOneFacts
<1>4. heap' = ForgetOne(g, victim)
  BY DEF g
<1>5. Shrunk(heap, heap')
  BY <1>2, <1>3, <1>4, ShrunkTwice
<1>6. table' = table \cap DOMAIN heap'
  BY <1>1, <1>2, <1>3, <1>4
<1>7. ASSUME NEW b \in DOMAIN heap', heap'[b].pn # NULL
      PROVE  heap'[b].pn \in table'
  <2>1. b \in DOMAIN heap /\ heap'[b].pn = heap[b].pn
    BY <1>5, <1>7 DEF Shrunk, SamePrediction
  <2>2. heap[b].pn \in table
    BY <1>7, <2>1 DEF Inv, LinkInv, Linked
  <2>3. heap'[b].pn # victim
    BY <1>2, <1>3, <1>4, <1>7
  <2> QED BY <2>1, <2>2, <2>3
<1> QED BY <1>5, <1>6, <1>7 DEF ShrinkStep

\* Only Link and EmitDone do more to the block table than shrink it.
LEMMA TableSteps ==
    ASSUME Inv, [Next]_vars
    PROVE  ShrinkStep \/ Link \/ EmitDone
<1>0. Descriptors(heap) /\ table \subseteq DOMAIN heap /\ DOMAIN heap \subseteq BlockId
  BY DEF Inv, Typed, TypeOK, Descriptors
<1>1. ASSUME \/ UNCHANGED vars
             \/ Interrupt \/ SonyService \/ Idle \/ ChainHit \/ ChainMiss
             \/ FindHit \/ FindMiss \/ CompileBlock
             \/ LruTake \/ BumpTake \/ AllocNull \/ EmitOverflow \/ EmitNoMemory
             \/ GiveUp \/ HelperStore \/ InlineStore
             \/ \E effect \in Effects : Interpret(effect) \/ BlockEnds(effect)
             \/ NativeChain \/ Finished
      PROVE  ShrinkStep
  <2>1. heap' = heap /\ table' = table
    BY <1>1 DEF vars, Interrupt, SonyService, Idle, ChainHit, ChainMiss, FindHit,
       FindMiss, CompileBlock, LruTake, BumpTake, AllocNull, EmitOverflow,
       EmitNoMemory, GiveUp, HelperStore, InlineStore, Interpret, BlockEnds,
       NativeChain, Finished
  <2> QED BY <2>1, QuietStep
<1>2. ASSUME LruEvict PROVE ShrinkStep
  <2>1. PICK victim \in Coldest :
           /\ table' = table \ {victim}
           /\ heap' = ForgetOne(Without(heap, {victim}), victim)
    BY <1>2 DEF LruEvict
  <2>2. victim \in table
    BY DEF Coldest
  <2> QED BY <2>1, <2>2, EvictStep
<1>3. ASSUME FifoTake PROVE ShrinkStep
  <2>1. PICK V : table' = table \ V /\ heap' = IF V = {} THEN heap
                                               ELSE Forget(Without(heap, V))
    BY <1>3 DEF FifoTake
  <2>2. CASE V = {}
    BY <2>1, <2>2, QuietStep
  <2>3. CASE V # {}
    BY <2>1, <2>3, FlushStep
  <2> QED BY <2>2, <2>3
<1>4. ASSUME ResetAndRetry PROVE ShrinkStep
  <2>1. /\ ctl = "failed" /\ ~ Prefetching
        /\ heap' = Without(heap, table) /\ table' = {}
    BY <1>4 DEF ResetAndRetry
  <2>2. got = NULL
    BY <2>1 DEF Inv, GetInv, Calling
  <2>3. DOMAIN heap \subseteq table
    BY <1>0, <2>2, NullAssumption DEF Inv, TableInv, OneBlockPerPc
  <2>4. DOMAIN heap' = DOMAIN heap \ table
    BY <1>0, <2>1, WithoutFacts
  <2> QED BY <2>1, <2>3, <2>4, EmptyStep
<1>5. ASSUME Enter PROVE ShrinkStep
  <2>1. /\ cur \in DOMAIN heap /\ table' = table
        /\ heap' = IF chained THEN heap ELSE [heap EXCEPT ![cur].tag = cycles]
    BY <1>5 DEF Enter
  <2>2. CASE chained
    BY <2>1, <2>2, QuietStep
  <2>3. CASE ~ chained
    <3>1. /\ DOMAIN heap' = DOMAIN heap
          /\ \A b \in DOMAIN heap : b # cur => heap'[b] = heap[b]
          /\ heap'[cur] = [heap[cur] EXCEPT !.tag = cycles]
      BY <2>1, <2>3
    <3>2. heap[cur] \in Block /\ cycles \in Nat
      BY <1>0, <2>1 DEF Descriptors, Inv, Typed, TypeOK
    <3>3. /\ heap'[cur] \in Block /\ SameCode(heap'[cur], heap[cur])
          /\ heap'[cur].pn = heap[cur].pn /\ SamePrediction(heap'[cur], heap[cur])
      BY <3>1, <3>2 DEF Block, SameCode, SamePrediction
    <3>4. Shrunk(heap, heap')
      BY <1>0, <3>1, <3>3 DEF Descriptors, Shrunk, SameCode, SamePrediction
    <3>5. \A b \in DOMAIN heap' : heap'[b].pn # NULL => heap'[b].pn \in table'
      BY <2>1, <3>1, <3>3 DEF Inv, LinkInv, Linked
    <3> QED BY <1>0, <2>1, <3>1, <3>4, <3>5 DEF ShrinkStep
  <2> QED BY <2>2, <2>3
<1>6. ASSUME Return PROVE ShrinkStep
  <2> DEFINE kept == IF opts.no_cache THEN Without(heap, {got}) ELSE heap
  <2>a. got \in DOMAIN heap
    BY <1>6 DEF Return, Inv, RunInv
  <2>1. CASE opts.no_cache
    <3>1. table = {} /\ DOMAIN heap \subseteq {got}
      BY <2>1 DEF Inv, TableInv, OneBlockPerPc
    <3>2. DOMAIN kept = {} /\ Descriptors(kept)
      <4>1. kept = Without(heap, {got})
        BY <2>1
      <4>2. /\ DOMAIN Without(heap, {got}) = DOMAIN heap \ {got}
            /\ Descriptors(Without(heap, {got}))
        BY <1>0, WithoutFacts
      <4>3. DOMAIN heap \ {got} = {}
        BY <3>1
      <4> HIDE DEF kept
      <4> QED BY <4>1, <4>2, <4>3
    <3> HIDE DEF kept
    <3>3. table' = {} /\ \/ heap' = kept
                         \/ \E V : heap' = Forget(Without(kept, V))
      BY <1>6, <3>1 DEF Return, kept
    <3>4. \A V : DOMAIN Forget(Without(kept, V)) = {}
      BY <3>2, NothingLeft
    <3> QED BY <3>2, <3>3, <3>4, EmptyStep
  <2>2. CASE ~ opts.no_cache
    <3>1. \/ heap' = heap /\ table' = table
          \/ \E V : heap' = Forget(Without(heap, V)) /\ table' = table \ V
      BY <1>6, <2>2 DEF Return
    <3> QED BY <3>1, QuietStep, FlushStep
  <2> QED BY <2>1, <2>2
<1> QED BY <1>1, <1>2, <1>3, <1>4, <1>5, <1>6 DEF Next

-----------------------------------------------------------------------------
(* The parts of the invariant, one by one *)

\* The descriptors stay well formed.
TypedHeap == DOMAIN heap \subseteq BlockId /\ Descriptors(heap) /\ table \subseteq DOMAIN heap

\* The block EmitDone inserts.
LEMMA EmitDoneFacts ==
    ASSUME Inv, EmitDone
    PROVE  \E actual \in Actual[job.pc], b \in BlockId \ DOMAIN heap :
              /\ actual \in Nat /\ actual > 0 /\ actual <= Reserve[job.pc]
              /\ heap' = [c \in DOMAIN heap \cup {b} |->
                            IF c = b THEN NewBlock(job.pc, open, actual) ELSE heap[c]]
              /\ DOMAIN heap' = DOMAIN heap \cup {b}
              /\ \A c \in DOMAIN heap : heap'[c] = heap[c]
              /\ heap'[b] = NewBlock(job.pc, open, actual)
              /\ heap'[b] \in Block /\ heap'[b].pc = job.pc /\ heap'[b].pn = NULL
              /\ heap'[b].end = BlockEnd[job.pc]
              /\ heap'[b].off = open /\ heap'[b].size = actual
              /\ heap'[b].code = [w \in Words(job.pc) |-> mem[w]]
              /\ table' = IF opts.no_cache THEN table ELSE table \cup {b}
              /\ free' = TrimmedList(free, open, actual, Reserve[job.pc])
              /\ used' = TrimmedCursor(used, open, actual)
              /\ codePages' = IF opts.no_cache THEN codePages
                              ELSE codePages \cup MarkedPages(job.pc, BlockEnd[job.pc])
              /\ got' = IF Prefetching THEN got ELSE b
<1>0. /\ job.pc \in Pc /\ open \in Nat /\ cycles \in Nat /\ mem \in [Word -> Val]
      /\ Actual[job.pc] \subseteq Nat \ {0}
  BY BlockAssumption DEF EmitDone, Inv, Typed, TypeOK, Calling
<1>1. PICK actual \in Actual[job.pc], b \in BlockId \ DOMAIN heap :
         LET block == NewBlock(job.pc, open, actual)
         IN  /\ actual <= Reserve[job.pc]
             /\ heap' = [c \in DOMAIN heap \cup {b} |->
                             IF c = b THEN block ELSE heap[c]]
             /\ table' = IF opts.no_cache THEN table ELSE table \cup {b}
             /\ free' = TrimmedList(free, open, actual, Reserve[job.pc])
             /\ used' = TrimmedCursor(used, open, actual)
             /\ codePages' = IF opts.no_cache THEN codePages
                             ELSE codePages \cup MarkedPages(block.pc, block.end)
             /\ got' = IF Prefetching THEN got ELSE b
  BY DEF EmitDone
<1>2. actual \in Nat /\ actual > 0
  BY <1>0
<1> DEFINE block == NewBlock(job.pc, open, actual)
<1>3. /\ block \in Block /\ block.pc = job.pc /\ block.end = BlockEnd[job.pc]
      /\ block.pn = NULL /\ block.off = open /\ block.size = actual
      /\ block.code = [w \in Words(job.pc) |-> mem[w]]
  BY <1>0, <1>2, NewBlockFacts
<1>4. /\ actual <= Reserve[job.pc]
      /\ heap' = [c \in DOMAIN heap \cup {b} |-> IF c = b THEN block ELSE heap[c]]
      /\ table' = IF opts.no_cache THEN table ELSE table \cup {b}
      /\ free' = TrimmedList(free, open, actual, Reserve[job.pc])
      /\ used' = TrimmedCursor(used, open, actual)
      /\ codePages' = IF opts.no_cache THEN codePages
                      ELSE codePages \cup MarkedPages(block.pc, block.end)
      /\ got' = IF Prefetching THEN got ELSE b
  BY <1>1, Zenon
<1> HIDE DEF block
<1>5. /\ DOMAIN heap' = DOMAIN heap \cup {b} /\ heap'[b] = block
      /\ \A c \in DOMAIN heap : heap'[c] = heap[c]
  BY <1>4
<1>6. codePages' = IF opts.no_cache THEN codePages
                   ELSE codePages \cup MarkedPages(job.pc, BlockEnd[job.pc])
  BY <1>3, <1>4
<1> QED
  <2> WITNESS actual \in Actual[job.pc]
  <2> WITNESS b \in BlockId \ DOMAIN heap
  <2>1. heap' = [c \in DOMAIN heap \cup {b} |->
                   IF c = b THEN NewBlock(job.pc, open, actual) ELSE heap[c]]
    BY <1>4 DEF block
  <2>2. heap'[b] = NewBlock(job.pc, open, actual)
    BY <1>5 DEF block
  <2>3. /\ heap'[b] \in Block /\ heap'[b].pc = job.pc /\ heap'[b].pn = NULL
        /\ heap'[b].end = BlockEnd[job.pc]
        /\ heap'[b].off = open /\ heap'[b].size = actual
        /\ heap'[b].code = [w \in Words(job.pc) |-> mem[w]]
    BY <1>3, <1>5
  <2> QED BY <1>2, <1>4, <1>5, <1>6, <2>1, <2>2, <2>3, Zenon

\* What Link records, if anything.
LEMMA LinkFacts ==
    ASSUME Inv, Link
    PROVE  /\ DOMAIN heap' = DOMAIN heap /\ table' = table
           /\ \A b \in DOMAIN heap : heap'[b] \in Block /\ SameCode(heap'[b], heap[b])
           /\ \A b \in DOMAIN heap :
                 \/ SamePrediction(heap'[b], heap[b])
                 \/ /\ b = prev /\ prev \in table /\ ~ moved /\ ~ opts.no_cache
                    /\ heap'[b].pn = got /\ heap'[b].pnpc = pcr
                    /\ heap'[b].entry = "body" => Compat(heap[b], heap[got])
<1>0. /\ Descriptors(heap) /\ table \subseteq DOMAIN heap /\ pcr \in Pc
      /\ got \in BlockId \cup {NULL} /\ table' = table /\ ctl = "link" /\ got # NULL
  BY DEF Inv, Typed, TypeOK, Descriptors, Link
<1>1. CASE ~ (KeptPrev # NULL /\ ~ opts.no_cache)
  <2>1. heap' = heap
    BY <1>1 DEF Link
  <2> QED BY <1>0, <2>1 DEF Descriptors, SameCode, SamePrediction
<1>2. CASE KeptPrev # NULL /\ ~ opts.no_cache
  <2>1. ~ moved /\ prev # NULL /\ KeptPrev = prev
    BY <1>2 DEF KeptPrev
  <2>2. prev \in table
    BY <2>1 DEF Inv, LinkInv, PrevLive
  <2> DEFINE how == IF Compat(heap[prev], heap[got]) THEN "body" ELSE "chain"
  <2>3. heap' = [heap EXCEPT ![prev].pn = got, ![prev].pnpc = pcr, ![prev].entry = how]
    BY <1>2, <2>1 DEF Link
  <2>4. how \in {"body", "chain"} /\ (how = "body" => Compat(heap[prev], heap[got]))
    OBVIOUS
  <2> HIDE DEF how
  <2>5. /\ DOMAIN heap' = DOMAIN heap
        /\ \A b \in DOMAIN heap : b # prev => heap'[b] = heap[b]
        /\ heap'[prev] = [heap[prev] EXCEPT !.pn = got, !.pnpc = pcr, !.entry = how]
    BY <1>0, <2>2, <2>3
  <2>6. heap[prev] \in Block
    BY <1>0, <2>2 DEF Descriptors
  <2>7. /\ heap'[prev] \in Block /\ SameCode(heap'[prev], heap[prev])
        /\ heap'[prev].pn = got /\ heap'[prev].pnpc = pcr /\ heap'[prev].entry = how
    BY <1>0, <2>4, <2>5, <2>6 DEF Block, SameCode
  <2> QED BY <1>0, <1>2, <2>1, <2>2, <2>4, <2>5, <2>7
          DEF Descriptors, SameCode, SamePrediction
<1> QED BY <1>1, <1>2

\* Every step leaves well-formed descriptors.
LEMMA TypedHeapNext ==
    ASSUME Inv, [Next]_vars
    PROVE  TypedHeap'
<1>0. TypedHeap
  BY DEF Inv, Typed, TypeOK, TypedHeap, Descriptors
<1>1. CASE ShrinkStep
  BY <1>0, <1>1 DEF ShrinkStep, Shrunk, TypedHeap, Descriptors
<1>2. CASE Link
  BY <1>0, <1>2, LinkFacts DEF TypedHeap, Descriptors
<1>3. CASE EmitDone
  BY <1>0, <1>3, EmitDoneFacts DEF TypedHeap, Descriptors
<1> QED BY <1>1, <1>2, <1>3, TableSteps

\* cc_align yields a size.
LEMMA CcAlignNat ==
    ASSUME NEW v \in Nat
    PROVE  CcAlign(v) \in Nat /\ LruSize(v) \in Nat
BY DEF CcAlign, CC_ALIGN, LruSize, HdrSize

\* The free list stays a set of spans.
LEMMA FreeTyped ==
    ASSUME NEW F, F \subseteq Span, NEW o \in Nat, NEW n \in Nat
    PROVE  LruFree(F, o, n) \subseteq Span /\ FreedList(F, o, n) \subseteq Span
<1> DEFINE size   == LruSize(n)
           after  == {s \in NextSpan(F, o) : o + size = s.off}
           before == {s \in PrevSpan(F, o) : s.off + s.size = o}
           lo     == IF before = {} THEN o ELSE (CHOOSE s \in before : TRUE).off
           hi     == IF after = {} THEN o + size
                     ELSE LET s == CHOOSE s \in after : TRUE IN s.off + s.size
<1>0. LruFree(F, o, n) = (F \ (before \cup after)) \cup {[off |-> lo, size |-> hi - lo]}
  BY Zenon DEF LruFree
<1>1. size \in Nat
  BY CcAlignNat
<1>2. /\ \A s \in before : s \in Span /\ s.off + s.size = o
      /\ \A s \in after : s \in Span /\ o + size = s.off
  BY DEF PrevSpan, NextSpan
<1>3. \/ lo = o
      \/ \E s \in before : lo = s.off
  OBVIOUS
<1>4. \/ hi = o + size
      \/ \E s \in after : hi = s.off + s.size
  OBVIOUS
<1> HIDE DEF before, after, lo, hi, size
<1>5. lo \in Nat /\ hi \in Nat /\ lo <= o /\ o <= hi
  BY <1>1, <1>2, <1>3, <1>4 DEF Span
<1>6. LruFree(F, o, n) \subseteq Span
  BY <1>0, <1>5 DEF Span
<1> QED BY <1>6 DEF FreedList

\* So it does when a reservation is trimmed.
LEMMA TrimTyped ==
    ASSUME NEW F, F \subseteq Span, NEW o \in Nat, NEW a \in Nat, NEW r \in Nat,
           used \in Nat
    PROVE  TrimmedList(F, o, a, r) \subseteq Span /\ TrimmedCursor(used, o, a) \in Nat
<1>1. CcAlign(a) \in Nat /\ CcAlign(r) \in Nat
  BY CcAlignNat
<1>2. TrimmedCursor(used, o, a) \in Nat
  BY <1>1 DEF TrimmedCursor
<1>3. CASE mode = LRU /\ CcAlign(r) > CcAlign(a)
  <2>1. o + CcAlign(a) \in Nat /\ CcAlign(r) - CcAlign(a) \in Nat
    BY <1>1, <1>3
  <2> QED BY <1>2, <1>3, <2>1, FreeTyped DEF TrimmedList
<1>4. CASE ~ (mode = LRU /\ CcAlign(r) > CcAlign(a))
  BY <1>2, <1>4 DEF TrimmedList
<1> QED BY <1>3, <1>4

ArenaTyped == used \in Nat /\ open \in Nat /\ free \subseteq Span

\* Every step leaves a well-formed arena.
LEMMA ArenaTypedNext ==
    ASSUME Inv, [Next]_vars
    PROVE  ArenaTyped'
<1>0. ArenaTyped /\ Cap \in Nat
  BY ArenaAssumption DEF Inv, Typed, TypeOK, ArenaTyped, Cap, CC_ALIGN
<1>1. ASSUME Calling
      PROVE  job.pc \in Pc /\ Reserve[job.pc] \in Nat /\ Actual[job.pc] \subseteq Nat
  BY <1>1, BlockAssumption DEF Inv, Typed
<1>w. WholeArena \subseteq Span
  BY <1>0 DEF WholeArena, Span
<1>2. ASSUME \/ UNCHANGED vars
             \/ Interrupt \/ SonyService \/ Idle \/ ChainHit \/ ChainMiss
             \/ FindHit \/ FindMiss \/ CompileBlock
             \/ GiveUp \/ Link \/ Enter \/ HelperStore \/ InlineStore
             \/ \E effect \in Effects : Interpret(effect) \/ BlockEnds(effect)
             \/ NativeChain \/ Finished
      PROVE  ArenaTyped'
  <2>1. UNCHANGED arena
    BY <1>2 DEF vars, Interrupt, SonyService, Idle, ChainHit, ChainMiss, FindHit,
       FindMiss, CompileBlock, GiveUp, Link, Enter, HelperStore, InlineStore,
       Interpret, BlockEnds, NativeChain, Finished
  <2> QED BY <1>0, <2>1 DEF ArenaTyped, arena
<1>3. ASSUME LruTake PROVE ArenaTyped'
  <2>1. Reserve[job.pc] \in Nat /\ LruSize(Reserve[job.pc]) \in Nat
    BY <1>1, <1>3, CcAlignNat DEF LruTake, Calling
  <2>2. PICK s \in FirstFit(free, LruSize(Reserve[job.pc])) :
           free' = Carve(free, s, LruSize(Reserve[job.pc])) /\ open' = s.off
    BY <1>3 DEF LruTake, Allocated
  <2>3. s \in Span /\ used' = used
    BY <1>0, <1>3 DEF FirstFit, ArenaTyped, LruTake
  <2>4. free' \subseteq Span
    BY <1>0, <2>1, <2>2, <2>3 DEF Carve, HdrSize, Span, ArenaTyped
  <2> QED BY <1>0, <2>2, <2>3, <2>4 DEF ArenaTyped, Span
<1>4. ASSUME LruEvict PROVE ArenaTyped'
  <2>1. PICK victim \in table :
           free' = LruFree(free, heap[victim].off, heap[victim].size)
    BY <1>4 DEF LruEvict, Coldest
  <2>2. heap[victim].off \in Nat /\ heap[victim].size \in Nat
    BY DEF Inv, Typed, TypeOK, Block
  <2>3. UNCHANGED <<used, open>>
    BY <1>4 DEF LruEvict
  <2> QED BY <1>0, <2>1, <2>2, <2>3, FreeTyped DEF ArenaTyped
<1>5. ASSUME FifoTake PROVE ArenaTyped'
  <2>1. CcAlign(Reserve[job.pc]) \in Nat
    BY <1>1, <1>5, CcAlignNat DEF FifoTake, Calling
  <2> QED BY <1>0, <1>5, <2>1 DEF FifoTake, FifoStart, Allocated, ArenaTyped
<1>6. ASSUME BumpTake \/ AllocNull PROVE ArenaTyped'
  <2>1. Reserve[job.pc] \in Nat /\ CcAlign(used) \in Nat
    BY <1>0, <1>1, <1>6, CcAlignNat DEF BumpTake, AllocNull, Calling, ArenaTyped
  <2> QED BY <1>0, <1>6, <2>1 DEF BumpTake, AllocNull, Allocated, ArenaTyped
<1>7. ASSUME EmitOverflow PROVE ArenaTyped'
  <2>1. Reserve[job.pc] \in Nat
    BY <1>1, <1>7 DEF EmitOverflow, Calling
  <2> QED BY <1>0, <1>7, <2>1, FreeTyped DEF EmitOverflow, ArenaTyped
<1>8. ASSUME EmitNoMemory PROVE ArenaTyped'
  <2>1. Reserve[job.pc] \in Nat /\ Actual[job.pc] \subseteq Nat
    BY <1>1, <1>8 DEF EmitNoMemory, Calling
  <2>2. PICK actual \in Actual[job.pc] :
           /\ free' = FreedList(TrimmedList(free, open, actual, Reserve[job.pc]),
                                open, actual)
           /\ used' = TrimmedCursor(used, open, actual)
    BY <1>8 DEF EmitNoMemory
  <2>3. open' = 0
    BY <1>8 DEF EmitNoMemory
  <2> QED BY <1>0, <2>1, <2>2, <2>3, FreeTyped, TrimTyped DEF ArenaTyped
<1>9. ASSUME EmitDone PROVE ArenaTyped'
  <2>1. Reserve[job.pc] \in Nat /\ Actual[job.pc] \subseteq Nat
    BY <1>1, <1>9 DEF EmitDone, Calling
  <2>2. PICK actual \in Actual[job.pc] :
           /\ free' = TrimmedList(free, open, actual, Reserve[job.pc])
           /\ used' = TrimmedCursor(used, open, actual)
    BY <1>9, EmitDoneFacts
  <2>3. open' = 0
    BY <1>9 DEF EmitDone
  <2> QED BY <1>0, <2>1, <2>2, <2>3, TrimTyped DEF ArenaTyped
<1>10. ASSUME ResetAndRetry \/ Return PROVE ArenaTyped'
  <2>1. free' \in {free, WholeArena} /\ used' \in {used, 0} /\ open' = open
    BY <1>10 DEF ResetAndRetry, Return
  <2> QED BY <1>0, <1>w, <2>1 DEF ArenaTyped
<1> QED BY <1>2, <1>3, <1>4, <1>5, <1>6, <1>7, <1>8, <1>9, <1>10 DEF Next

Request == [pc : Pc, depth : Nat]

\* The prefetch calls a block seeds are calls for even addresses.
LEMMA SeedsTyped ==
    ASSUME Inv, ctl = "emit"
    PROVE  Prefetched \in Seq(Request)
<1>1. job.pc \in Pc /\ job.depth \in Int /\ todo \in Seq(Request)
  BY DEF Inv, Typed, TypeOK, Calling, Request
<1>2. /\ Succ[job.pc] \in Seq(Pc \cup {OddPc})
  BY <1>1, SuccAssumption
<1>3. ASSUME NEW i \in 1 .. 2, NEW d \in Nat
      PROVE  SeedOf(i, d) \in Seq(Request)
  <2>1. CASE i <= Len(Succ[job.pc]) /\ Succ[job.pc][i] # OddPc
    <3>1. Succ[job.pc][i] \in Pc
      BY <1>2, <2>1
    <3>2. [pc |-> Succ[job.pc][i], depth |-> d] \in Request
      BY <3>1 DEF Request
    <3>3. SeedOf(i, d) = <<[pc |-> Succ[job.pc][i], depth |-> d]>>
      BY <2>1 DEF SeedOf
    <3> QED BY <3>2, <3>3
  <2>2. CASE ~ (i <= Len(Succ[job.pc]) /\ Succ[job.pc][i] # OddPc)
    <3>1. SeedOf(i, d) = <<>>
      BY <2>2 DEF SeedOf
    <3> QED BY <3>1
  <2> QED BY <2>1, <2>2
<1>4. SeedOf(1, 0) \o SeedOf(2, 0) \in Seq(Request)
  <2>1. SeedOf(1, 0) \in Seq(Request) /\ SeedOf(2, 0) \in Seq(Request)
    BY <1>3
  <2> QED BY <2>1
<1> DEFINE depth == (IF Prefetching THEN job.depth ELSE PrefetchDepth) - 1
<1>5. depth >= 0 => SeedOf(1, depth) \in Seq(Request)
  <2>1. depth \in Int
    BY <1>1, LimitAssumption
  <2> HIDE DEF depth
  <2> QED BY <1>3, <2>1
<1>6. Seeds \in Seq(Request)
  <2>1. <<>> \in Seq(Request)
    OBVIOUS
  <2>2. Seeds \in {SeedOf(1, 0) \o SeedOf(2, 0), <<>>}
        \/ (depth >= 0 /\ Seeds = SeedOf(1, depth))
    BY DEF Seeds
  <2> QED BY <1>4, <1>5, <2>1, <2>2
<1> HIDE DEF depth
<1>7. todo \o Seeds \in Seq(Request)
  BY <1>1, <1>6
<1> QED BY <1>7 DEF Prefetched

\* Returning from a call of get_block_impl.
LEMMA NextCallFacts ==
    ASSUME NEW rest \in Seq(Request), NextCall(rest)
    PROVE  /\ todo' \in Seq(Request)
           /\ \/ rest = <<>> /\ todo' = <<>> /\ job' = job /\ ctl' = "link"
              \/ rest # <<>> /\ job' \in Request /\ ctl' = "find"
<1>1. CASE rest = <<>>
  BY <1>1 DEF NextCall
<1>2. CASE rest # <<>>
  BY <1>2 DEF NextCall
<1> QED BY <1>1, <1>2

CallTyped ==
    /\ job \in [pc : Pc \cup {NoPc}, depth : Int]
    /\ todo \in Seq(Request)
    /\ Calling => job.pc \in Pc
    /\ ctl \in {"head", "find", "compile", "alloc", "emit", "failed", "link",
                "enter", "body", "exit"}

\* Every step leaves well-formed calls.
LEMMA CallTypedNext ==
    ASSUME Inv, [Next]_vars
    PROVE  CallTyped'
<1>0. CallTyped /\ pcr \in Pc
  BY DEF Inv, Typed, TypeOK, CallTyped, Request
<1>r. \A r \in Request : r \in [pc : Pc \cup {NoPc}, depth : Int] /\ r.pc \in Pc
  BY DEF Request
<1>1. ASSUME \/ UNCHANGED vars
             \/ Interrupt \/ SonyService \/ Idle \/ HelperStore \/ InlineStore \/ Finished
             \/ FindMiss \/ CompileBlock
             \/ LruTake \/ LruEvict \/ FifoTake \/ BumpTake \/ AllocNull
             \/ EmitOverflow \/ EmitNoMemory \/ ResetAndRetry
      PROVE  CallTyped'
  <2>1. /\ job' = job /\ todo' = todo
        /\ \/ ctl' = ctl
           \/ Calling /\ ctl' \in {"compile", "alloc", "emit", "failed"}
    BY <1>1 DEF vars, getter, Interrupt, SonyService, Idle, HelperStore, InlineStore,
       Finished, FindMiss, CompileBlock, LruTake, LruEvict, FifoTake, BumpTake,
       AllocNull, EmitOverflow, EmitNoMemory, ResetAndRetry, Allocated, Calling
  <2> QED BY <1>0, <2>1 DEF CallTyped, Calling
<1>2. ASSUME ChainHit \/ Enter \/ NativeChain
             \/ \E effect \in Effects : BlockEnds(effect)
      PROVE  CallTyped'
  <2>1. job' = job /\ todo' = todo /\ ctl' \in {"enter", "body", "exit"}
    BY <1>2 DEF ChainHit, Enter, NativeChain, BlockEnds, getter
  <2> QED BY <1>0, <2>1 DEF CallTyped, Calling
<1>3. ASSUME ChainMiss PROVE CallTyped'
  <2>1. job' = [pc |-> pcr, depth |-> 0 - 1] /\ todo' = <<>> /\ ctl' = "find"
    BY <1>3 DEF ChainMiss
  <2> QED BY <1>0, <2>1 DEF CallTyped, Calling, NoPc
<1>4. ASSUME FindHit \/ GiveUp \/ EmitDone PROVE CallTyped'
  <2>1. PICK rest \in Seq(Request) : NextCall(rest)
    BY <1>0, <1>4, SeedsTyped DEF FindHit, GiveUp, EmitDone, CallTyped
  <2>2. /\ todo' \in Seq(Request)
        /\ \/ job' = job /\ ctl' = "link"
           \/ job' \in Request /\ ctl' = "find"
    BY <2>1, NextCallFacts
  <2> QED BY <1>0, <1>r, <2>2 DEF CallTyped, Calling
<1>5. ASSUME Link PROVE CallTyped'
  <2>1. job' = NoJob /\ todo' = todo /\ ctl' = "enter"
    BY <1>5 DEF Link
  <2> QED BY <1>0, <2>1 DEF CallTyped, Calling, NoJob, NoPc
<1>6. ASSUME Return \/ \E effect \in Effects : Interpret(effect) PROVE CallTyped'
  <2>1. job' = NoJob /\ todo' = <<>> /\ ctl' = "head"
    BY <1>6 DEF Return, Interpret, HeadOfLoop
  <2> QED BY <1>0, <2>1 DEF CallTyped, Calling, NoJob, NoPc
<1> QED BY <1>1, <1>2, <1>3, <1>4, <1>5, <1>6 DEF Next

\* What smc_watch does to the queue and to the chain budget.
LEMMA WatchFacts ==
    ASSUME NEW ws, Watch(ws), dirty \subseteq codePages, overflow \in BOOLEAN
    PROVE  /\ codePages' = codePages /\ dirty' \subseteq codePages
           /\ dirty \subseteq dirty'
           /\ overflow' \in BOOLEAN /\ (overflow => overflow')
           /\ budget' \in {budget, 0}
           /\ \A w \in ws : Page(w) \in codePages => Page(w) \in dirty' \/ overflow'
           /\ dirty = {} /\ ~ overflow => budget' = 0 \/ (dirty' = {} /\ ~ overflow')
<1> DEFINE hit == {Page(w) : w \in ws} \cap codePages
           all == dirty \cup hit
<1>1. /\ budget' = IF hit = {} THEN budget ELSE 0
      /\ \/ /\ Cardinality(all) <= MaxDirty
            /\ dirty' = all
            /\ overflow' = overflow
         \/ /\ Cardinality(all) > MaxDirty
            /\ \E kept \in SUBSET all :
                  /\ dirty \subseteq kept
                  /\ Cardinality(kept) = MaxDirty
                  /\ dirty' = kept
            /\ overflow' = TRUE
      /\ codePages' = codePages
  BY DEF Watch
<1>2. hit \subseteq codePages /\ \A w \in ws : Page(w) \in codePages => Page(w) \in all
  OBVIOUS
<1>3. dirty = {} /\ hit = {} => Cardinality(all) = 0
  BY FS_EmptySet
<1> HIDE DEF hit
<1>4. /\ dirty' \subseteq codePages /\ dirty \subseteq dirty'
      /\ overflow' \in BOOLEAN /\ (overflow => overflow')
      /\ dirty' = all \/ overflow'
  BY <1>1, <1>2
<1>5. dirty = {} /\ ~ overflow => budget' = 0 \/ (dirty' = {} /\ ~ overflow')
  <2> SUFFICES ASSUME dirty = {}, ~ overflow, hit = {}
               PROVE  dirty' = {} /\ ~ overflow'
    BY <1>1
  <2>1. all = {} /\ Cardinality(all) = 0
    BY <1>3
  <2> QED BY <1>1, <2>1, LimitAssumption
<1> QED BY <1>1, <1>2, <1>4, <1>5

SmcTyped ==
    /\ mem \in [Word -> Val]
    /\ codePages \subseteq Nat /\ dirty \subseteq codePages
    /\ overflow \in BOOLEAN /\ budget \in Nat

\* The pages of a block are page numbers.
LEMMA PageNat ==
    ASSUME NEW w \in Nat
    PROVE  /\ Page(w) \in Nat
           /\ Page(w) * PageWords <= w /\ w < (Page(w) + 1) * PageWords
<1>1. PageWords \in Nat /\ PageWords > 0
  BY WordAssumption
<1> QED BY <1>1 DEF Page

\* smc_mark_block marks page numbers only.
LEMMA MarkedTyped ==
    ASSUME NEW lo \in Nat, NEW hi \in Nat, lo < hi
    PROVE  MarkedPages(lo, hi) \subseteq Nat
<1>1. \A w \in lo .. hi - 1 : w \in Nat /\ Page(w) \in Nat
  BY PageNat
<1>2. hi - 1 \in lo .. hi - 1
  OBVIOUS
<1> QED BY <1>1, <1>2 DEF MarkedPages

\* A frame that is pushed is a store or two through the write watch.
LEMMA PushFrameFacts ==
    ASSUME SmcTyped, PushFrame
    PROVE  \/ UNCHANGED <<mem, smc, budget>>
           \/ \E ws \in SUBSET Word :
                 /\ "event" \in StoresBy
                 /\ mem' \in [Word -> Val] /\ \A w \in Word \ ws : mem'[w] = mem[w]
                 /\ Watch(ws)
<1>1. CASE mem' = mem /\ UNCHANGED <<smc, budget>>
  BY <1>1
<1>2. CASE \E sp \in Word, frame \in [0 .. 1 -> Val] :
              /\ "event" \in StoresBy /\ sp + 1 \in Word
              /\ mem' = [mem EXCEPT ![sp] = frame[0], ![sp + 1] = frame[1]]
              /\ Watch({sp, sp + 1})
  <2>1. PICK sp \in Word, frame \in [0 .. 1 -> Val] :
              /\ "event" \in StoresBy /\ sp + 1 \in Word
              /\ mem' = [mem EXCEPT ![sp] = frame[0], ![sp + 1] = frame[1]]
              /\ Watch({sp, sp + 1})
    BY <1>2
  <2>2. frame[0] \in Val /\ frame[1] \in Val
    OBVIOUS
  <2>3. /\ mem' \in [Word -> Val]
        /\ \A w \in Word \ {sp, sp + 1} : mem'[w] = mem[w]
    BY <2>1, <2>2 DEF SmcTyped
  <2> QED BY <2>1, <2>3
<1> QED BY <1>1, <1>2 DEF PushFrame

\* A watched store: to the words ws, by a helper, a frame or the interpreter.
StoreStep(ws) ==
    /\ mem' \in [Word -> Val] /\ \A w \in Word \ ws : mem'[w] = mem[w]
    /\ Watch(ws)

\* Who stores through the write watch, and when.
LEMMA StoreSteps ==
    ASSUME Inv, \/ Interrupt \/ SonyService \/ HelperStore
                \/ \E effect \in Effects : Interpret(effect)
    PROVE  \/ UNCHANGED <<mem, smc, budget>>
           \/ /\ \E ws \in SUBSET Word : StoreStep(ws)
              /\ IF HelperStore THEN "helper" \in StoresBy
                 ELSE StoresBy \cap {"helper", "event"} # {}
<1>0. SmcTyped
  BY DEF Inv, Typed, TypeOK, SmcTyped
<1>1. CASE Interrupt \/ SonyService
  <2>1. PushFrame /\ ctl = "head"
    BY <1>1 DEF Interrupt, SonyService, Running
  <2>2. ~ HelperStore
    BY <2>1 DEF HelperStore
  <2> QED BY <1>0, <2>1, <2>2, PushFrameFacts DEF StoreStep
<1>2. CASE HelperStore
  <2>1. PICK w \in Word, v \in Val : mem' = [mem EXCEPT ![w] = v] /\ Watch({w})
    BY <1>2 DEF HelperStore
  <2>2. mem' \in [Word -> Val] /\ \A u \in Word \ {w} : mem'[u] = mem[u]
    BY <1>0, <2>1 DEF SmcTyped
  <2> QED BY <1>2, <2>1, <2>2 DEF HelperStore, StoreStep
<1>3. CASE \E effect \in Effects : Interpret(effect)
  <2>1. ctl = "link" /\ \/ UNCHANGED <<mem, smc, budget>>
                        \/ \E w \in Word, v \in Val :
                              /\ StoresBy \cap {"helper", "event"} # {}
                              /\ mem' = [mem EXCEPT ![w] = v]
                              /\ Watch({w})
    BY <1>3 DEF Interpret
  <2>2. ~ HelperStore
    BY <2>1 DEF HelperStore
  <2>3. ASSUME NEW w \in Word, NEW v \in Val, mem' = [mem EXCEPT ![w] = v], Watch({w})
        PROVE  \E ws \in SUBSET Word : StoreStep(ws)
    <3>1. mem' \in [Word -> Val] /\ \A u \in Word \ {w} : mem'[u] = mem[u]
      BY <1>0, <2>3 DEF SmcTyped
    <3> QED BY <2>3, <3>1 DEF StoreStep
  <2> QED BY <2>1, <2>2, <2>3
<1> QED BY <1>1, <1>2, <1>3

\* Every step leaves well-formed tracking state.
LEMMA SmcTypedNext ==
    ASSUME Inv, [Next]_vars
    PROVE  SmcTyped'
<1>0. SmcTyped /\ mode \in EvictModes /\ opts \in Options[mode]
  BY DEF Inv, Typed, TypeOK, SmcTyped
<1>b. opts.budget \in Nat
  BY <1>0, OptionsAssumption
<1>1. ASSUME \/ UNCHANGED vars
             \/ Idle \/ ChainHit \/ ChainMiss \/ FindHit \/ FindMiss \/ CompileBlock
             \/ LruTake \/ LruEvict \/ FifoTake \/ BumpTake \/ AllocNull
             \/ EmitOverflow \/ EmitNoMemory \/ ResetAndRetry \/ GiveUp
             \/ Link \/ Finished
      PROVE  SmcTyped'
  <2>1. UNCHANGED <<mem, smc, budget>>
    BY <1>1 DEF vars, native, Idle, ChainHit, ChainMiss, FindHit, FindMiss,
       CompileBlock, LruTake, LruEvict, FifoTake, BumpTake, AllocNull,
       EmitOverflow, EmitNoMemory, ResetAndRetry, GiveUp, Link, Finished
  <2> QED BY <1>0, <2>1 DEF SmcTyped, smc
<1>2. ASSUME \/ Interrupt \/ SonyService \/ HelperStore
             \/ \E effect \in Effects : Interpret(effect)
      PROVE  SmcTyped'
  <2>1. CASE UNCHANGED <<mem, smc, budget>>
    BY <1>0, <2>1 DEF SmcTyped, smc
  <2>2. CASE \E ws \in SUBSET Word : StoreStep(ws)
    <3>1. PICK ws \in SUBSET Word : mem' \in [Word -> Val] /\ Watch(ws)
      BY <2>2 DEF StoreStep
    <3>2. /\ codePages' = codePages /\ dirty' \subseteq codePages
          /\ overflow' \in BOOLEAN /\ budget' \in {budget, 0}
      BY <1>0, <3>1, WatchFacts DEF SmcTyped
    <3> QED BY <1>0, <3>1, <3>2 DEF SmcTyped
  <2> QED BY <1>2, <2>1, <2>2, StoreSteps
<1>3. ASSUME InlineStore PROVE SmcTyped'
  <2>1. /\ \E w \in Word, v \in Val : mem' = [mem EXCEPT ![w] = v]
        /\ UNCHANGED <<codePages, dirty, overflow, budget>>
    BY <1>3 DEF InlineStore, smc, native
  <2>2. mem' \in [Word -> Val]
    BY <1>0, <2>1 DEF SmcTyped
  <2> QED BY <1>0, <2>1, <2>2 DEF SmcTyped
<1>4. ASSUME Enter \/ NativeChain \/ \E effect \in Effects : BlockEnds(effect)
      PROVE  SmcTyped'
  <2>1. UNCHANGED <<mem, smc>>
    BY <1>4 DEF Enter, NativeChain, BlockEnds
  <2>2. budget' \in Nat
    BY <1>0, <1>4, <1>b DEF Enter, NativeChain, CanChain, BlockEnds, SmcTyped
  <2> QED BY <1>0, <2>1, <2>2 DEF SmcTyped, smc
<1>5. ASSUME EmitDone PROVE SmcTyped'
  <2>1. UNCHANGED <<mem, dirty, overflow, budget>>
    BY <1>5 DEF EmitDone, native
  <2>2. job.pc \in Nat /\ BlockEnd[job.pc] \in Nat /\ job.pc < BlockEnd[job.pc]
    BY <1>5, BlockAssumption, PcAssumption, WordAssumption
       DEF EmitDone, Inv, Typed, Calling
  <2>3. codePages' \in {codePages, codePages \cup MarkedPages(job.pc, BlockEnd[job.pc])}
    BY <1>5, EmitDoneFacts
  <2>4. MarkedPages(job.pc, BlockEnd[job.pc]) \subseteq Nat
    BY <2>2, MarkedTyped
  <2> QED BY <1>0, <2>1, <2>3, <2>4 DEF SmcTyped
<1>6. ASSUME Return PROVE SmcTyped'
  <2>1. UNCHANGED <<mem, budget>>
    BY <1>6 DEF Return
  <2>2. \/ UNCHANGED smc
        \/ codePages' \in {codePages, {}} /\ dirty' = {} /\ overflow' = FALSE
    BY <1>6 DEF Return
  <2> QED BY <1>0, <2>1, <2>2 DEF SmcTyped, smc
<1> QED BY <1>1, <1>2, <1>3, <1>4, <1>5, <1>6 DEF Next

PointersTyped ==
    /\ prev \in BlockId \cup {NULL} /\ got \in BlockId \cup {NULL}
    /\ cur \in BlockId \cup {NULL}
    /\ retried \in BOOLEAN /\ moved \in BOOLEAN
    /\ start \in {"none", "entry", "chain", "body"} /\ chained \in BOOLEAN

CpuTyped ==
    /\ mode \in EvictModes /\ opts \in Options[mode]
    /\ pcr \in Pc /\ cycles \in Nat
    /\ stopped \in BOOLEAN /\ halted \in BOOLEAN

\* Every step leaves a well-formed processor state.
LEMMA CpuTypedNext ==
    ASSUME Inv, [Next]_vars
    PROVE  CpuTyped'
<1>0. CpuTyped
  BY DEF Inv, Typed, TypeOK, CpuTyped
<1>1. ASSUME \/ UNCHANGED vars
             \/ ChainHit \/ ChainMiss \/ FindHit \/ FindMiss \/ CompileBlock
             \/ LruTake \/ LruEvict \/ FifoTake \/ BumpTake \/ AllocNull
             \/ EmitOverflow \/ EmitNoMemory \/ EmitDone \/ ResetAndRetry \/ GiveUp
             \/ Link \/ Enter \/ HelperStore \/ InlineStore
             \/ NativeChain \/ Return \/ Finished
      PROVE  CpuTyped'
  <2>1. UNCHANGED <<config, cpu>>
    BY <1>1 DEF vars, ChainHit, ChainMiss, FindHit, FindMiss, CompileBlock, LruTake,
       LruEvict, FifoTake, BumpTake, AllocNull, EmitOverflow, EmitNoMemory, EmitDone,
       ResetAndRetry, GiveUp, Link, Enter, HelperStore, InlineStore, NativeChain,
       Return, Finished
  <2> QED BY <1>0, <2>1 DEF CpuTyped, config, cpu
<1>2. ASSUME \/ Interrupt \/ SonyService \/ Idle
             \/ \E effect \in Effects : Interpret(effect) \/ BlockEnds(effect)
      PROVE  CpuTyped'
  <2>1. /\ UNCHANGED config /\ pcr' \in Pc /\ cycles' \in {cycles, cycles + 1}
        /\ stopped' \in BOOLEAN /\ halted' \in BOOLEAN
    BY <1>0, <1>2 DEF Interrupt, SonyService, Idle, Interpret, BlockEnds, Executed,
       Elapse, CpuTyped
  <2> QED BY <1>0, <2>1 DEF CpuTyped, config
<1> QED BY <1>1, <1>2 DEF Next

\* Every step leaves well-formed block pointers.
LEMMA PointersTypedNext ==
    ASSUME Inv, [Next]_vars
    PROVE  PointersTyped'
<1>0. PointersTyped /\ TypedHeap
  BY DEF Inv, Typed, TypeOK, PointersTyped, TypedHeap, Descriptors
<1>1. ASSUME \/ UNCHANGED vars
             \/ Interrupt \/ SonyService \/ Idle
             \/ ChainMiss \/ FindMiss \/ CompileBlock \/ LruTake \/ LruEvict \/ FifoTake
             \/ BumpTake \/ AllocNull \/ EmitOverflow \/ EmitNoMemory
             \/ ResetAndRetry \/ GiveUp \/ Enter \/ HelperStore \/ InlineStore
             \/ (\E effect \in Effects : BlockEnds(effect)) \/ Finished
      PROVE  PointersTyped'
  <2>1. /\ prev' \in {prev, NULL} /\ got' \in {got, NULL} /\ UNCHANGED <<cur, start, chained>>
        /\ retried' \in {retried, TRUE, FALSE}
    BY <1>1 DEF vars, getter, native, Interrupt, SonyService, Idle, ChainMiss, FindMiss,
       CompileBlock, LruTake, LruEvict, FifoTake, BumpTake, AllocNull, EmitOverflow,
       EmitNoMemory, ResetAndRetry, GiveUp, Enter, HelperStore, InlineStore, BlockEnds,
       Finished
  <2>2. moved' \in BOOLEAN
    BY <1>0, <1>1 DEF vars, getter, Interrupt, SonyService, Idle, ChainMiss, FindMiss,
       CompileBlock, LruTake, LruEvict, FifoTake, BumpTake, AllocNull, EmitOverflow,
       EmitNoMemory, ResetAndRetry, GiveUp, Enter, HelperStore, InlineStore, BlockEnds,
       Finished, PointersTyped
  <2> QED BY <1>0, <2>1, <2>2 DEF PointersTyped
<1>2. ASSUME ChainHit PROVE PointersTyped'
  <2>1. prev \in DOMAIN heap
    BY <1>0, <1>2 DEF ChainHit, Running, Predicted, Inv, LinkInv, PrevLive, InGetBlock,
       TypedHeap
  <2>2. heap[prev].pn \in BlockId \cup {NULL} /\ heap[prev].entry \in {"none", "chain", "body"}
    BY <1>0, <2>1 DEF TypedHeap, Descriptors, Block
  <2>3. /\ got' = heap[prev].pn /\ cur' = got' /\ chained' = FALSE
        /\ start' \in {"entry", heap[prev].entry} /\ UNCHANGED <<prev, retried, moved>>
    BY <1>2 DEF ChainHit
  <2> QED BY <1>0, <2>2, <2>3 DEF PointersTyped
<1>3. ASSUME FindHit PROVE PointersTyped'
  BY <1>0, <1>3 DEF FindHit, FindBlock, PointersTyped, TypedHeap, native
<1>4. ASSUME EmitDone PROVE PointersTyped'
  <2>1. got' \in BlockId \cup {NULL}
    BY <1>0, <1>4, EmitDoneFacts DEF PointersTyped
  <2>2. UNCHANGED <<prev, retried, moved, cur, start, chained>>
    BY <1>4 DEF EmitDone, native
  <2> QED BY <1>0, <2>1, <2>2 DEF PointersTyped
<1>5. ASSUME Link PROVE PointersTyped'
  BY <1>0, <1>5 DEF Link, KeptPrev, PointersTyped
<1>6. ASSUME Return \/ \E effect \in Effects : Interpret(effect) PROVE PointersTyped'
  <2>1. /\ prev' \in {NULL, got} /\ got' = NULL /\ retried' = FALSE /\ moved' = FALSE
        /\ cur' = NULL /\ start' = "entry" /\ chained' = FALSE
    BY <1>6 DEF Return, Interpret, HeadOfLoop
  <2> QED BY <1>0, <2>1 DEF PointersTyped
<1>7. ASSUME NativeChain PROVE PointersTyped'
  <2>1. heap[cur] \in Block
    BY <1>0, <1>7 DEF NativeChain, Inv, RunInv, TypedHeap, Descriptors
  <2>2. /\ cur' = heap[cur].pn /\ start' = heap[cur].entry /\ chained' = TRUE
        /\ UNCHANGED <<prev, got, retried, moved>>
    BY <1>7 DEF NativeChain, getter
  <2>3. cur' \in BlockId \cup {NULL} /\ start' \in {"none", "chain", "body"}
    BY <2>1, <2>2 DEF Block
  <2> QED BY <1>0, <2>2, <2>3 DEF PointersTyped
<1> QED BY <1>1, <1>2, <1>3, <1>4, <1>5, <1>6, <1>7 DEF Next

\* Together: every step leaves a well-formed state.
LEMMA TypedNext ==
    ASSUME Inv, [Next]_vars
    PROVE  Typed'
<1>1. /\ TypedHeap' /\ ArenaTyped' /\ CallTyped' /\ SmcTyped'
      /\ PointersTyped' /\ CpuTyped'
  BY TypedHeapNext, ArenaTypedNext, CallTypedNext, SmcTypedNext, PointersTypedNext,
     CpuTypedNext
<1>2. todo' \in Seq([pc : Pc, depth : Int]) /\ todo' \in Seq([pc : Pc, depth : Nat])
  <2>1. todo' \in Seq(Request)
    BY <1>1 DEF CallTyped
  <2>2. \A S, T : S \subseteq T /\ todo' \in Seq(S) => todo' \in Seq(T)
    OBVIOUS
  <2>3. Request \subseteq [pc : Pc, depth : Int] /\ Request = [pc : Pc, depth : Nat]
    BY DEF Request
  <2> QED BY <2>1, <2>2, <2>3
<1>3. TypeOK'
  BY <1>1, <1>2 DEF TypeOK, TypedHeap, Descriptors, ArenaTyped, CallTyped, SmcTyped,
     PointersTyped, CpuTyped
<1> QED BY <1>1, <1>2, <1>3 DEF Typed, CallTyped

\* get_block's results and requests stay in step.
LEMMA GetInvNext ==
    ASSUME Inv, [Next]_vars
    PROVE  GetInv'
<1>0. /\ GetInv /\ TypedHeap /\ CallTyped /\ table \subseteq BlockId /\ NULL \notin BlockId
      /\ PointersTyped /\ pcr \in Pc
  BY NullAssumption DEF Inv, Typed, TypeOK, TypedHeap, CallTyped, Descriptors,
     PointersTyped, Request
<1>r. \A r \in Request : r.depth >= 0
  BY DEF Request
<1>1. ASSUME \/ UNCHANGED vars \/ Interrupt \/ SonyService \/ Idle \/ Finished
             \/ ChainHit \/ Enter \/ HelperStore \/ InlineStore \/ NativeChain
             \/ \E effect \in Effects : BlockEnds(effect)
      PROVE  GetInv'
  <2>1. CASE UNCHANGED vars
    <3>1. UNCHANGED <<retried, moved, ctl, got, job, todo, pcr, heap, opts>>
      BY <2>1 DEF vars, getter, cpu, config
    <3> QED BY <1>0, <3>1 DEF GetInv, Calling, Prefetching, InGetBlock
  <2>2. CASE \/ Interrupt \/ SonyService \/ Idle \/ Finished
    <3>1. UNCHANGED <<retried, moved, got>> /\ ctl = "head" /\ ctl' = "head"
      BY <2>2 DEF Interrupt, SonyService, Idle, Finished, Running, getter, vars
    <3> QED BY <1>0, <3>1 DEF GetInv, Calling, InGetBlock
  <2>3. CASE \/ ChainHit \/ Enter \/ HelperStore \/ InlineStore \/ NativeChain
             \/ \E effect \in Effects : BlockEnds(effect)
    <3>1. UNCHANGED <<retried, moved>> /\ ctl' \in {"enter", "body", "exit"}
      BY <2>3 DEF ChainHit, Enter, HelperStore, InlineStore, NativeChain, BlockEnds, getter
    <3> QED BY <1>0, <3>1 DEF GetInv, Calling, InGetBlock
  <2> QED BY <1>1, <2>1, <2>2, <2>3
<1>2. ASSUME ChainMiss PROVE GetInv'
  <2>1. /\ job'.pc = pcr /\ job'.depth = 0 - 1 /\ got' = NULL /\ todo' = <<>>
        /\ retried' = FALSE /\ moved' = FALSE /\ ctl' = "find" /\ pcr' = pcr
    BY <1>2 DEF ChainMiss, cpu
  <2> QED BY <2>1 DEF GetInv, Calling, Prefetching
<1>3. ASSUME \/ FindMiss \/ CompileBlock \/ LruTake \/ BumpTake \/ AllocNull
             \/ EmitOverflow \/ EmitNoMemory
      PROVE  GetInv'
  <2>1. /\ UNCHANGED <<retried, moved, got, job, todo, pcr, heap, opts>>
        /\ Calling /\ ctl' \in {"compile", "alloc", "emit", "failed"}
    BY <1>3 DEF FindMiss, CompileBlock, LruTake, BumpTake, AllocNull, EmitOverflow,
       EmitNoMemory, Allocated, getter, cpu, config, Calling
  <2> QED BY <1>0, <2>1 DEF GetInv, Calling, Prefetching, InGetBlock
<1>4. ASSUME LruEvict PROVE GetInv'
  <2>1. /\ UNCHANGED <<retried, got, job, todo, pcr, opts, ctl>> /\ Calling /\ ctl # "link"
        /\ moved' = TRUE
    BY <1>4 DEF LruEvict, cpu, config, Calling
  <2> QED BY <1>0, <2>1 DEF GetInv, Calling, Prefetching, InGetBlock
<1>5. ASSUME FifoTake PROVE GetInv'
  <2>1. /\ UNCHANGED <<retried, got, job, todo, pcr, opts>> /\ Calling /\ ctl' = "emit"
    BY <1>5 DEF FifoTake, Allocated, cpu, config, Calling
  <2>2. PICK V : /\ heap' = IF V = {} THEN heap ELSE Forget(Without(heap, V))
                 /\ moved' = (moved \/ V # {})
    BY <1>5 DEF FifoTake
  <2>3. (moved => moved') /\ (~ moved' => ~ moved /\ heap' = heap)
    BY <1>0, <2>2 DEF PointersTyped
  <2> QED BY <1>0, <2>1, <2>3 DEF GetInv, Calling, Prefetching, InGetBlock
<1>6. ASSUME ResetAndRetry PROVE GetInv'
  <2>1. /\ UNCHANGED <<got, job, todo, pcr, opts>> /\ Calling /\ ctl' = "compile"
        /\ moved' = TRUE
    BY <1>6 DEF ResetAndRetry, cpu, config, Calling
  <2> QED BY <1>0, <2>1 DEF GetInv, Calling, Prefetching, InGetBlock
<1>7. ASSUME FindHit PROVE GetInv'
  <2>1. /\ UNCHANGED <<retried, moved, pcr, heap, opts>> /\ ctl = "find" /\ ~ opts.no_cache
        /\ NextCall(todo)
    BY <1>7 DEF FindHit, cpu, config
  <2>2. PICK b \in table : heap[b].pc = job.pc /\ got' = IF Prefetching THEN got ELSE b
    BY <1>7 DEF FindHit, FindBlock
  <2>3. /\ b \in DOMAIN heap /\ b # NULL
    BY <1>0 DEF TypedHeap
  <2>4. \/ todo = <<>> /\ ctl' = "link"
        \/ todo # <<>> /\ job' \in Request /\ ctl' = "find"
    BY <1>0, <2>1, NextCallFacts DEF CallTyped
  <2>5. got' # NULL /\ (~ moved => got' \in DOMAIN heap /\ heap[got'].pc = pcr)
    BY <1>0, <2>1, <2>2, <2>3 DEF GetInv, Calling, Prefetching, InGetBlock
  <2>6. CASE ctl' = "link"
    BY <1>0, <2>1, <2>5, <2>6 DEF GetInv, Calling, InGetBlock
  <2>7. CASE job' \in Request /\ ctl' = "find"
    <3>1. Prefetching'
      BY <1>r, <2>7 DEF Prefetching
    <3> QED BY <1>0, <2>1, <2>5, <2>7, <3>1 DEF GetInv, Calling, InGetBlock
  <2> QED BY <2>4, <2>6, <2>7
<1>8. ASSUME GiveUp PROVE GetInv'
  <2>1. /\ UNCHANGED <<retried, moved, pcr, heap, opts, got>> /\ ctl = "failed"
        /\ NextCall(todo) /\ (Prefetching \/ retried)
    BY <1>8 DEF GiveUp, cpu, config
  <2>2. \/ todo = <<>> /\ ctl' = "link"
        \/ todo # <<>> /\ job' \in Request /\ ctl' = "find"
    BY <1>0, <2>1, NextCallFacts DEF CallTyped
  <2>3. CASE ctl' = "link"
    BY <1>0, <2>1, <2>3 DEF GetInv, Calling, InGetBlock
  <2>4. CASE todo # <<>> /\ job' \in Request /\ ctl' = "find"
    <3>1. Prefetching' /\ Prefetching
      BY <1>0, <1>r, <2>1, <2>4 DEF Prefetching, GetInv, Calling
    <3> QED BY <1>0, <2>1, <2>4, <3>1 DEF GetInv, Calling, InGetBlock
  <2> QED BY <2>2, <2>3, <2>4
<1>9. ASSUME EmitDone PROVE GetInv'
  <2>1. /\ UNCHANGED <<retried, moved, pcr, opts>> /\ ctl = "emit"
        /\ NextCall(Prefetched)
    BY <1>9 DEF EmitDone, cpu, config
  <2>2. PICK b \in BlockId \ DOMAIN heap :
           /\ DOMAIN heap' = DOMAIN heap \cup {b}
           /\ \A c \in DOMAIN heap : heap'[c] = heap[c]
           /\ heap'[b].pc = job.pc
           /\ got' = IF Prefetching THEN got ELSE b
    BY <1>9, EmitDoneFacts
  <2>3. got' # NULL /\ (~ moved => got' \in DOMAIN heap' /\ heap'[got'].pc = pcr)
    BY <1>0, <2>1, <2>2 DEF GetInv, Calling, Prefetching, InGetBlock
  <2>4. /\ Prefetched \in Seq(Request)
        /\ Prefetched # <<>> => ~ opts.no_cache
    BY <2>1, SeedsTyped DEF Prefetched
  <2>5. \/ ctl' = "link"
        \/ Prefetched # <<>> /\ job' \in Request /\ ctl' = "find"
    BY <2>1, <2>4, NextCallFacts
  <2>6. CASE ctl' = "link"
    BY <1>0, <2>1, <2>3, <2>6 DEF GetInv, Calling, InGetBlock
  <2>7. CASE Prefetched # <<>> /\ job' \in Request /\ ctl' = "find"
    <3>1. Prefetching'
      BY <1>r, <2>7 DEF Prefetching
    <3> QED BY <1>0, <2>1, <2>3, <2>4, <2>7, <3>1 DEF GetInv, Calling, InGetBlock
  <2> QED BY <2>5, <2>6, <2>7
<1>10. ASSUME Link PROVE GetInv'
  <2>1. retried' = FALSE /\ ctl' = "enter"
    BY <1>10 DEF Link
  <2> QED BY <2>1 DEF GetInv, Calling, InGetBlock
<1>11. ASSUME Return \/ \E effect \in Effects : Interpret(effect) PROVE GetInv'
  <2>1. retried' = FALSE /\ ctl' = "head" /\ got' = NULL
    BY <1>11 DEF Return, Interpret, HeadOfLoop
  <2> QED BY <2>1 DEF GetInv, Calling, InGetBlock
<1> QED BY <1>1, <1>2, <1>3, <1>4, <1>5, <1>6, <1>7, <1>8, <1>9, <1>10, <1>11 DEF Next

\* Predictions stay live through a step that shrinks the table.
LEMMA PredictionsShrink ==
    ASSUME Inv, ShrinkStep, NEW b \in DOMAIN heap', heap'[b].pn # NULL
    PROVE  Linked(b)'
<1>1. /\ b \in DOMAIN heap /\ SameCode(heap'[b], heap[b])
      /\ heap'[b].pn = heap[b].pn /\ heap'[b].pnpc = heap[b].pnpc
      /\ heap'[b].entry = heap[b].entry
  BY DEF ShrinkStep, Shrunk, SamePrediction
<1>2. Linked(b)
  BY <1>1 DEF Inv, LinkInv
<1>3. heap'[b].pn \in table' /\ heap'[b].pn \in DOMAIN heap'
  BY DEF ShrinkStep
<1>4. heap'[heap'[b].pn].pc = heap[heap[b].pn].pc
  BY <1>1, <1>3 DEF ShrinkStep, Shrunk, SameCode
<1> QED BY <1>1, <1>2, <1>3, <1>4 DEF Linked, Compat, SameCode

\* No prediction and no prev dangles after any step.
LEMMA LinkInvNext ==
    ASSUME Inv, [Next]_vars
    PROVE  LinkInv'
<1>0. LinkInv /\ GetInv /\ TypedHeap /\ PointersTyped /\ NULL \notin BlockId
      /\ (~ opts.no_cache => DOMAIN heap = table)
  BY NullAssumption DEF Inv, Typed, TypeOK, TypedHeap, Descriptors, PointersTyped,
     TableInv, OneBlockPerPc
<1>1. \A b \in DOMAIN heap' : heap'[b].pn # NULL => Linked(b)'
  <2>1. CASE ShrinkStep
    BY <2>1, PredictionsShrink
  <2>2. ASSUME Link, NEW b \in DOMAIN heap', heap'[b].pn # NULL
        PROVE  Linked(b)'
    <3>1. /\ DOMAIN heap' = DOMAIN heap /\ table' = table /\ table \subseteq DOMAIN heap
          /\ \A c \in DOMAIN heap : heap'[c].pc = heap[c].pc
      BY <1>0, <2>2, LinkFacts DEF SameCode, TypedHeap
    <3>2. CASE SamePrediction(heap'[b], heap[b])
      <4>1. Linked(b) /\ heap'[b].pn = heap[b].pn /\ heap'[b].pnpc = heap[b].pnpc
            /\ heap'[b].entry = heap[b].entry
        BY <1>0, <2>2, <3>1, <3>2 DEF SamePrediction, LinkInv
      <4> QED BY <3>1, <4>1 DEF Linked, Compat
    <3>3. CASE ~ SamePrediction(heap'[b], heap[b])
      <4>1. /\ ~ moved /\ ~ opts.no_cache /\ heap'[b].pn = got /\ heap'[b].pnpc = pcr
            /\ heap'[b].entry = "body" => Compat(heap[b], heap[got])
        BY <2>2, <3>1, <3>3, LinkFacts
      <4>2. got \in DOMAIN heap /\ heap[got].pc = pcr
        BY <1>0, <2>2, <4>1 DEF GetInv, Link, InGetBlock
      <4> QED BY <1>0, <3>1, <4>1, <4>2 DEF Linked, Compat
    <3> QED BY <3>2, <3>3
  <2>3. ASSUME EmitDone, NEW c \in DOMAIN heap', heap'[c].pn # NULL
        PROVE  Linked(c)'
    <3>1. PICK b \in BlockId \ DOMAIN heap :
             /\ DOMAIN heap' = DOMAIN heap \cup {b} /\ heap'[b].pn = NULL
             /\ \A d \in DOMAIN heap : heap'[d] = heap[d]
             /\ table' = IF opts.no_cache THEN table ELSE table \cup {b}
      BY <2>3, EmitDoneFacts
    <3>2. c \in DOMAIN heap /\ heap'[c] = heap[c] /\ Linked(c)
      BY <1>0, <2>3, <3>1 DEF LinkInv
    <3>3. heap[c].pn \in table /\ heap'[heap[c].pn] = heap[heap[c].pn] /\ table \subseteq table'
      BY <1>0, <3>1, <3>2 DEF Linked, TypedHeap
    <3> QED BY <3>2, <3>3 DEF Linked, Compat
  <2> QED BY <2>1, <2>2, <2>3, TableSteps
<1>2. PrevLive'
  <2>1. ASSUME \/ UNCHANGED vars \/ Interrupt \/ SonyService \/ Idle \/ Finished
               \/ ChainHit \/ ChainMiss \/ Enter \/ HelperStore \/ InlineStore
               \/ NativeChain \/ \E effect \in Effects : BlockEnds(effect)
        PROVE  PrevLive'
    <3>1. CASE UNCHANGED vars
      BY <1>0, <3>1 DEF vars, getter, LinkInv, PrevLive, InGetBlock
    <3>2. CASE ~ UNCHANGED vars
      <4>1. /\ prev' \in {prev, NULL} /\ table' = table
            /\ ctl \notin {"find", "compile", "alloc", "emit", "failed", "link"}
        BY <2>1, <3>2 DEF Interrupt, SonyService, Idle, Finished, ChainHit, ChainMiss,
           Enter, HelperStore, InlineStore, NativeChain, BlockEnds, Running
      <4> QED BY <1>0, <4>1 DEF LinkInv, PrevLive, InGetBlock
    <3> QED BY <3>1, <3>2
  <2>2. ASSUME \/ FindHit \/ FindMiss \/ CompileBlock \/ LruTake \/ BumpTake \/ AllocNull
               \/ EmitOverflow \/ EmitNoMemory \/ EmitDone \/ GiveUp
        PROVE  PrevLive'
    <3>1. /\ UNCHANGED <<prev, moved>> /\ InGetBlock
          /\ table \subseteq table'
      BY <2>2, EmitDoneFacts DEF FindHit, FindMiss, CompileBlock, LruTake, BumpTake,
         AllocNull, EmitOverflow, EmitNoMemory, EmitDone, GiveUp, getter, InGetBlock
    <3>2. ctl' \in {"find", "compile", "alloc", "emit", "failed", "link"}
      BY <2>2 DEF FindHit, FindMiss, CompileBlock, LruTake, BumpTake, AllocNull,
         EmitOverflow, EmitNoMemory, EmitDone, GiveUp, Allocated, NextCall
    <3> QED BY <1>0, <3>1, <3>2 DEF LinkInv, PrevLive, InGetBlock
  <2>3. ASSUME LruEvict \/ ResetAndRetry PROVE PrevLive'
    <3>1. moved' = TRUE /\ ctl' \in {"alloc", "compile"}
      BY <2>3 DEF LruEvict, ResetAndRetry
    <3> QED BY <3>1 DEF PrevLive, InGetBlock
  <2>4. ASSUME FifoTake PROVE PrevLive'
    <3>1. ctl = "alloc" /\ ctl' = "emit" /\ prev' = prev
      BY <2>4 DEF FifoTake, Allocated
    <3>2. PICK V : table' = table \ V /\ moved' = (moved \/ V # {})
      BY <2>4 DEF FifoTake
    <3>3. ~ moved' => ~ moved /\ table' = table
      BY <1>0, <3>2 DEF PointersTyped
    <3>4. moved' \in BOOLEAN
      BY <3>2
    <3> QED BY <1>0, <3>1, <3>3, <3>4 DEF LinkInv, PrevLive, InGetBlock
  <2>5. ASSUME Link PROVE PrevLive'
    <3>1. prev' = KeptPrev /\ table' = table
      BY <2>5 DEF Link
    <3> QED BY <1>0, <3>1 DEF KeptPrev, LinkInv, PrevLive
  <2>6. ASSUME \E effect \in Effects : Interpret(effect) PROVE PrevLive'
    BY <2>6 DEF Interpret, PrevLive
  <2>7. ASSUME Return PROVE PrevLive'
    <3>1. got \in DOMAIN heap
      BY <2>7 DEF Return, Inv, RunInv
    <3>2. prev' = NULL \/ (prev' = got /\ table' = table /\ ~ opts.no_cache)
      BY <2>7 DEF Return
    <3> QED BY <1>0, <3>1, <3>2 DEF PrevLive
  <2> QED BY <2>1, <2>2, <2>3, <2>4, <2>5, <2>6, <2>7 DEF Next
<1> QED BY <1>1, <1>2 DEF LinkInv

\* In no_cache mode nothing is cached and at most the running block is held.
LEMMA UncachedNext ==
    ASSUME Inv, [Next]_vars, opts.no_cache
    PROVE  table' = {} /\ DOMAIN heap' \subseteq {got'}
<1>0. /\ table = {} /\ DOMAIN heap \subseteq {got} /\ DOMAIN heap \subseteq BlockId
      /\ NULL \notin BlockId /\ Descriptors(heap)
  BY NullAssumption DEF Inv, TableInv, OneBlockPerPc, Typed, TypeOK, Descriptors
<1>1. CASE EmitDone
  <2>1. ~ Prefetching /\ got = NULL
    BY <1>1 DEF EmitDone, Inv, GetInv, Calling
  <2>2. DOMAIN heap = {}
    BY <1>0, <2>1
  <2> QED BY <1>0, <1>1, <2>1, <2>2, EmitDoneFacts
<1>2. CASE Link
  <2>1. got' = got /\ table' = table
    BY <1>2 DEF Link
  <2> QED BY <1>0, <1>2, <2>1, LinkFacts
<1>3. CASE ShrinkStep
  <2>1. table' = {} /\ DOMAIN heap' \subseteq DOMAIN heap
    BY <1>0, <1>3 DEF ShrinkStep, Shrunk
  <2>2. CASE got' = got
    BY <1>0, <2>1, <2>2
  <2>3. CASE DOMAIN heap' = {}
    BY <2>1, <2>3
  <2>4. CASE got' # got
    <3>1. \/ ChainHit \/ ChainMiss \/ FindHit \/ Return \/ EmitDone
          \/ \E effect \in Effects : Interpret(effect)
      BY <2>4 DEF Next, vars, getter, Interrupt, SonyService, Idle, FindMiss, CompileBlock,
         LruTake, LruEvict, FifoTake, BumpTake, AllocNull, EmitOverflow, EmitNoMemory,
         ResetAndRetry, GiveUp, Link, Enter, HelperStore, InlineStore, BlockEnds,
         NativeChain, Finished
    <3>2. CASE ChainHit \/ ChainMiss \/ \E effect \in Effects : Interpret(effect)
      <4>1. got = NULL
        BY <3>2 DEF ChainHit, ChainMiss, Interpret, Running, Inv, GetInv
      <4> QED BY <1>0, <2>1, <4>1
    <3>3. CASE Return
      <4> DEFINE kept == Without(heap, {got})
      <4>1. DOMAIN kept = {} /\ Descriptors(kept)
        <5>1. DOMAIN kept = DOMAIN heap \ {got} /\ Descriptors(kept)
          BY <1>0, WithoutFacts
        <5> QED BY <1>0, <5>1
      <4>2. heap' = kept \/ \E V : heap' = Forget(Without(kept, V))
        BY <3>3 DEF Return
      <4> HIDE DEF kept
      <4>3. \A V : DOMAIN Forget(Without(kept, V)) = {}
        BY <4>1, NothingLeft
      <4> QED BY <2>3, <4>1, <4>2, <4>3
    <3>4. ~ FindHit
      BY DEF FindHit
    <3> QED BY <1>1, <3>1, <3>2, <3>3, <3>4
  <2> QED BY <2>2, <2>4
<1> QED BY <1>1, <1>2, <1>3, TableSteps

\* The block table keeps one block per pc, and leaks none.
LEMMA TableInvNext ==
    ASSUME Inv, [Next]_vars
    PROVE  TableInv'
<1>0. /\ TableInv /\ TypedHeap /\ opts' = opts /\ opts \in Options[mode]
      /\ (~ opts.no_cache => DOMAIN heap = table)
  <2>1. opts' = opts
    BY DEF Next, vars, config, ChainHit, ChainMiss, FindHit, FindMiss, CompileBlock,
       LruTake, LruEvict, FifoTake, BumpTake, AllocNull, EmitOverflow, EmitNoMemory,
       EmitDone, ResetAndRetry, GiveUp, Link, Enter, HelperStore, InlineStore,
       NativeChain, Return, Finished, Interrupt, SonyService, Idle, Interpret, BlockEnds
  <2> QED BY <2>1 DEF Inv, Typed, TypeOK, TypedHeap, Descriptors, TableInv, OneBlockPerPc
<1>1. CASE opts.no_cache
  BY <1>0, <1>1, UncachedNext DEF TableInv, OneBlockPerPc
<1>2. CASE ~ opts.no_cache
  <2>1. CASE ShrinkStep \/ Link
    <3>1. /\ DOMAIN heap' \subseteq DOMAIN heap /\ table' = table \cap DOMAIN heap'
          /\ \A b \in table' : heap'[b].pc = heap[b].pc
      BY <1>0, <2>1, LinkFacts DEF ShrinkStep, Shrunk, SameCode, TypedHeap
    <3>2. OneBlockPerPc'
      BY <1>0, <1>2, <3>1 DEF TableInv, OneBlockPerPc
    <3>3. ASSUME ctl' \in {"compile", "alloc", "emit", "failed"}, NEW b \in table'
          PROVE  heap'[b].pc # job'.pc
      <4>1. \/ FindMiss
            \/ ctl \in {"compile", "alloc", "emit", "failed"} /\ job' = job
        BY <3>3 DEF Next, vars, getter, ChainHit, ChainMiss, FindHit, FindMiss,
           CompileBlock, LruTake, LruEvict, FifoTake, BumpTake, AllocNull,
           EmitOverflow, EmitNoMemory, EmitDone, ResetAndRetry, GiveUp, Link, Enter,
           HelperStore, InlineStore, NativeChain, Return, Finished, Interrupt,
           SonyService, Idle, Interpret, BlockEnds, Allocated, NextCall, HeadOfLoop,
           Running
      <4>2. CASE FindMiss
        <5>1. job' = job /\ FindBlock(job.pc) = {}
          BY <1>2, <4>2 DEF FindMiss, getter
        <5>2. heap[b].pc # job.pc
          BY <3>1, <5>1 DEF FindBlock
        <5> QED BY <3>1, <5>1, <5>2
      <4>3. CASE ctl \in {"compile", "alloc", "emit", "failed"} /\ job' = job
        BY <1>0, <1>2, <3>1, <4>3 DEF TableInv
      <4> QED BY <4>1, <4>2, <4>3
    <3> QED BY <1>0, <1>2, <3>2, <3>3 DEF TableInv
  <2>2. CASE EmitDone
    <3>1. PICK b \in BlockId \ DOMAIN heap :
             /\ DOMAIN heap' = DOMAIN heap \cup {b}
             /\ \A c \in DOMAIN heap : heap'[c] = heap[c]
             /\ heap'[b].pc = job.pc
             /\ table' = IF opts.no_cache THEN table ELSE table \cup {b}
      BY <2>2, EmitDoneFacts
    <3>2. \A c \in table : heap[c].pc # job.pc /\ heap'[c] = heap[c]
      BY <1>0, <1>2, <2>2, <3>1 DEF EmitDone, TableInv, TypedHeap
    <3>3. table' = table \cup {b}
      BY <1>2, <3>1
    <3>4. OneBlockPerPc'
      BY <1>0, <1>2, <3>1, <3>2, <3>3 DEF TableInv, OneBlockPerPc
    <3>5. ctl' \in {"link", "find"}
      BY <2>2 DEF EmitDone, NextCall
    <3> QED BY <1>0, <1>2, <3>4, <3>5 DEF TableInv
  <2> QED BY <2>1, <2>2, TableSteps
<1> QED BY <1>1, <1>2

\* The running block stays where it is.
LEMMA RunInvNext ==
    ASSUME Inv, [Next]_vars
    PROVE  RunInv'
<1>0. RunInv /\ LinkInv /\ TypedHeap
  BY DEF Inv, Typed, TypeOK, TypedHeap, Descriptors
<1>1. ASSUME UNCHANGED vars \/ HelperStore \/ InlineStore
             \/ \E effect \in Effects : BlockEnds(effect)
      PROVE  RunInv'
  <2>1. /\ UNCHANGED <<heap, cur, got, chained>>
        /\ ctl' = ctl \/ (ctl = "body" /\ ctl' = "exit")
    BY <1>1 DEF vars, getter, native, HelperStore, InlineStore, BlockEnds
  <2> QED BY <1>0, <2>1 DEF RunInv
<1>2. ASSUME ChainHit \/ Link PROVE RunInv'
  <2>1. ctl' = "enter" /\ cur' = got' /\ chained' = FALSE
    BY <1>2 DEF ChainHit, Link
  <2> QED BY <2>1 DEF RunInv
<1>3. ASSUME Enter PROVE RunInv'
  <2>1. /\ ctl = "enter" /\ cur \in DOMAIN heap /\ UNCHANGED <<cur, got, chained>>
        /\ ctl' = "body" /\ heap' = IF chained THEN heap ELSE [heap EXCEPT ![cur].tag = cycles]
    BY <1>3 DEF Enter, getter
  <2>2. DOMAIN heap' = DOMAIN heap
    BY <2>1
  <2>3. got \in DOMAIN heap
    BY <1>0, <2>1 DEF RunInv
  <2> QED BY <2>1, <2>2, <2>3 DEF RunInv
<1>4. ASSUME NativeChain PROVE RunInv'
  <2>1. /\ ctl = "exit" /\ heap[cur].pn # NULL /\ cur' = heap[cur].pn
        /\ UNCHANGED <<heap, got>> /\ ctl' = "enter" /\ chained' = TRUE
    BY <1>4 DEF NativeChain, CanChain, getter
  <2>2. cur \in DOMAIN heap /\ got \in DOMAIN heap
    BY <1>0, <2>1 DEF RunInv
  <2>3. cur' \in DOMAIN heap
    BY <1>0, <2>1, <2>2 DEF LinkInv, Linked, TypedHeap
  <2> QED BY <2>1, <2>2, <2>3 DEF RunInv
<1>5. ASSUME \/ Interrupt \/ SonyService \/ Idle \/ Finished \/ ChainMiss
             \/ FindHit \/ FindMiss \/ CompileBlock \/ LruTake \/ LruEvict
             \/ FifoTake \/ BumpTake \/ AllocNull \/ EmitOverflow \/ EmitNoMemory
             \/ EmitDone \/ ResetAndRetry \/ GiveUp \/ Return
             \/ \E effect \in Effects : Interpret(effect)
      PROVE  RunInv'
  <2>1. ctl' \notin {"enter", "body", "exit"}
    BY <1>5 DEF Interrupt, SonyService, Idle, Finished, ChainMiss, FindHit, FindMiss,
       CompileBlock, LruTake, LruEvict, FifoTake, BumpTake, AllocNull, EmitOverflow,
       EmitNoMemory, EmitDone, ResetAndRetry, GiveUp, Return, Interpret, HeadOfLoop,
       NextCall, Allocated, Running, vars
  <2> QED BY <2>1 DEF RunInv
<1> QED BY <1>1, <1>2, <1>3, <1>4, <1>5 DEF Next

\* The dispatcher starts with nothing cached.
LEMMA InitInv == Init => Inv
<1> SUFFICES ASSUME Init PROVE Inv
  OBVIOUS
<1>1. DOMAIN heap = {} /\ table = {} /\ <<>> \in Seq(Request)
  BY DEF Init
<1>2. free \subseteq Span
  <2>1. Cap \in Nat
    BY ArenaAssumption DEF Cap, CC_ALIGN
  <2> QED BY <2>1 DEF Init, WholeArena, Span
<1>3. Typed
  <2>1. todo \in Seq([pc : Pc, depth : Nat]) /\ todo \in Seq([pc : Pc, depth : Int])
    BY DEF Init
  <2>2. job \in [pc : Pc \cup {NoPc}, depth : Int] /\ budget \in Nat /\ cycles \in Nat
    BY DEF Init, NoJob, NoPc
  <2>3. /\ codePages \subseteq Nat /\ dirty \subseteq codePages /\ used \in Nat /\ open \in Nat
        /\ DOMAIN heap \subseteq BlockId /\ table \subseteq DOMAIN heap
        /\ \A b \in DOMAIN heap : heap[b] \in Block
    BY <1>1 DEF Init
  <2>4. TypeOK
    BY <1>2, <2>1, <2>2, <2>3 DEF Init, TypeOK
  <2> QED BY <2>1, <2>4 DEF Init, Typed, Calling
<1> QED BY <1>1, <1>3
        DEF Init, Inv, GetInv, TableInv, OneBlockPerPc, LinkInv, PrevLive, RunInv,
            Calling, InGetBlock

\* Every step of the dispatcher preserves the invariant.
LEMMA NextInv == Inv /\ [Next]_vars => Inv'
BY TypedNext, GetInvNext, TableInvNext, LinkInvNext, RunInvNext DEF Inv

\* The inductive invariant holds in every state of every run.
THEOREM DispatcherInvariant == Spec => []Inv
BY InitInv, NextInv, PTL DEF Spec

\* No pointer to a block descriptor outlives it, under every eviction policy,
\* with and without prefetch, and whoever stores to guest memory.
THEOREM PointersStayLive == Spec => []PointersLive
<1>1. Inv => PointersLive
  <2> SUFFICES ASSUME Inv PROVE PointersLive
    OBVIOUS
  <2>1. TypeOK /\ PrevLive
    BY DEF Inv, Typed, LinkInv
  <2>2. PredictionsLive
    BY DEF Inv, Typed, TypeOK, LinkInv, Linked, PredictionsLive
  <2>3. NoNullPrediction
    BY DEF Inv, GetInv, NoNullPrediction, KeptPrev
  <2> QED BY <2>1, <2>2, <2>3 DEF PointersLive
<1> QED BY <1>1, DispatcherInvariant, PTL

\* At most one cached block per pc, and no descriptor is leaked.
THEOREM AlwaysOneBlockPerPc == Spec => []OneBlockPerPc
<1>1. Inv => OneBlockPerPc
  BY DEF Inv, TableInv
<1> QED BY <1>1, DispatcherInvariant, PTL

-----------------------------------------------------------------------------
(* Self-modifying code *)

\* Multiples of the page size are in the order of their factors.
LEMMA TimesMonotone ==
    ASSUME NEW P \in Nat, NEW a \in Nat, NEW b \in Nat, a <= b
    PROVE  a * P <= b * P
<1>1. PICK d \in Nat : b = a + d
  <2>1. b - a \in Nat /\ b = a + (b - a)
    OBVIOUS
  <2> QED BY <2>1
<1>2. b * P = a * P + d * P
  BY <1>1
<1>3. a * P \in Nat /\ d * P \in Nat
  BY <1>1
<1> QED BY <1>2, <1>3

\* A word lies on the page whose bounds it lies between.
LEMMA PageUnique ==
    ASSUME NEW w \in Nat, NEW q \in Nat, q * PageWords <= w, w < (q + 1) * PageWords
    PROVE  Page(w) = q
<1>1. PageWords \in Nat
  BY WordAssumption
<1>2. /\ Page(w) \in Nat
      /\ Page(w) * PageWords <= w /\ w < (Page(w) + 1) * PageWords
  BY PageNat
<1>3. CASE Page(w) < q
  <2>1. Page(w) + 1 <= q /\ Page(w) + 1 \in Nat
    BY <1>2, <1>3
  <2>2. (Page(w) + 1) * PageWords <= q * PageWords
    BY <1>1, <2>1, TimesMonotone
  <2>3. (Page(w) + 1) * PageWords \in Nat /\ q * PageWords \in Nat
    BY <1>1, <2>1
  <2> QED BY <1>2, <2>2, <2>3
<1>4. CASE q < Page(w)
  <2>1. q + 1 <= Page(w) /\ q + 1 \in Nat
    BY <1>2, <1>4
  <2>2. (q + 1) * PageWords <= Page(w) * PageWords
    BY <1>1, <1>2, <2>1, TimesMonotone
  <2>3. (q + 1) * PageWords \in Nat /\ Page(w) * PageWords \in Nat
    BY <1>1, <1>2, <2>1
  <2> QED BY <1>2, <2>2, <2>3
<1> QED BY <1>2, <1>3, <1>4

\* Pages are in the order of their words.
LEMMA PageMonotone ==
    ASSUME NEW v \in Nat, NEW w \in Nat, v <= w
    PROVE  Page(v) <= Page(w)
<1>1. PageWords \in Nat
  BY WordAssumption
<1>2. /\ Page(v) \in Nat /\ Page(v) * PageWords <= v
      /\ Page(w) \in Nat /\ w < (Page(w) + 1) * PageWords
  BY PageNat
<1>3. CASE Page(w) < Page(v)
  <2>1. Page(w) + 1 <= Page(v) /\ Page(w) + 1 \in Nat
    BY <1>2, <1>3
  <2>2. (Page(w) + 1) * PageWords <= Page(v) * PageWords
    BY <1>1, <1>2, <2>1, TimesMonotone
  <2>3. (Page(w) + 1) * PageWords \in Nat /\ Page(v) * PageWords \in Nat
    BY <1>1, <1>2, <2>1
  <2> QED BY <1>2, <2>2, <2>3
<1> QED BY <1>2, <1>3

\* smc_mark_block misses no page of a block: stepping by a page from its first
\* word and adding the page of its last one visits every page in between.
LEMMA MarksEveryPage ==
    ASSUME NEW lo \in Nat, NEW hi \in Nat, NEW w \in lo .. hi - 1
    PROVE  Page(w) \in MarkedPages(lo, hi)
<1> DEFINE P == PageWords
           j == Page(w) - Page(lo)
           v == lo + j * P
<1>0. P \in Nat /\ P > 0 /\ w \in Nat /\ lo <= w /\ w <= hi - 1 /\ hi - 1 \in Nat
  BY WordAssumption
<1>1. /\ Page(lo) \in Nat /\ Page(lo) * P <= lo /\ lo < (Page(lo) + 1) * P
      /\ Page(w) \in Nat
  BY <1>0, PageNat
<1>2. j \in Nat
  BY <1>0, <1>1, PageMonotone
<1> HIDE DEF P
<1>3. j * P \in Nat /\ v \in Nat /\ v - lo = j * P
  BY <1>0, <1>2
<1>4. Page(v) = Page(w)
  <2>1. Page(w) * P = Page(lo) * P + j * P
    <3>1. Page(w) = Page(lo) + j
      BY <1>1, <1>2
    <3> HIDE DEF j
    <3> QED BY <1>0, <1>1, <1>2, <3>1
  <2>2. (Page(w) + 1) * P = Page(w) * P + P /\ (Page(lo) + 1) * P = Page(lo) * P + P
    BY <1>0, <1>1
  <2>3. Page(w) * P \in Nat /\ Page(lo) * P \in Nat
    BY <1>0, <1>1
  <2>4. Page(w) * P <= v /\ v < (Page(w) + 1) * P
    <3> HIDE DEF j
    <3> QED BY <1>0, <1>1, <1>3, <2>1, <2>2, <2>3
  <2> HIDE DEF v
  <2> QED BY <1>1, <1>3, <2>4, PageUnique DEF P
<1>5. (v - lo) % PageWords = 0
  <2>1. \A k \in Nat : (k * P) % P = 0
    BY <1>0
  <2> HIDE DEF j, v
  <2> QED BY <1>2, <1>3, <2>1 DEF P
<1> HIDE DEF j, v
<1>6. CASE v <= hi - 1
  <2>1. v \in lo .. hi - 1
    BY <1>0, <1>3, <1>6
  <2> QED BY <1>4, <1>5, <2>1 DEF MarkedPages
<1>7. CASE hi - 1 < v
  <2>1. Page(w) <= Page(hi - 1) /\ Page(hi - 1) <= Page(v) /\ Page(hi - 1) \in Nat
    BY <1>0, <1>3, <1>7, PageMonotone, PageNat
  <2>2. Page(hi - 1) = Page(w)
    BY <1>1, <1>4, <2>1
  <2> QED BY <2>2 DEF MarkedPages
<1> QED BY <1>0, <1>3, <1>6, <1>7

CodeInv ==
    \A b \in DOMAIN heap : /\ heap[b].end = BlockEnd[heap[b].pc]
                           /\ DOMAIN heap[b].code = Words(heap[b].pc)

\* Every page of every cached block is watched.
PagesInv == \A b \in table : \A w \in Words(heap[b].pc) : Page(w) \in codePages

SmcInv == CodeInv /\ PagesInv /\ StaleIsQueued

\* A block overlaps the page of each of its words.
LEMMA WordOnPage ==
    ASSUME NEW b \in Block, b.end = BlockEnd[b.pc], NEW w \in Words(b.pc)
    PROVE  w \in Word /\ OnPage(b, Page(w))
<1>1. b.pc \in Pc /\ b.end \in Nat
  BY DEF Block
<1>2. b.pc \in Nat /\ w \in Word /\ w \in Nat /\ b.pc <= w /\ w < b.end
  <2>1. b.pc \in Nat /\ b.pc .. BlockEnd[b.pc] - 1 \subseteq Word /\ Word \subseteq Nat
    BY <1>1, PcAssumption, WordAssumption, BlockAssumption
  <2>2. w \in b.pc .. b.end - 1
    BY DEF Words
  <2> QED BY <1>1, <2>1, <2>2
<1>3. /\ Page(w) \in Nat
      /\ Page(w) * PageWords <= w /\ w < (Page(w) + 1) * PageWords
  BY <1>2, PageNat
<1>4. Page(w) * PageWords \in Nat /\ (Page(w) + 1) * PageWords \in Nat
  BY <1>3, WordAssumption
<1> QED BY <1>1, <1>2, <1>3, <1>4 DEF OnPage

\* The memory and the queue as a step leaves them, for a block it keeps.
LEMMA StoreQueues ==
    ASSUME Inv, SmcInv, NEW ws \in SUBSET Word, StoreStep(ws),
           heap' = heap, table' = table
    PROVE  StaleIsQueued'
<1> SUFFICES ASSUME NEW b \in table
             PROVE  Current(b)' \/ overflow' \/ \E p \in dirty' : OnPage(heap[b], p)
  BY DEF StaleIsQueued, OnPage
<1>0. SmcTyped /\ b \in DOMAIN heap /\ heap[b] \in Block
  BY DEF Inv, Typed, TypeOK, SmcTyped
<1>1. /\ dirty \subseteq dirty' /\ (overflow => overflow')
      /\ \A w \in ws : Page(w) \in codePages => Page(w) \in dirty' \/ overflow'
  BY <1>0, WatchFacts DEF StoreStep, SmcTyped
<1>2. heap[b].end = BlockEnd[heap[b].pc] /\ DOMAIN heap[b].code = Words(heap[b].pc)
  BY <1>0 DEF SmcInv, CodeInv
<1>3. CASE ~ Current(b)
  BY <1>1, <1>3 DEF SmcInv, StaleIsQueued
<1>4. CASE Current(b) /\ ws \cap Words(heap[b].pc) = {}
  <2>1. \A w \in Words(heap[b].pc) : mem'[w] = mem[w]
    BY <1>0, <1>2, <1>4, WordOnPage DEF StoreStep
  <2> QED BY <1>2, <1>4, <2>1 DEF Current
<1>5. CASE ws \cap Words(heap[b].pc) # {}
  <2>1. PICK w \in ws : w \in Words(heap[b].pc)
    BY <1>5
  <2>2. Page(w) \in codePages /\ OnPage(heap[b], Page(w))
    BY <1>0, <1>2, <2>1, WordOnPage DEF SmcInv, PagesInv
  <2> QED BY <1>1, <2>1, <2>2
<1> QED BY <1>3, <1>4, <1>5

\* The write watch and the flush keep every stale block queued, as long as
\* no store bypasses the watch.
LEMMA SmcNext ==
    ASSUME Inv, SmcInv, [Next]_vars, "inline" \notin StoresBy
    PROVE  SmcInv'
<1>0. TypedHeap /\ SmcTyped
  BY DEF Inv, Typed, TypeOK, TypedHeap, SmcTyped, Descriptors
<1>1. CASE EmitDone
  <2>1. PICK b \in BlockId \ DOMAIN heap :
           /\ DOMAIN heap' = DOMAIN heap \cup {b}
           /\ \A c \in DOMAIN heap : heap'[c] = heap[c]
           /\ heap'[b].pc = job.pc /\ heap'[b].end = BlockEnd[job.pc]
           /\ heap'[b].code = [w \in Words(job.pc) |-> mem[w]]
           /\ table' = IF opts.no_cache THEN table ELSE table \cup {b}
           /\ codePages' = IF opts.no_cache THEN codePages
                           ELSE codePages \cup MarkedPages(job.pc, BlockEnd[job.pc])
    BY <1>1, EmitDoneFacts
  <2>2. UNCHANGED <<mem, dirty, overflow>>
    BY <1>1 DEF EmitDone
  <2>3. job.pc \in Nat /\ BlockEnd[job.pc] \in Nat
    BY <1>1, BlockAssumption, PcAssumption, WordAssumption
       DEF EmitDone, Inv, Typed, Calling
  <2>4. \A w \in Words(job.pc) : Page(w) \in MarkedPages(job.pc, BlockEnd[job.pc])
    BY <2>3, MarksEveryPage DEF Words
  <2>5. CodeInv'
    BY <2>1 DEF SmcInv, CodeInv
  <2>6. PagesInv'
    BY <1>0, <2>1, <2>4 DEF SmcInv, PagesInv, TypedHeap
  <2>7. ASSUME NEW c \in table'
        PROVE  Current(c)' \/ overflow' \/ \E p \in dirty' : OnPage(heap'[c], p)
    <3>1. CASE c = b
      BY <2>1, <2>2, <3>1 DEF Current
    <3>2. CASE c \in table
      BY <1>0, <2>1, <2>2, <3>2 DEF SmcInv, StaleIsQueued, Current, TypedHeap
    <3> QED BY <2>1, <3>1, <3>2
  <2> QED BY <2>5, <2>6, <2>7 DEF SmcInv, StaleIsQueued, OnPage
<1>2. CASE ~ EmitDone
  <2>1. /\ DOMAIN heap' \subseteq DOMAIN heap /\ table' \subseteq table
        /\ \A b \in DOMAIN heap' : SameCode(heap'[b], heap[b])
    BY <1>0, <1>2, TableSteps, LinkFacts DEF ShrinkStep, Shrunk, TypedHeap
  <2>2. CodeInv'
    BY <2>1 DEF SmcInv, CodeInv, SameCode
  <2>3. TypedHeap'
    BY TypedHeapNext
  <2>4. ASSUME codePages \subseteq codePages' PROVE PagesInv'
    BY <2>1, <2>3, <2>4 DEF SmcInv, PagesInv, SameCode, TypedHeap
  <2>5. ASSUME UNCHANGED <<mem, smc>> PROVE SmcInv'
    <3>1. StaleIsQueued'
      <4> SUFFICES ASSUME NEW b \in table'
                   PROVE  Current(b)' \/ overflow' \/ \E p \in dirty' : OnPage(heap'[b], p)
        BY DEF StaleIsQueued, OnPage
      <4>1. b \in table /\ SameCode(heap'[b], heap[b])
        BY <2>1, <2>3 DEF TypedHeap
      <4>2. Current(b) \/ overflow \/ \E p \in dirty : OnPage(heap[b], p)
        BY <4>1 DEF SmcInv, StaleIsQueued
      <4> QED BY <2>5, <4>1, <4>2 DEF SameCode, Current, OnPage, smc
    <3> QED BY <2>2, <2>4, <2>5, <3>1 DEF SmcInv, smc
  <2>6. ASSUME \/ Interrupt \/ SonyService \/ HelperStore
               \/ \E effect \in Effects : Interpret(effect)
        PROVE  SmcInv'
    <3>1. CASE UNCHANGED <<mem, smc, budget>>
      BY <2>5, <3>1
    <3>2. CASE \E ws \in SUBSET Word : StoreStep(ws)
      <4>1. heap' = heap /\ table' = table
        BY <2>6 DEF Interrupt, SonyService, HelperStore, Interpret
      <4>2. StaleIsQueued' /\ codePages' = codePages
        BY <3>2, <4>1, StoreQueues DEF StoreStep, Watch
      <4> QED BY <2>2, <2>4, <4>2 DEF SmcInv
    <3> QED BY <2>6, <3>1, <3>2, StoreSteps
  <2>7. ASSUME Return PROVE SmcInv'
    <3>1. CASE dirty = {} /\ ~ overflow
      BY <2>5, <2>7, <3>1 DEF Return
    <3>2. CASE ~ (dirty = {} /\ ~ overflow)
      <4> DEFINE drop == IF overflow THEN table ELSE DroppedBy(dirty)
      <4>1. /\ table' = table \ drop /\ mem' = mem
            /\ codePages' = IF overflow THEN {} ELSE codePages
        BY <2>7, <3>2 DEF Return
      <4>2. CASE overflow
        <5>1. table' = {}
          BY <4>1, <4>2
        <5> QED BY <2>2, <5>1 DEF SmcInv, PagesInv, StaleIsQueued
      <4>3. CASE ~ overflow
        <5>1. codePages' = codePages /\ table' = table \ DroppedBy(dirty)
          BY <4>1, <4>3
        <5>2. \A b \in table' : Current(b)
          BY <4>3, <5>1 DEF SmcInv, StaleIsQueued, DroppedBy
        <5>3. \A b \in table' : Current(b)'
          BY <2>1, <2>3, <4>1, <5>2 DEF Current, SameCode, TypedHeap
        <5> QED BY <2>2, <2>4, <5>1, <5>3 DEF SmcInv, StaleIsQueued
      <4> QED BY <4>2, <4>3
    <3> QED BY <3>1, <3>2
  <2>8. ASSUME \/ UNCHANGED vars \/ Idle \/ Finished \/ ChainHit \/ ChainMiss
               \/ FindHit \/ FindMiss \/ CompileBlock \/ LruTake \/ LruEvict
               \/ FifoTake \/ BumpTake \/ AllocNull \/ EmitOverflow \/ EmitNoMemory
               \/ ResetAndRetry \/ GiveUp \/ Link \/ Enter \/ NativeChain
               \/ \E effect \in Effects : BlockEnds(effect)
        PROVE  SmcInv'
    <3>1. UNCHANGED <<mem, smc>>
      BY <2>8 DEF vars, Idle, Finished, ChainHit, ChainMiss, FindHit, FindMiss,
         CompileBlock, LruTake, LruEvict, FifoTake, BumpTake, AllocNull, EmitOverflow,
         EmitNoMemory, ResetAndRetry, GiveUp, Link, Enter, NativeChain, BlockEnds
    <3> QED BY <2>5, <3>1
  <2>9. ~ InlineStore
    BY DEF InlineStore
  <2> QED BY <1>2, <2>6, <2>7, <2>8, <2>9 DEF Next
<1> QED BY <1>1, <1>2

\* Under every policy and option, and for stores by helpers, frames and the
\* interpreter at any time, a cached block that no longer matches guest memory
\* is queued to be dropped.
THEOREM StaleIsAlwaysQueued ==
    ASSUME "inline" \notin StoresBy
    PROVE  Spec => []StaleIsQueued
<1>1. Init => SmcInv
  BY DEF Init, SmcInv, CodeInv, PagesInv, StaleIsQueued
<1>2. Inv /\ SmcInv /\ [Next]_vars => SmcInv'
  BY SmcNext
<1>3. SmcInv => StaleIsQueued
  BY DEF SmcInv
<1> QED BY <1>1, <1>2, <1>3, DispatcherInvariant, PTL DEF Spec

\* A compile that was retried, and a call that found no block at all, have
\* nothing in the table: the reset wiped it.
EmptyInv ==
    /\ ctl = "find" /\ ~ Prefetching => ~ retried
    /\ ctl \in {"compile", "alloc", "emit", "failed"} /\ ~ Prefetching /\ retried
          => table = {}
    /\ ctl = "link" /\ got = NULL => table = {}

\* Nothing fills the table between the reset and the end of the call.
LEMMA EmptyNext ==
    ASSUME Inv, EmptyInv, [Next]_vars
    PROVE  EmptyInv'
<1>0. /\ GetInv /\ TypedHeap /\ CallTyped /\ table \subseteq BlockId /\ NULL \notin BlockId
  BY NullAssumption DEF Inv, Typed, TypeOK, TypedHeap, CallTyped, Descriptors, Request
<1>r. \A r \in Request : r.depth >= 0
  BY DEF Request
<1>1. CASE UNCHANGED vars
  <2>1. UNCHANGED <<ctl, table, got, job, retried>>
    BY <1>1 DEF vars, getter
  <2> QED BY <2>1 DEF EmptyInv, Prefetching
<1>2. ASSUME \/ Interrupt \/ SonyService \/ Idle \/ Finished \/ ChainHit \/ Link
             \/ Enter \/ HelperStore \/ InlineStore \/ NativeChain \/ Return
             \/ \E effect \in Effects : Interpret(effect) \/ BlockEnds(effect)
      PROVE  EmptyInv'
  <2>1. ctl' \in {"head", "enter", "body", "exit"}
    BY <1>2 DEF Interrupt, SonyService, Idle, Finished, ChainHit, Link, Enter,
       HelperStore, InlineStore, NativeChain, Return, Interpret, BlockEnds, HeadOfLoop,
       Running, vars
  <2> QED BY <2>1 DEF EmptyInv
<1>3. CASE ChainMiss
  <2>1. ctl' = "find" /\ retried' = FALSE
    BY <1>3 DEF ChainMiss
  <2> QED BY <2>1 DEF EmptyInv
<1>4. ASSUME \/ FindMiss \/ CompileBlock \/ LruTake \/ LruEvict \/ FifoTake
             \/ BumpTake \/ AllocNull \/ EmitOverflow \/ EmitNoMemory
      PROVE  EmptyInv'
  <2>1. /\ job' = job /\ retried' = retried /\ table' \subseteq table
        /\ ctl' \in {"compile", "alloc", "emit", "failed"}
        /\ ctl \in {"find", "compile", "alloc", "emit", "failed"}
    BY <1>4 DEF FindMiss, CompileBlock, LruTake, LruEvict, FifoTake, BumpTake, AllocNull,
       EmitOverflow, EmitNoMemory, Allocated, getter
  <2> QED BY <2>1 DEF EmptyInv, Prefetching
<1>5. CASE ResetAndRetry
  <2>1. table' = {} /\ ctl' = "compile"
    BY <1>5 DEF ResetAndRetry
  <2> QED BY <2>1 DEF EmptyInv
<1>6. CASE FindHit \/ EmitDone
  <2>1. got' # NULL
    <3>1. CASE FindHit
      <4>1. PICK b \in table : got' = IF Prefetching THEN got ELSE b
        BY <3>1 DEF FindHit, FindBlock
      <4>2. Calling
        BY <3>1 DEF FindHit, Calling
      <4> QED BY <1>0, <4>1, <4>2 DEF GetInv
    <3>2. CASE EmitDone
      <4>1. PICK b \in BlockId : got' = IF Prefetching THEN got ELSE b
        BY <3>2, EmitDoneFacts
      <4>2. Calling
        BY <3>2 DEF EmitDone, Calling
      <4> QED BY <1>0, <4>1, <4>2 DEF GetInv
    <3> QED BY <1>6, <3>1, <3>2
  <2>2. PICK rest \in Seq(Request) : NextCall(rest)
    BY <1>0, <1>6, SeedsTyped DEF FindHit, EmitDone, CallTyped
  <2>3. ctl' = "link" \/ (ctl' = "find" /\ job' \in Request)
    BY <2>2, NextCallFacts
  <2> QED BY <1>r, <2>1, <2>3 DEF EmptyInv, Prefetching
<1>7. CASE GiveUp
  <2>1. /\ table' = table /\ got' = got /\ ctl = "failed" /\ (Prefetching \/ retried)
        /\ NextCall(todo)
    BY <1>7 DEF GiveUp
  <2>2. ctl' = "link" \/ (ctl' = "find" /\ job' \in Request)
    BY <1>0, <2>1, NextCallFacts DEF CallTyped
  <2>3. got = NULL => table = {}
    BY <1>0, <2>1 DEF GetInv, Calling, EmptyInv
  <2> QED BY <1>r, <2>1, <2>2, <2>3 DEF EmptyInv, Prefetching
<1> QED BY <1>1, <1>2, <1>3, <1>4, <1>5, <1>6, <1>7 DEF Next

\* smc_flush has nothing to do.
Quiet == dirty = {} /\ ~ overflow

\* Every block there is was compiled since the last store and predicts nothing.
Fresh ==
    /\ prev = NULL
    /\ \A b \in DOMAIN heap : Current(b) /\ heap[b].pn = NULL

\* When only helpers and the interpreter store.  The interpreter may leave a
\* page queued at the head of the loop, but it only runs when no block is left,
\* so the blocks compiled from there on are Fresh until the next flush.  In a
\* block, STOP, halt and a queued page take the chain budget or there is no
\* prediction to chain to; and the block of no_cache mode is still current when
\* it is entered.
ChainInv ==
    /\ ctl \notin {"body", "exit"} => Quiet \/ Fresh
    /\ ctl \in {"body", "exit"} /\ ~ Quiet => budget = 0 \/ heap[cur].pn = NULL
    /\ ctl = "enter" /\ chained => Quiet
    /\ ctl \notin {"head", "exit"} => ~ stopped /\ ~ halted
    /\ ctl = "exit" /\ (stopped \/ halted) => budget = 0
    /\ opts.no_cache /\ ctl \notin {"body", "exit"} => \A b \in DOMAIN heap : Current(b)

\* Every step keeps what native chaining relies on.
LEMMA ChainNext ==
    ASSUME Inv, EmptyInv, ChainInv, [Next]_vars, StoresBy \subseteq {"helper"}
    PROVE  ChainInv'
<1>0. /\ TypedHeap /\ SmcTyped /\ CpuTyped /\ NULL \notin BlockId
      /\ "event" \notin StoresBy /\ "inline" \notin StoresBy
  BY NullAssumption DEF Inv, Typed, TypeOK, TypedHeap, SmcTyped, CpuTyped, Descriptors
<1>1. CASE UNCHANGED vars
  <2>1. UNCHANGED <<ctl, dirty, overflow, budget, stopped, halted, opts, heap, mem,
                    prev, cur, chained>>
    BY <1>1 DEF vars, smc, native, cpu, config
  <2> QED BY <2>1 DEF ChainInv, Current, Quiet, Fresh
<1>2. ASSUME Interrupt \/ SonyService \/ Idle \/ Finished
      PROVE  ChainInv'
  <2>1. /\ UNCHANGED <<heap, opts>> /\ ctl = "head" /\ ctl' = "head"
        /\ prev' \in {prev, NULL}
    BY <1>2 DEF Interrupt, SonyService, Idle, Finished, Running, config, vars
  <2>2. UNCHANGED <<mem, dirty, overflow, budget>>
    BY <1>0, <1>2 DEF Interrupt, SonyService, Idle, Finished, PushFrame, vars, smc, native
  <2> QED BY <2>1, <2>2 DEF ChainInv, Current, Quiet, Fresh
<1>3. ASSUME ChainHit \/ ChainMiss
      PROVE  ChainInv'
  <2>1. /\ UNCHANGED <<heap, opts, mem, dirty, overflow, budget, stopped, halted, prev>>
        /\ ctl = "head" /\ ~ stopped /\ ~ halted /\ ctl' \in {"enter", "find"}
        /\ ctl' = "enter" => chained' = FALSE
    BY <1>3 DEF ChainHit, ChainMiss, Running, config, smc, cpu, native
  <2> QED BY <2>1 DEF ChainInv, Current, Quiet, Fresh
<1>4. ASSUME \/ FindHit \/ FindMiss \/ CompileBlock \/ LruTake \/ LruEvict \/ FifoTake
             \/ BumpTake \/ AllocNull \/ EmitOverflow \/ EmitNoMemory
             \/ ResetAndRetry \/ GiveUp \/ Link
      PROVE  ChainInv'
  <2>1. /\ UNCHANGED <<opts, mem, dirty, overflow, budget, stopped, halted>>
        /\ ctl \notin {"head", "body", "exit"}
    BY <1>4 DEF FindHit, FindMiss, CompileBlock, LruTake, LruEvict, FifoTake, BumpTake,
       AllocNull, EmitOverflow, EmitNoMemory, ResetAndRetry, GiveUp, Link,
       config, smc, cpu, native
  <2>2. /\ ctl' \notin {"head", "body", "exit"}
        /\ ctl' = "enter" => chained' = FALSE
        /\ prev' \in {prev, KeptPrev}
    BY <1>4 DEF FindHit, FindMiss, CompileBlock, LruTake, LruEvict, FifoTake, BumpTake,
       AllocNull, EmitOverflow, EmitNoMemory, ResetAndRetry, GiveUp, Link, Allocated,
       NextCall
  <2>3. ~ EmitDone
    BY <1>4, EmitDoneFacts DEF EmitDone, FindHit, FindMiss, CompileBlock, LruTake,
       LruEvict, FifoTake, BumpTake, AllocNull, EmitOverflow, EmitNoMemory,
       ResetAndRetry, GiveUp, Link, NextCall
  <2>4. /\ DOMAIN heap' \subseteq DOMAIN heap
        /\ \A b \in DOMAIN heap' : SameCode(heap'[b], heap[b])
    BY <2>3, TableSteps, LinkFacts DEF ShrinkStep, Shrunk
  <2>5. opts.no_cache => \A b \in DOMAIN heap' : Current(b)'
    BY <2>1, <2>4 DEF ChainInv, Current, SameCode
  <2>6. ASSUME Fresh PROVE Fresh'
    <3>1. prev' = NULL
      BY <2>2, <2>6 DEF Fresh, KeptPrev
    <3>2. \A b \in DOMAIN heap' : Current(b)'
      BY <2>1, <2>4, <2>6 DEF Fresh, Current, SameCode
    <3>3. \A b \in DOMAIN heap' : heap'[b].pn = NULL
      <4>1. CASE Link
        BY <2>6, <4>1 DEF Link, Fresh, KeptPrev
      <4>2. CASE ShrinkStep
        BY <2>6, <4>2 DEF ShrinkStep, Shrunk, SamePrediction, Fresh
      <4> QED BY <2>3, <4>1, <4>2, TableSteps
    <3> QED BY <3>1, <3>2, <3>3 DEF Fresh
  <2>7. Quiet => Quiet'
    BY <2>1 DEF Quiet
  <2> QED BY <2>1, <2>2, <2>5, <2>6, <2>7 DEF ChainInv
<1>5. ASSUME EmitDone PROVE ChainInv'
  <2>1. /\ UNCHANGED <<opts, mem, dirty, overflow, budget, stopped, halted, prev>>
        /\ ctl = "emit" /\ ctl' \in {"link", "find"}
    BY <1>5 DEF EmitDone, NextCall, config, cpu, native
  <2>2. PICK b \in BlockId \ DOMAIN heap :
           /\ DOMAIN heap' = DOMAIN heap \cup {b}
           /\ \A c \in DOMAIN heap : heap'[c] = heap[c]
           /\ heap'[b].code = [w \in Words(job.pc) |-> mem[w]]
           /\ heap'[b].pn = NULL
    BY <1>5, EmitDoneFacts
  <2>3. Current(b)'
    BY <2>1, <2>2 DEF Current
  <2>4. opts.no_cache => \A c \in DOMAIN heap' : Current(c)'
    BY <2>1, <2>2, <2>3 DEF ChainInv, Current
  <2>5. Fresh => Fresh'
    BY <2>1, <2>2, <2>3 DEF Fresh, Current
  <2>6. Quiet => Quiet'
    BY <2>1 DEF Quiet
  <2> QED BY <2>1, <2>4, <2>5, <2>6 DEF ChainInv
<1>6. ASSUME \E effect \in Effects : Interpret(effect) PROVE ChainInv'
  <2>1. /\ heap' = heap /\ prev' = NULL /\ ctl' = "head" /\ ctl = "link" /\ got = NULL
    BY <1>6 DEF Interpret, HeadOfLoop
  <2>2. DOMAIN heap = {}
    <3>1. table = {}
      BY <2>1 DEF EmptyInv
    <3>2. DOMAIN heap \subseteq {NULL}
      BY <2>1, <3>1 DEF Inv, TableInv, OneBlockPerPc
    <3> QED BY <1>0, <3>2 DEF TypedHeap
  <2> QED BY <2>1, <2>2 DEF ChainInv, Fresh
<1>7. ASSUME Enter PROVE ChainInv'
  <2>1. /\ UNCHANGED <<opts, mem, dirty, overflow, stopped, halted, cur>>
        /\ ctl = "enter" /\ ctl' = "body" /\ cur \in DOMAIN heap
        /\ heap' = IF chained THEN heap ELSE [heap EXCEPT ![cur].tag = cycles]
    BY <1>7 DEF Enter, config, smc, cpu
  <2>2. heap'[cur].pn = heap[cur].pn
    <3>1. heap[cur] \in Block
      BY <1>0, <2>1 DEF TypedHeap, Descriptors
    <3> QED BY <2>1, <3>1 DEF Block
  <2>3. ~ Quiet => heap[cur].pn = NULL
    BY <2>1 DEF ChainInv, Fresh
  <2> QED BY <2>1, <2>2, <2>3 DEF ChainInv, Quiet
<1>8. ASSUME HelperStore PROVE ChainInv'
  <2>1. /\ UNCHANGED <<opts, stopped, halted, heap, cur>> /\ ctl = "body" /\ ctl' = "body"
        /\ \E w \in Word : Watch({w})
    BY <1>8 DEF HelperStore, config, cpu
  <2>2. /\ budget' \in {budget, 0} /\ dirty \subseteq dirty' /\ (overflow => overflow')
        /\ dirty = {} /\ ~ overflow => budget' = 0 \/ (dirty' = {} /\ ~ overflow')
    BY <1>0, <2>1, WatchFacts DEF SmcTyped
  <2> QED BY <2>1, <2>2 DEF ChainInv, Quiet
<1>9. ASSUME NEW effect \in Effects, BlockEnds(effect) PROVE ChainInv'
  <2>1. /\ UNCHANGED <<opts, dirty, overflow, heap, cur>> /\ ctl = "body" /\ ctl' = "exit"
        /\ stopped' = (stopped \/ effect = "stop") /\ halted' = (halted \/ effect = "halt")
        /\ budget' = IF effect = "none" THEN budget ELSE 0
    BY <1>9 DEF BlockEnds, Executed, config, smc
  <2>2. ~ stopped /\ ~ halted
    BY <2>1 DEF ChainInv
  <2>3. stopped' \/ halted' => budget' = 0
    BY <2>1, <2>2
  <2>4. ~ Quiet' => budget' = 0 \/ heap'[cur'].pn = NULL
    BY <2>1 DEF ChainInv, Quiet
  <2> QED BY <2>1, <2>3, <2>4 DEF ChainInv
<1>10. ASSUME NativeChain PROVE ChainInv'
  <2>1. /\ UNCHANGED <<heap, opts, mem, dirty, overflow, stopped, halted>>
        /\ ctl = "exit" /\ ctl' = "enter" /\ budget # 0 /\ heap[cur].pn # NULL
    BY <1>10 DEF NativeChain, CanChain, config, smc, cpu
  <2>2. Quiet /\ ~ stopped /\ ~ halted
    BY <2>1 DEF ChainInv
  <2>3. ~ opts.no_cache
    BY <2>1 DEF Inv, TableInv, LinkInv, Linked, RunInv
  <2> QED BY <2>1, <2>2, <2>3 DEF ChainInv, Quiet
<1>11. ASSUME Return PROVE ChainInv'
  <2>1. opts' = opts /\ ctl' = "head" /\ got' = NULL /\ Quiet'
    <3>1. \/ dirty = {} /\ ~ overflow /\ UNCHANGED smc
          \/ dirty' = {} /\ overflow' = FALSE
      BY <1>11 DEF Return
    <3> QED BY <1>11, <3>1 DEF Return, HeadOfLoop, config, smc, Quiet
  <2>2. opts.no_cache => DOMAIN heap' = {}
    <3>1. opts.no_cache => DOMAIN heap' \subseteq {NULL}
      BY <2>1, UncachedNext
    <3>2. DOMAIN heap' \subseteq BlockId
      BY TypedHeapNext DEF TypedHeap
    <3> QED BY <1>0, <3>1, <3>2
  <2> QED BY <2>1, <2>2 DEF ChainInv
<1>12. ~ InlineStore
  BY <1>0 DEF InlineStore
<1> QED BY <1>1, <1>2, <1>3, <1>4, <1>5, <1>6, <1>7, <1>8, <1>9, <1>10, <1>11, <1>12
        DEF Next

\* When only helpers and the interpreter store, the invariants hold together.
LEMMA HelperStoresInvariant ==
    ASSUME StoresBy \subseteq {"helper"}
    PROVE  Spec => [](Inv /\ SmcInv /\ EmptyInv /\ ChainInv)
<1>1. Init => SmcInv /\ EmptyInv /\ ChainInv
  BY DEF Init, SmcInv, CodeInv, PagesInv, StaleIsQueued, EmptyInv, ChainInv, Quiet
<1>2. Inv /\ SmcInv /\ EmptyInv /\ ChainInv /\ [Next]_vars
         => SmcInv' /\ EmptyInv' /\ ChainInv'
  BY SmcNext, EmptyNext, ChainNext
<1> QED BY <1>1, <1>2, DispatcherInvariant, PTL DEF Spec

\* The block that is entered is a translation of the code that is in guest
\* memory now, under every policy and option, as long as only helpers and the
\* fallback interpreter store.
THEOREM AlwaysEntersCurrentCode ==
    ASSUME StoresBy \subseteq {"helper"}
    PROVE  Spec => []EntersCurrentCode
<1>1. Inv /\ SmcInv /\ ChainInv => EntersCurrentCode
  <2> SUFFICES ASSUME Inv, SmcInv, ChainInv, ctl = "enter", cur \in DOMAIN heap
               PROVE  Current(cur)
    BY DEF EntersCurrentCode
  <2>1. CASE opts.no_cache
    BY <2>1 DEF ChainInv
  <2>2. CASE Fresh
    BY <2>2 DEF Fresh
  <2>3. CASE ~ opts.no_cache /\ Quiet
    <3>1. cur \in table
      BY <2>3 DEF Inv, TableInv, OneBlockPerPc
    <3> QED BY <2>3, <3>1 DEF SmcInv, StaleIsQueued, Quiet
  <2> QED BY <2>1, <2>2, <2>3 DEF ChainInv
<1> QED BY <1>1, HelperStoresInvariant, PTL

\* A native chain jump stops for STOP, for a halt and for a queued page, for
\* every chain budget.
THEOREM ChainsAlwaysStop ==
    ASSUME StoresBy \subseteq {"helper"}
    PROVE  Spec => []ChainStopsForEvents
<1>1. ChainInv => ChainStopsForEvents
  BY DEF ChainInv, ChainStopsForEvents, Quiet
<1> QED BY <1>1, HelperStoresInvariant, PTL

-----------------------------------------------------------------------------
(* No freed block runs *)

\* Either nothing is ever evicted, or nothing is compiled between a block and
\* its use: a bump arena, or no prefetch.
NoLateEviction ==
    \A m \in EvictModes \ {BUMP} : \A o \in Options[m] : o.prefetch = "none" \/ o.no_cache

HeldInv ==
    /\ ctl \in {"find", "compile", "alloc", "emit", "failed", "link"} /\ got # NULL
          => got \in DOMAIN heap
    /\ Calling /\ Prefetching => mode = BUMP
    /\ ctl \in {"enter", "body", "exit"} => cur \in DOMAIN heap /\ got \in DOMAIN heap

\* Prefetching happens under the bump policy only.
LEMMA PrefetchIsBump ==
    ASSUME NoLateEviction, Inv, HeldInv, ctl = "emit", Prefetched # <<>>
    PROVE  mode = BUMP
<1> SUFFICES ASSUME mode # BUMP PROVE FALSE
  OBVIOUS
<1>1. ~ Prefetching /\ mode \in EvictModes /\ opts \in Options[mode]
  BY DEF HeldInv, Calling, Inv, Typed, TypeOK
<1>2. opts.prefetch = "none" \/ opts.no_cache
  BY <1>1 DEF NoLateEviction
<1>3. todo = <<>>
  BY <1>1 DEF Inv, GetInv, Calling
<1>4. CASE opts.no_cache
  BY <1>4 DEF Prefetched
<1>5. CASE opts.prefetch = "none" /\ ~ opts.no_cache
  <2>1. Seeds = <<>>
    BY <1>5 DEF Seeds
  <2>2. todo \o Seeds = <<>>
    BY <1>3, <2>1
  <2> QED BY <1>5, <2>2 DEF Prefetched
<1> QED BY <1>2, <1>4, <1>5

\* Nothing frees the block get_block is about to return.
LEMMA HeldNext ==
    ASSUME NoLateEviction, Inv, HeldInv, [Next]_vars
    PROVE  HeldInv'
<1>0. /\ TypedHeap /\ CallTyped /\ mode' = mode
  <2>1. mode' = mode
    BY DEF Next, vars, config, ChainHit, ChainMiss, FindHit, FindMiss, CompileBlock,
       LruTake, LruEvict, FifoTake, BumpTake, AllocNull, EmitOverflow, EmitNoMemory,
       EmitDone, ResetAndRetry, GiveUp, Link, Enter, HelperStore, InlineStore,
       NativeChain, Return, Finished, Interrupt, SonyService, Idle, Interpret, BlockEnds
  <2> QED BY <2>1 DEF Inv, Typed, TypeOK, TypedHeap, Descriptors, CallTyped, Request
<1>1. ASSUME UNCHANGED vars \/ HelperStore \/ InlineStore
             \/ \E effect \in Effects : BlockEnds(effect)
      PROVE  HeldInv'
  <2>1. /\ UNCHANGED <<heap, got, cur, job>>
        /\ ctl' = ctl \/ (ctl = "body" /\ ctl' = "exit")
    BY <1>1 DEF vars, getter, native, HelperStore, InlineStore, BlockEnds
  <2> QED BY <1>0, <2>1 DEF HeldInv, Calling, Prefetching
<1>2. ASSUME \/ Interrupt \/ SonyService \/ Idle \/ Finished \/ Return
             \/ \E effect \in Effects : Interpret(effect)
      PROVE  HeldInv'
  <2>1. ctl' = "head"
    BY <1>2 DEF Interrupt, SonyService, Idle, Finished, Running, Return, Interpret,
       HeadOfLoop, vars
  <2> QED BY <2>1 DEF HeldInv, Calling
<1>3. ASSUME ChainHit PROVE HeldInv'
  <2>1. /\ ctl = "head" /\ prev # NULL /\ heap[prev].pn # NULL /\ heap' = heap
        /\ got' = heap[prev].pn /\ cur' = got' /\ ctl' = "enter"
    BY <1>3 DEF ChainHit, Running, Predicted
  <2>2. prev \in table
    BY <2>1 DEF Inv, LinkInv, PrevLive, InGetBlock
  <2>3. heap[prev].pn \in DOMAIN heap
    BY <1>0, <2>1, <2>2 DEF Inv, LinkInv, Linked, TypedHeap
  <2> QED BY <2>1, <2>3 DEF HeldInv, Calling
<1>4. ASSUME ChainMiss PROVE HeldInv'
  <2>1. got' = NULL /\ ctl' = "find" /\ job'.depth = 0 - 1
    BY <1>4 DEF ChainMiss
  <2> QED BY <2>1 DEF HeldInv, Calling, Prefetching
<1>5. ASSUME \/ FindMiss \/ CompileBlock \/ LruTake \/ BumpTake \/ AllocNull
             \/ EmitOverflow \/ EmitNoMemory
      PROVE  HeldInv'
  <2>1. /\ UNCHANGED <<heap, got, job>> /\ Calling
        /\ ctl' \in {"compile", "alloc", "emit", "failed"}
    BY <1>5 DEF FindMiss, CompileBlock, LruTake, BumpTake, AllocNull, EmitOverflow,
       EmitNoMemory, Allocated, getter, Calling
  <2> QED BY <1>0, <2>1 DEF HeldInv, Calling, Prefetching
<1>6. ASSUME LruEvict \/ FifoTake \/ ResetAndRetry PROVE HeldInv'
  <2>1. /\ UNCHANGED <<got, job>> /\ Calling
        /\ ctl' \in {"compile", "alloc", "emit", "failed"}
        /\ mode # BUMP \/ ~ Prefetching
    BY <1>6 DEF LruEvict, FifoTake, ResetAndRetry, Allocated, Calling, LRU, FIFO, BUMP
  <2>2. ~ Prefetching /\ got = NULL
    BY <2>1 DEF HeldInv, Inv, GetInv
  <2> QED BY <2>1, <2>2 DEF HeldInv, Calling, Prefetching
<1>7. ASSUME FindHit \/ GiveUp PROVE HeldInv'
  <2>1. heap' = heap /\ Calling /\ NextCall(todo)
    BY <1>7 DEF FindHit, GiveUp, Calling
  <2>2. got' # NULL => got' \in DOMAIN heap
    BY <1>0, <1>7 DEF FindHit, GiveUp, FindBlock, HeldInv, TypedHeap
  <2>3. \/ ctl' = "link"
        \/ todo # <<>> /\ ctl' = "find"
    BY <1>0, <2>1, NextCallFacts DEF CallTyped
  <2>4. todo # <<>> => mode = BUMP
    BY <2>1 DEF HeldInv, Inv, GetInv
  <2> QED BY <1>0, <2>1, <2>2, <2>3, <2>4 DEF HeldInv, Calling
<1>8. ASSUME EmitDone PROVE HeldInv'
  <2>1. ctl = "emit" /\ NextCall(Prefetched) /\ Prefetched \in Seq(Request)
    BY <1>8, SeedsTyped DEF EmitDone
  <2>2. got' \in DOMAIN heap'
    <3>1. PICK b : DOMAIN heap' = DOMAIN heap \cup {b} /\ got' = IF Prefetching THEN got ELSE b
      BY <1>8, EmitDoneFacts
    <3>2. Prefetching => got \in DOMAIN heap
      BY <2>1 DEF HeldInv, Inv, GetInv, Calling
    <3> QED BY <3>1, <3>2
  <2>3. \/ ctl' = "link"
        \/ Prefetched # <<>> /\ ctl' = "find"
    BY <2>1, NextCallFacts
  <2>4. Prefetched # <<>> => mode = BUMP
    BY <2>1, PrefetchIsBump
  <2> QED BY <1>0, <2>2, <2>3, <2>4 DEF HeldInv, Calling
<1>9. ASSUME Link PROVE HeldInv'
  <2>1. /\ ctl = "link" /\ got # NULL /\ cur' = got /\ got' = got /\ ctl' = "enter"
    BY <1>9 DEF Link
  <2>2. DOMAIN heap' = DOMAIN heap
    BY <1>9, LinkFacts
  <2> QED BY <2>1, <2>2 DEF HeldInv, Calling
<1>10. ASSUME Enter \/ NativeChain PROVE HeldInv'
  <2>1. /\ ctl' \in {"enter", "body"} /\ got' = got
        /\ ctl = "enter" \/ ctl = "exit"
    BY <1>10 DEF Enter, NativeChain, getter
  <2>2. ctl' = "body" => cur' \in DOMAIN heap' /\ got' \in DOMAIN heap'
    BY RunInvNext DEF RunInv
  <2>3. ctl' = "enter" => cur' \in DOMAIN heap' /\ got' \in DOMAIN heap'
    <3>1. ctl' = "enter" => chained' = TRUE
      BY <1>10 DEF Enter, NativeChain
    <3> QED BY <3>1, RunInvNext DEF RunInv
  <2> QED BY <2>1, <2>2, <2>3 DEF HeldInv, Calling
<1> QED BY <1>1, <1>2, <1>3, <1>4, <1>5, <1>6, <1>7, <1>8, <1>9, <1>10 DEF Next

\* No freed block runs or is kept as prev, with a bump arena or without
\* prefetch, for every arena, guest and option.  With LRU or FIFO and prefetch
\* it would be false.
THEOREM RunningBlockAlwaysLive ==
    ASSUME NoLateEviction
    PROVE  Spec => []RunningBlockLive
<1>1. Init => HeldInv
  BY DEF Init, HeldInv, Calling
<1>2. Inv /\ HeldInv /\ [Next]_vars => HeldInv'
  BY HeldNext
<1>3. HeldInv => RunningBlockLive
  BY DEF HeldInv, RunningBlockLive, InBlock
<1> QED BY <1>1, <1>2, <1>3, DispatcherInvariant, PTL DEF Spec

-----------------------------------------------------------------------------
(* Refinement: the dispatcher is a client of CodeCache *)

\* The invariant of the code cache, for the dispatcher's blocks.
Code == INSTANCE CodeCacheProofs WITH
            Reserves <- {Reserve[pc] : pc \in Pc},
            Actuals <- UNION {Actual[pc] : pc \in Pc},
            live <- {[off |-> heap[b].off, size |-> heap[b].size] :
                        b \in DOMAIN heap},
            phase <- IF ctl \in {"alloc", "emit"} THEN ctl ELSE "idle",
            req <- IF ctl \in {"alloc", "emit"} THEN Reserve[job.pc] ELSE 0,
            lost <- {}

SpanOf(h, b) == [off |-> h[b].off, size |-> h[b].size]
Spans(h) == {SpanOf(h, b) : b \in DOMAIN h}

\* The two instances of the code cache take the same steps.
LEMMA SameStep == [Cache!Next]_(Cache!vars) => [Code!Next]_(Code!vars)
BY DEF Cache!Next, Code!Next, Cache!vars, Code!vars, Cache!Alloc, Code!Alloc,
   Cache!LruAllocTake, Code!LruAllocTake, Cache!LruAllocEvict, Code!LruAllocEvict,
   Cache!LruAllocNull, Code!LruAllocNull, Cache!FifoAllocTake, Code!FifoAllocTake,
   Cache!FifoAllocNull, Code!FifoAllocNull, Cache!BumpAllocTake, Code!BumpAllocTake,
   Cache!BumpAllocNull, Code!BumpAllocNull, Cache!Finish, Code!Finish,
   Cache!FinishNoDescriptor, Code!FinishNoDescriptor, Cache!Overflow, Code!Overflow,
   Cache!Drop, Code!Drop, Cache!Reset, Code!Reset, Cache!Idle, Code!Idle,
   Cache!LruSize, Code!LruSize, Cache!CcAlign, Code!CcAlign, Cache!Cap, Code!Cap,
   Cache!CC_ALIGN, Code!CC_ALIGN, Cache!HdrSize, Code!HdrSize,
   Cache!FirstFit, Code!FirstFit, Cache!Carve, Code!Carve, Cache!LruFree, Code!LruFree,
   Cache!PrevSpan, Code!PrevSpan, Cache!NextSpan, Code!NextSpan,
   Cache!FreedList, Code!FreedList, Cache!TrimmedList, Code!TrimmedList,
   Cache!TrimmedCursor, Code!TrimmedCursor, Cache!FifoStart, Code!FifoStart,
   Cache!Overlaps, Code!Overlaps, Cache!WholeArena, Code!WholeArena,
   Cache!LRU, Code!LRU, Cache!FIFO, Code!FIFO, Cache!BUMP, Code!BUMP

\* The allocator's operators are the same in the instance.
LEMMA SameOps ==
    /\ Cache!LRU = LRU /\ Cache!FIFO = FIFO /\ Cache!BUMP = BUMP
    /\ Cache!Cap = Cap /\ Cache!WholeArena = WholeArena
    /\ \A v : Cache!CcAlign(v) = CcAlign(v) /\ Cache!LruSize(v) = LruSize(v)
    /\ \A F, n : Cache!FirstFit(F, n) = FirstFit(F, n)
    /\ \A F, s, n : Cache!Carve(F, s, n) = Carve(F, s, n)
    /\ \A F, o, n : Cache!LruFree(F, o, n) = LruFree(F, o, n)
    /\ \A F, o, n : Cache!FreedList(F, o, n) = FreedList(F, o, n)
    /\ \A F, o, a, r : Cache!TrimmedList(F, o, a, r) = TrimmedList(F, o, a, r)
    /\ \A u, o, a : Cache!TrimmedCursor(u, o, a) = TrimmedCursor(u, o, a)
    /\ \A u, n : Cache!FifoStart(u, n) = FifoStart(u, n)
    /\ \A s, x, y : Cache!Overlaps(s, x, y) <=> Overlaps(s, x, y)
<1> USE DEF Cache!LRU, LRU, Cache!FIFO, FIFO, Cache!BUMP, BUMP, Cache!Cap, Cap,
        Cache!CC_ALIGN, CC_ALIGN, Cache!HdrSize, HdrSize, Cache!CcAlign, CcAlign,
        Cache!LruSize, LruSize
<1>1. /\ Cache!LRU = LRU /\ Cache!FIFO = FIFO /\ Cache!BUMP = BUMP
      /\ Cache!Cap = Cap /\ Cache!WholeArena = WholeArena
  BY Zenon DEF Cache!WholeArena, WholeArena
<1>2. \A v : Cache!CcAlign(v) = CcAlign(v) /\ Cache!LruSize(v) = LruSize(v)
  BY Zenon
<1>3. \A F, n : Cache!FirstFit(F, n) = FirstFit(F, n)
  BY Zenon DEF Cache!FirstFit, FirstFit
<1>4. \A F, s, n : Cache!Carve(F, s, n) = Carve(F, s, n)
  BY Zenon DEF Cache!Carve, Carve
<1>5. \A F, o, n : Cache!LruFree(F, o, n) = LruFree(F, o, n)
  BY SMT DEF Cache!LruFree, LruFree, Cache!PrevSpan, PrevSpan, Cache!NextSpan, NextSpan
<1>6. \A F, o, n : Cache!FreedList(F, o, n) = FreedList(F, o, n)
  BY <1>1, <1>5, Zenon DEF Cache!FreedList, FreedList
<1>7. \A F, o, a, r : Cache!TrimmedList(F, o, a, r) = TrimmedList(F, o, a, r)
  BY <1>1, <1>2, <1>5, Zenon DEF Cache!TrimmedList, TrimmedList
<1>8. \A u, o, a : Cache!TrimmedCursor(u, o, a) = TrimmedCursor(u, o, a)
  BY Zenon DEF Cache!TrimmedCursor, TrimmedCursor
<1>9. \A u, n : Cache!FifoStart(u, n) = FifoStart(u, n)
  BY Zenon DEF Cache!FifoStart, FifoStart
<1>10. \A s, x, y : Cache!Overlaps(s, x, y) <=> Overlaps(s, x, y)
  BY Zenon DEF Cache!Overlaps, Overlaps
<1> HIDE DEF LRU, FIFO, BUMP, Cap, CC_ALIGN, HdrSize, CcAlign, LruSize, Cache!LRU,
        Cache!FIFO, Cache!BUMP, Cache!Cap, Cache!CC_ALIGN, Cache!HdrSize,
        Cache!CcAlign, Cache!LruSize
<1> QED BY <1>1, <1>2, <1>3, <1>4, <1>5, <1>6, <1>7, <1>8, <1>9, <1>10, Zenon

\* What the code cache sees of the dispatcher's place in its loop.
Phase == IF ctl \in {"alloc", "emit"} THEN ctl ELSE "idle"
Req == IF ctl \in {"alloc", "emit"} THEN Reserve[job.pc] ELSE 0

OpenInv == ctl # "emit" => open = 0

Injective == \A b, c \in DOMAIN heap : SpanOf(heap, b) = SpanOf(heap, c) => b = c

\* While get_block looks for a block, the cached blocks are all there are.
LEMMA CallingTable ==
    ASSUME Inv, Calling, ~ Prefetching \/ ~ opts.no_cache
    PROVE  DOMAIN heap = table
<1>1. table \subseteq DOMAIN heap /\ DOMAIN heap \subseteq BlockId
  BY DEF Inv, Typed, TypeOK
<1>2. CASE ~ opts.no_cache
  BY <1>1, <1>2 DEF Inv, TableInv, OneBlockPerPc
<1>3. CASE opts.no_cache
  <2>1. got = NULL
    BY <1>3 DEF Inv, GetInv
  <2> QED BY <1>1, <1>3, <2>1, NullAssumption DEF Inv, TableInv, OneBlockPerPc
<1> QED BY <1>2, <1>3

\* Steps that keep descriptors keep their spans.
LEMMA SpansKept ==
    ASSUME Inv, ShrinkStep \/ Link
    PROVE  /\ DOMAIN heap' \subseteq DOMAIN heap
           /\ \A b \in DOMAIN heap' : SpanOf(heap', b) = SpanOf(heap, b)
           /\ Spans(heap') \subseteq Spans(heap)
           /\ DOMAIN heap' = DOMAIN heap => Spans(heap') = Spans(heap)
           /\ DOMAIN heap' = {} => Spans(heap') = {}
<1>1. /\ DOMAIN heap' \subseteq DOMAIN heap
      /\ \A b \in DOMAIN heap' : SameCode(heap'[b], heap[b])
  BY LinkFacts DEF ShrinkStep, Shrunk
<1>2. \A b \in DOMAIN heap' : SpanOf(heap', b) = SpanOf(heap, b)
  BY <1>1 DEF SameCode, SpanOf
<1> QED BY <1>1, <1>2 DEF Spans

\* A step of the loop that leaves the arena and its blocks alone.
LEMMA CacheStutters ==
    ASSUME UNCHANGED <<mode, used, free, open>>, Spans(heap') = Spans(heap),
           Phase' = Phase, Req' = Req
    PROVE  UNCHANGED Cache!vars
BY Zenon DEF Cache!vars, Spans, SpanOf, Phase, Req

\* Blocks dropped without giving their spans back.
LEMMA CacheDrops ==
    ASSUME UNCHANGED <<mode, used, free, open>>, Spans(heap') \subseteq Spans(heap),
           Phase' = Phase, Phase = "idle", Req' = Req
    PROVE  [Cache!Next]_(Cache!vars)
<1>1. CASE Spans(heap') = Spans(heap)
  BY <1>1, CacheStutters, Zenon
<1>2. CASE Spans(heap') # Spans(heap)
  <2>1. PICK gone : /\ gone \in SUBSET Spans(heap) /\ gone # {}
                    /\ Spans(heap') = Spans(heap) \ gone
    <3> DEFINE g == Spans(heap) \ Spans(heap')
    <3>1. g \in SUBSET Spans(heap) /\ g # {} /\ Spans(heap') = Spans(heap) \ g
      BY <1>2
    <3> QED BY <3>1
  <2>2. Cache!Drop(gone)
    BY <2>1 DEF Cache!Drop, Spans, SpanOf, Phase, Req
  <2>3. \E spans \in SUBSET Spans(heap) : spans # {} /\ Cache!Drop(spans)
    BY <2>1, <2>2
  <2> QED BY <2>3, Zenon DEF Cache!Next, Spans, SpanOf
<1> QED BY <1>1, <1>2

\* codecache_reset with every block freed.
LEMMA CacheResets ==
    ASSUME mode' = mode, open' = open, used' = 0, free' = WholeArena,
           Spans(heap') = {}, Phase' = Phase, Phase = "idle", Req' = Req
    PROVE  Cache!Next
<1>1. Cache!Reset
  BY SameOps DEF Cache!Reset, Spans, SpanOf, Phase, Req
<1> QED BY <1>1 DEF Cache!Next

\* The steps outside get_block's compiles.
LEMMA LoopStutters ==
    ASSUME Inv, OpenInv,
           \/ UNCHANGED vars
           \/ Interrupt \/ SonyService \/ Idle \/ Finished \/ ChainHit \/ ChainMiss
           \/ FindHit \/ FindMiss \/ GiveUp \/ Link \/ Enter
           \/ HelperStore \/ InlineStore \/ NativeChain
           \/ \E effect \in Effects : Interpret(effect) \/ BlockEnds(effect)
    PROVE  UNCHANGED Cache!vars /\ OpenInv'
<1>1. UNCHANGED <<mode, used, free, open>>
  BY DEF vars, config, arena, Interrupt, SonyService, Idle, Finished, ChainHit, ChainMiss,
     FindHit, FindMiss, GiveUp, Link, Enter, HelperStore, InlineStore, NativeChain,
     Interpret, BlockEnds
<1>2. DOMAIN heap' = DOMAIN heap /\ (ShrinkStep \/ Link)
  <2>1. CASE Link
    BY <2>1, LinkFacts
  <2>2. CASE Enter
    <3>1. DOMAIN heap' = DOMAIN heap
      BY <2>2 DEF Enter
    <3>2. ~ EmitDone /\ [Next]_vars
      BY <2>2 DEF Enter, EmitDone, Next
    <3> QED BY <3>1, <3>2, TableSteps
  <2>3. CASE ~ Link /\ ~ Enter
    <3>1. heap' = heap /\ table' = table
      BY <2>3 DEF vars, Interrupt, SonyService, Idle, Finished, ChainHit, ChainMiss,
         FindHit, FindMiss, GiveUp, HelperStore, InlineStore, NativeChain,
         Interpret, BlockEnds
    <3> QED BY <3>1, QuietStep
  <2> QED BY <2>1, <2>2, <2>3
<1>3. Spans(heap') = Spans(heap)
  BY <1>2, SpansKept
<1>4. \/ ctl' = ctl /\ job' = job
      \/ ctl \notin {"alloc", "emit"} /\ ctl' \notin {"alloc", "emit"}
  BY DEF vars, getter, Interrupt, SonyService, Idle, Finished, ChainHit, ChainMiss,
     FindHit, FindMiss, GiveUp, Link, Enter, HelperStore, InlineStore, NativeChain,
     Interpret, BlockEnds, HeadOfLoop, NextCall, Running
<1>5. Phase' = Phase /\ Req' = Req /\ OpenInv'
  BY <1>1, <1>4 DEF Phase, Req, OpenInv
<1> QED BY <1>1, <1>3, <1>5, CacheStutters

\* The steps of a compile are calls of the code cache.
LEMMA CompileSteps ==
    ASSUME Inv, OpenInv, Injective,
           \/ CompileBlock \/ LruTake \/ LruEvict \/ FifoTake \/ BumpTake \/ AllocNull
           \/ EmitOverflow \/ EmitNoMemory \/ EmitDone
    PROVE  Cache!Next /\ OpenInv'
<1>0. /\ mode' = mode /\ job.pc \in Pc /\ DOMAIN heap = table
  <2>1. Calling /\ mode' = mode
    BY DEF CompileBlock, LruTake, LruEvict, FifoTake, BumpTake, AllocNull,
       EmitOverflow, EmitNoMemory, EmitDone, Calling, config
  <2>2. ~ Prefetching \/ ~ opts.no_cache
    BY <2>1 DEF Inv, GetInv
  <2> QED BY <2>1, <2>2, CallingTable DEF Inv, Typed
<1>1. ASSUME CompileBlock PROVE Cache!Next /\ OpenInv'
  <2>1. /\ ctl = "compile" /\ ctl' = "alloc" /\ UNCHANGED <<heap, used, free, open, job>>
    BY <1>1 DEF CompileBlock, arena, getter
  <2>2. Cache!Alloc(Reserve[job.pc])
    BY <1>0, <2>1 DEF Cache!Alloc
  <2>3. \E size \in {Reserve[pc] : pc \in Pc} : Cache!Alloc(size)
    BY <1>0, <2>2
  <2>4. OpenInv'
    BY <2>1 DEF OpenInv
  <2> QED BY <2>3, <2>4 DEF Cache!Next
<1>2. ASSUME LruTake PROVE Cache!Next /\ OpenInv'
  <2>1. /\ ctl = "alloc" /\ mode = LRU /\ ctl' = "emit" /\ UNCHANGED <<heap, used, job>>
        /\ LruSize(Reserve[job.pc]) <= Cap
        /\ \E s \in FirstFit(free, LruSize(Reserve[job.pc])) :
              /\ free' = Carve(free, s, LruSize(Reserve[job.pc]))
              /\ open' = s.off
    BY <1>2 DEF LruTake, Allocated, getter
  <2>2. Cache!LruAllocTake
    BY <1>0, <2>1, SameOps DEF Cache!LruAllocTake
  <2>3. OpenInv'
    BY <2>1 DEF OpenInv
  <2> QED BY <2>2, <2>3 DEF Cache!Next
<1>3. ASSUME LruEvict PROVE Cache!Next /\ OpenInv'
  <2>1. /\ ctl = "alloc" /\ mode = LRU /\ UNCHANGED <<ctl, used, open, job>>
        /\ LruSize(Reserve[job.pc]) <= Cap
        /\ FirstFit(free, LruSize(Reserve[job.pc])) = {}
    BY <1>3 DEF LruEvict
  <2>2. PICK victim \in table :
           /\ table' = table \ {victim}
           /\ heap' = ForgetOne(Without(heap, {victim}), victim)
           /\ free' = LruFree(free, heap[victim].off, heap[victim].size)
    BY <1>3 DEF LruEvict, Coldest
  <2>3. ShrinkStep
    BY <2>2, EvictStep
  <2>4. DOMAIN heap' = DOMAIN heap \ {victim}
    <3>1. Descriptors(heap) /\ victim \in BlockId
      BY DEF Inv, Typed, TypeOK, Descriptors
    <3> DEFINE g == Without(heap, {victim})
    <3>2. DOMAIN g = DOMAIN heap \ {victim} /\ Descriptors(g)
      BY <3>1, WithoutFacts
    <3> HIDE DEF g
    <3>3. DOMAIN ForgetOne(g, victim) = DOMAIN g
      BY <3>1, <3>2, ForgetOneFacts
    <3> QED BY <2>2, <3>2, <3>3 DEF g
  <2>5. PICK s \in Spans(heap) : /\ s = SpanOf(heap, victim)
                                 /\ s.off = heap[victim].off
                                 /\ s.size = heap[victim].size
    <3>1. SpanOf(heap, victim) \in Spans(heap)
      BY <1>0, <2>2 DEF Spans
    <3>2. /\ SpanOf(heap, victim).off = heap[victim].off
          /\ SpanOf(heap, victim).size = heap[victim].size
      BY DEF SpanOf
    <3> QED BY <3>1, <3>2
  <2>6. Spans(heap') = Spans(heap) \ {s}
    BY <1>0, <2>3, <2>4, <2>5, SpansKept DEF Injective, Spans
  <2>7. Cache!LruAllocEvict(s)
    BY <1>0, <2>1, <2>2, <2>5, <2>6, SameOps DEF Cache!LruAllocEvict, Spans, SpanOf
  <2>8. \E victim_1 \in Spans(heap) : Cache!LruAllocEvict(victim_1)
    BY <2>5, <2>7
  <2>9. OpenInv'
    BY <2>1 DEF OpenInv
  <2> QED BY <2>8, <2>9 DEF Cache!Next, Spans, SpanOf
<1>4. ASSUME FifoTake PROVE Cache!Next /\ OpenInv'
  <2> DEFINE size == CcAlign(Reserve[job.pc])
             at   == FifoStart(used, size)
             V    == {b \in table : Overlaps(heap[b], at, at + size)}
  <2>1. /\ ctl = "alloc" /\ mode = FIFO /\ size <= Cap /\ ctl' = "emit"
        /\ UNCHANGED <<free, job>> /\ used' = at + size /\ open' = at
        /\ table' = table \ V
        /\ heap' = IF V = {} THEN heap ELSE Forget(Without(heap, V))
    BY <1>4 DEF FifoTake, Allocated
  <2>2. ShrinkStep /\ DOMAIN heap' = DOMAIN heap \ V
    <3> HIDE DEF V
    <3>1. CASE V = {}
      <4>1. heap' = heap /\ table' = table
        BY <2>1, <3>1
      <4> QED BY <3>1, <4>1, QuietStep
    <3>2. CASE V # {}
      <4>1. heap' = Forget(Without(heap, V)) /\ table' = table \ V
        BY <2>1, <3>2
      <4>2. Descriptors(heap)
        BY DEF Inv, Typed, TypeOK, Descriptors
      <4>3. DOMAIN Without(heap, V) = DOMAIN heap \ V /\ Descriptors(Without(heap, V))
        BY <4>2, WithoutFacts
      <4>4. DOMAIN Forget(Without(heap, V)) = DOMAIN Without(heap, V)
        BY <4>3, ForgetFacts
      <4> QED BY <4>1, <4>3, <4>4, FlushStep
    <3> QED BY <3>1, <3>2
  <2>3. \A b \in DOMAIN heap : b \in V <=> Overlaps(SpanOf(heap, b), at, at + size)
    BY <1>0 DEF Overlaps, SpanOf
  <2> HIDE DEF V, at, size
  <2>4. Spans(heap') = {s \in Spans(heap) : ~ Overlaps(s, at, at + size)}
    BY <2>2, <2>3, SpansKept DEF Spans
  <2>5. Cache!CcAlign(Reserve[job.pc]) = size /\ Cache!FifoStart(used, size) = at
    BY SameOps DEF size, at
  <2>6. Spans(heap') = {s \in Spans(heap) : ~ Cache!Overlaps(s, at, at + size)}
    BY <2>4, SameOps
  <2>7. Cache!FifoAllocTake
    BY <1>0, <2>1, <2>5, <2>6, SameOps DEF Cache!FifoAllocTake, Spans, SpanOf
  <2>8. OpenInv'
    BY <2>1 DEF OpenInv
  <2> QED BY <2>7, <2>8 DEF Cache!Next
<1>5. ASSUME BumpTake PROVE Cache!Next /\ OpenInv'
  <2>1. /\ ctl = "alloc" /\ mode = BUMP /\ ctl' = "emit" /\ UNCHANGED <<heap, free, job>>
        /\ CcAlign(used) + Reserve[job.pc] <= Cap
        /\ used' = CcAlign(used) + Reserve[job.pc] /\ open' = CcAlign(used)
    BY <1>5 DEF BumpTake, Allocated, getter
  <2>2. Cache!BumpAllocTake
    BY <1>0, <2>1, SameOps DEF Cache!BumpAllocTake
  <2>3. OpenInv'
    BY <2>1 DEF OpenInv
  <2> QED BY <2>2, <2>3 DEF Cache!Next
<1>6. ASSUME AllocNull PROVE Cache!Next /\ OpenInv'
  <2>1. /\ ctl = "alloc" /\ ctl' = "failed" /\ UNCHANGED <<heap, free, open>> /\ open = 0
        /\ \/ /\ mode = LRU
              /\ \/ LruSize(Reserve[job.pc]) > Cap
                 \/ FirstFit(free, LruSize(Reserve[job.pc])) = {} /\ table = {}
              /\ used' = used
           \/ mode = FIFO /\ CcAlign(Reserve[job.pc]) > Cap /\ used' = used
           \/ /\ mode = BUMP /\ CcAlign(used) + Reserve[job.pc] > Cap
              /\ used' = CcAlign(used)
    BY <1>6 DEF AllocNull, OpenInv
  <2>2. table = {} => Spans(heap) = {}
    BY <1>0 DEF Spans
  <2>3. Cache!Idle
    BY <2>1 DEF Cache!Idle
  <2>4. CASE mode = LRU
    <3>1. /\ LruSize(Reserve[job.pc]) > Cap
             \/ (FirstFit(free, LruSize(Reserve[job.pc])) = {} /\ Spans(heap) = {})
          /\ used' = used
      BY <2>1, <2>2, <2>4 DEF LRU, FIFO, BUMP
    <3>2. Cache!LruAllocNull
      BY <1>0, <2>1, <2>3, <2>4, <3>1, SameOps DEF Cache!LruAllocNull, Spans, SpanOf
    <3> QED BY <2>1, <3>2 DEF Cache!Next, OpenInv
  <2>5. CASE mode = FIFO
    <3>1. CcAlign(Reserve[job.pc]) > Cap /\ used' = used
      BY <2>1, <2>5 DEF LRU, FIFO, BUMP
    <3>2. Cache!FifoAllocNull
      BY <1>0, <2>1, <2>3, <2>5, <3>1, SameOps DEF Cache!FifoAllocNull
    <3> QED BY <2>1, <3>2 DEF Cache!Next, OpenInv
  <2>6. CASE mode = BUMP
    <3>1. CcAlign(used) + Reserve[job.pc] > Cap /\ used' = CcAlign(used)
      BY <2>1, <2>6 DEF LRU, FIFO, BUMP
    <3>2. Cache!BumpAllocNull
      BY <1>0, <2>1, <2>3, <2>6, <3>1, SameOps DEF Cache!BumpAllocNull
    <3> QED BY <2>1, <3>2 DEF Cache!Next, OpenInv
  <2> QED BY <2>1, <2>4, <2>5, <2>6
<1>7. ASSUME EmitOverflow PROVE Cache!Next /\ OpenInv'
  <2>1. /\ ctl = "emit" /\ ctl' = "failed" /\ UNCHANGED <<heap, used>> /\ open' = 0
        /\ free' = FreedList(free, open, Reserve[job.pc])
    BY <1>7 DEF EmitOverflow
  <2>2. Cache!Overflow
    BY <1>0, <2>1, SameOps DEF Cache!Overflow, Cache!Idle
  <2> QED BY <2>1, <2>2 DEF Cache!Next, OpenInv
<1>8. ASSUME EmitNoMemory PROVE Cache!Next /\ OpenInv'
  <2>1. /\ ctl = "emit" /\ ctl' = "failed" /\ heap' = heap /\ open' = 0
    BY <1>8 DEF EmitNoMemory
  <2>2. PICK actual \in Actual[job.pc] :
           /\ actual <= Reserve[job.pc]
           /\ free' = FreedList(TrimmedList(free, open, actual, Reserve[job.pc]),
                                open, actual)
           /\ used' = TrimmedCursor(used, open, actual)
    BY <1>8 DEF EmitNoMemory
  <2>3. Cache!FinishNoDescriptor(actual)
    BY <1>0, <2>1, <2>2, SameOps DEF Cache!FinishNoDescriptor, Cache!Idle
  <2>4. actual \in UNION {Actual[pc] : pc \in Pc}
    BY <1>0
  <2> QED BY <2>1, <2>3, <2>4 DEF Cache!Next, OpenInv
<1>9. ASSUME EmitDone PROVE Cache!Next /\ OpenInv'
  <2>1. /\ ctl = "emit" /\ ctl' \in {"link", "find"} /\ open' = 0
    BY <1>9 DEF EmitDone, NextCall
  <2>2. PICK actual \in Actual[job.pc], b \in BlockId \ DOMAIN heap :
           /\ actual <= Reserve[job.pc]
           /\ DOMAIN heap' = DOMAIN heap \cup {b}
           /\ \A c \in DOMAIN heap : heap'[c] = heap[c]
           /\ heap'[b].off = open /\ heap'[b].size = actual
           /\ free' = TrimmedList(free, open, actual, Reserve[job.pc])
           /\ used' = TrimmedCursor(used, open, actual)
    BY <1>9, EmitDoneFacts
  <2>3. Spans(heap') = Spans(heap) \cup {[off |-> open, size |-> actual]}
    BY <2>2 DEF Spans, SpanOf
  <2>4. Cache!Finish(actual)
    BY <1>0, <2>1, <2>2, <2>3, SameOps DEF Cache!Finish, Cache!Idle, Spans, SpanOf
  <2>5. actual \in UNION {Actual[pc] : pc \in Pc}
    BY <1>0
  <2> QED BY <2>1, <2>4, <2>5 DEF Cache!Next, OpenInv
<1> QED BY <1>1, <1>2, <1>3, <1>4, <1>5, <1>6, <1>7, <1>8, <1>9

\* The two ways the dispatcher empties or flushes its table.
LEMMA FlushSteps ==
    ASSUME Inv, OpenInv, ResetAndRetry \/ Return
    PROVE  [Cache!Next]_(Cache!vars) /\ OpenInv'
<1>1. /\ mode' = mode /\ open' = open /\ Phase' = "idle" /\ Phase = "idle"
      /\ Req' = Req /\ OpenInv'
  BY DEF ResetAndRetry, Return, HeadOfLoop, config, Phase, Req, OpenInv
<1>2. ShrinkStep
  <2>1. [Next]_vars /\ ~ EmitDone /\ ~ Link
    BY DEF ResetAndRetry, Return, Next, EmitDone, Link
  <2> QED BY <2>1, TableSteps
<1>3. Descriptors(heap) /\ table \subseteq DOMAIN heap
  BY DEF Inv, Typed, TypeOK, Descriptors
<1>4. CASE ResetAndRetry
  <2>1. DOMAIN heap = table
    BY <1>4, CallingTable DEF ResetAndRetry, Calling
  <2>2. used' = 0 /\ free' = WholeArena /\ DOMAIN heap' = {}
    <3>1. used' = 0 /\ free' = WholeArena /\ heap' = Without(heap, table)
      BY <1>4 DEF ResetAndRetry
    <3>2. DOMAIN Without(heap, table) = DOMAIN heap \ table
      BY <1>3, WithoutFacts
    <3> QED BY <2>1, <3>1, <3>2
  <2>3. Spans(heap') = {}
    BY <1>2, <2>2, SpansKept
  <2> QED BY <1>1, <2>2, <2>3, CacheResets
<1>5. CASE Return /\ overflow
  <2> DEFINE kept == IF opts.no_cache THEN Without(heap, {got}) ELSE heap
  <2>1. used' = 0 /\ free' = WholeArena /\ heap' = Forget(Without(kept, table))
    BY <1>5 DEF Return
  <2>2. Descriptors(kept) /\ DOMAIN kept \subseteq table
    <3>1. CASE opts.no_cache
      <4>1. DOMAIN heap \ table \subseteq {got}
        BY <3>1 DEF Inv, TableInv, OneBlockPerPc
      <4>2. /\ Descriptors(Without(heap, {got}))
            /\ DOMAIN Without(heap, {got}) = DOMAIN heap \ {got}
        BY <1>3, WithoutFacts
      <4> QED BY <3>1, <4>1, <4>2
    <3>2. CASE ~ opts.no_cache
      <4>1. DOMAIN heap \ table \subseteq {}
        BY <3>2 DEF Inv, TableInv, OneBlockPerPc
      <4> QED BY <1>3, <3>2, <4>1
    <3> QED BY <3>1, <3>2
  <2> HIDE DEF kept
  <2>3. Descriptors(Without(kept, table)) /\ DOMAIN Without(kept, table) = {}
    <3>1. /\ Descriptors(Without(kept, table))
          /\ DOMAIN Without(kept, table) = DOMAIN kept \ table
      BY <2>2, WithoutFacts
    <3> QED BY <2>2, <3>1
  <2>4. DOMAIN heap' = {}
    BY <2>1, <2>3, ForgetFacts
  <2>5. Spans(heap') = {}
    BY <1>2, <2>4, SpansKept
  <2> QED BY <1>1, <2>1, <2>5, CacheResets
<1>6. CASE Return /\ ~ overflow
  <2>1. used' = used /\ free' = free
    BY <1>6 DEF Return
  <2>2. Spans(heap') \subseteq Spans(heap)
    BY <1>2, SpansKept
  <2> QED BY <1>1, <2>1, <2>2, CacheDrops
<1> QED BY <1>1, <1>4, <1>5, <1>6

\* Every step of the dispatcher is a step of the code cache, or none.
LEMMA StepRefines ==
    ASSUME Inv, OpenInv, Injective, [Next]_vars
    PROVE  [Cache!Next]_(Cache!vars) /\ OpenInv'
<1>1. CASE \/ CompileBlock \/ LruTake \/ LruEvict \/ FifoTake \/ BumpTake \/ AllocNull
           \/ EmitOverflow \/ EmitNoMemory \/ EmitDone
  BY <1>1, CompileSteps
<1>2. CASE ResetAndRetry \/ Return
  BY <1>2, FlushSteps
<1>3. CASE \/ UNCHANGED vars
           \/ Interrupt \/ SonyService \/ Idle \/ Finished \/ ChainHit \/ ChainMiss
           \/ FindHit \/ FindMiss \/ GiveUp \/ Link \/ Enter
           \/ HelperStore \/ InlineStore \/ NativeChain
           \/ \E effect \in Effects : Interpret(effect) \/ BlockEnds(effect)
  BY <1>3, LoopStutters
<1> QED BY <1>1, <1>2, <1>3, Zenon DEF Next

\* The code cache's parameters, as the dispatcher gives them, are what its
\* proofs assume.
LEMMA CodeAssumptions ==
    /\ UNION {Actual[pc] : pc \in Pc} \subseteq Nat \ {0}
    /\ {Reserve[pc] : pc \in Pc} \subseteq Nat \ {0}
    /\ EvictModes \subseteq {Code!BUMP, Code!LRU, Code!FIFO}
    /\ ArenaCap \in Nat
BY BlockAssumption, ModeAssumption, ArenaAssumption
   DEF Code!BUMP, Code!LRU, Code!FIFO, BUMP, LRU, FIFO

\* The code cache's invariant is kept by the dispatcher's steps.
LEMMA CodeKept ==
    ASSUME Code!Inv, [Cache!Next]_(Cache!vars)
    PROVE  Code!Inv'
<1>1. [Code!Next]_(Code!vars)
  BY SameStep
<1> QED BY <1>1, CodeAssumptions, Code!NextInv DEF Code!NextInv

\* A span being emitted into is not the span of any block.
LEMMA FreshSpan ==
    ASSUME Inv, Code!Inv, ctl = "emit"
    PROVE  \A b \in DOMAIN heap : heap[b].off # open
<1> SUFFICES ASSUME NEW b \in DOMAIN heap, heap[b].off = open PROVE FALSE
  OBVIOUS
<1> DEFINE s == SpanOf(heap, b)
<1>1. s \in Spans(heap) /\ s \in [off : Nat, size : Nat]
      /\ s.off = open /\ s.size = heap[b].size /\ open \in Nat
  BY DEF Spans, SpanOf, Inv, Typed, TypeOK, Block
<1>2. Code!Apart(Code!Footprint(s), Code!Held) /\ s.size > 0 /\ Reserve[job.pc] > 0
  BY <1>1 DEF Code!Inv, Code!EmitInv, Code!LiveInv, Spans, SpanOf
<1>3. Reserve[job.pc] \in Nat
  BY BlockAssumption DEF Inv, Typed, Calling
<1> HIDE DEF s
<1>4. \A n \in Nat : n > 0 => Code!CcAlign(n) \in Nat /\ Code!CcAlign(n) > 0
  BY DEF Code!CcAlign, Code!CC_ALIGN
<1>5. /\ Code!Footprint(s).off = open /\ Code!Footprint(s).size = Code!CcAlign(s.size)
      /\ Code!Held.off = open /\ Code!Held.size = Code!CcAlign(Reserve[job.pc])
  BY <1>1 DEF Code!Footprint, Code!Held
<1> QED BY <1>1, <1>2, <1>3, <1>4, <1>5 DEF Code!Apart

\* No two blocks ever have one span.
LEMMA InjectiveNext ==
    ASSUME Inv, Code!Inv, Injective, [Next]_vars
    PROVE  Injective'
<1>1. CASE EmitDone
  <2>1. PICK b \in BlockId \ DOMAIN heap :
           /\ DOMAIN heap' = DOMAIN heap \cup {b}
           /\ \A c \in DOMAIN heap : heap'[c] = heap[c]
           /\ heap'[b].off = open
    BY <1>1, EmitDoneFacts
  <2>2. \A c \in DOMAIN heap : heap[c].off # open
    BY <1>1, FreshSpan DEF EmitDone
  <2> QED BY <2>1, <2>2 DEF Injective, SpanOf
<1>2. CASE ~ EmitDone
  <2>1. ShrinkStep \/ Link
    BY <1>2, TableSteps
  <2> QED BY <2>1, SpansKept DEF Injective
<1> QED BY <1>1, <1>2

\* The dispatcher's initial states are initial states of its code cache.
LEMMA InitRefines ==
    ASSUME Init
    PROVE  Cache!Init /\ Code!Inv /\ OpenInv /\ Injective
<1>0. /\ mode \in EvictModes /\ used = 0 /\ free = WholeArena /\ open = 0
      /\ ctl = "head" /\ DOMAIN heap = {}
  BY DEF Init
<1>1. Cache!Init /\ Code!Init
  <2>1. Cache!WholeArena = WholeArena /\ Code!WholeArena = WholeArena
    BY Zenon DEF Cache!WholeArena, Code!WholeArena, WholeArena, Cache!LRU, Code!LRU, LRU,
       Cache!Cap, Code!Cap, Cap, Cache!CC_ALIGN, Code!CC_ALIGN, CC_ALIGN, Cache!HdrSize,
       Code!HdrSize, HdrSize
  <2> QED BY <1>0, <2>1 DEF Cache!Init, Code!Init
<1>2. Code!Inv
  BY <1>1, CodeAssumptions, Code!InitInv DEF Code!InitInv
<1> QED BY <1>1, <1>2 DEF Init, OpenInv, Injective

\* What the dispatcher keeps true of the code cache it drives.
CacheInv == Code!Inv /\ OpenInv /\ Injective

\* The dispatcher's arena is always one that the code cache's own invariant
\* describes, and no two descriptors stand for one span of it.
LEMMA CacheInvariant == Spec => []CacheInv
<1>1. Init => CacheInv
  BY InitRefines DEF CacheInv
<1>2. Inv /\ CacheInv /\ [Next]_vars => CacheInv'
  BY StepRefines, CodeKept, InjectiveNext DEF CacheInv
<1> QED BY <1>1, <1>2, DispatcherInvariant, PTL DEF Spec

\* The dispatcher implements CodeCache, for every guest program, eviction
\* policy and option: get_block, smc_flush and flush_all_blocks call the
\* allocator only as its contract allows, and the spans of the descriptors
\* are exactly the spans the allocator believes to be in use.
THEOREM DispatcherImplementsCodeCache == Spec => ImplementsCodeCache
<1>1. Init => Cache!Init
  BY InitRefines
<1>2. Inv /\ CacheInv /\ [Next]_vars => [Cache!Next]_(Cache!vars)
  BY StepRefines DEF CacheInv
<1> QED BY <1>1, <1>2, DispatcherInvariant, CacheInvariant, PTL
        DEF Spec, ImplementsCodeCache, Cache!Spec

\* The bytes of the arena stay sound under the dispatcher: no two cached
\* blocks share a byte, none lies on a header of the free list or past the
\* end, whatever get_block, the write watch and the flushes do.
THEOREM DispatcherHeapIsSound == Spec => []Code!HeapSound
<1>1. CacheInv => Code!HeapSound
  BY CodeAssumptions, Code!InvSafe DEF Code!InvSafe, CacheInv, Code!Inv, Code!HeapSound
<1> QED BY <1>1, CacheInvariant, PTL

=============================================================================
