----------------------------- MODULE Dispatcher -----------------------------
(***************************************************************************)
(* The JIT dispatcher (jit/dispatcher.c): the block table, the successor   *)
(* predictor, self-modifying-code tracking, eviction, prefetch and the run *)
(* loop of m68k_dispatcher_run_until, over the real code-cache allocator   *)
(* (CodeCacheOps) and an abstract block compiler and guest.                *)
(*                                                                         *)
(* Guest memory is a few words; a block compiled at pc covers the words    *)
(* pc .. BlockEnd[pc]-1 and remembers what they held when it was compiled. *)
(* What a block does when it runs is chosen freely: any stores, STOP, halt *)
(* and any next pc.  The control variable ctl is the place in the loop.    *)
(***************************************************************************)
EXTENDS CodeCacheOps, Sequences

CONSTANTS
    BlockId,        \* addresses calloc can return for a block descriptor
    NULL,           \* the null block pointer
    Word,           \* guest memory words, 0 .. n
    Val,            \* what a word can hold
    PageWords,      \* words per tracked page (256 bytes in the code)
    Pc,             \* guest addresses control can reach (entry points)
    BlockEnd,       \* BlockEnd[pc]: pc_end of a block compiled at pc
    Reserve,        \* Reserve[pc]: worst-case bytes of that block
    Actual,         \* Actual[pc]: the sizes its code may turn out to have
    Succ,           \* Succ[pc]: its static successors, at most two
    OddPc,          \* a successor address that is odd
    Sig,            \* Sig[pc]: cache_sig, which registers it caches
    SrLoaded,       \* SrLoaded[pc]: sr_loaded
    PrefetchDepth,  \* follow depth of "chain"
    Options,        \* Options[m]: the option sets under policy m: see opts
    MaxDirty,       \* entries of dirty_pages
    Until,          \* run_until's bound on cycles
    StoresBy        \* who stores to guest memory: see the Store actions

ASSUME WordAssumption == Word \subseteq Nat /\ PageWords \in Nat \ {0}
ASSUME PcAssumption == Pc \subseteq Word
ASSUME BlockAssumption ==
    \A pc \in Pc : /\ BlockEnd[pc] \in Nat /\ BlockEnd[pc] > pc
                   /\ pc .. BlockEnd[pc] - 1 \subseteq Word
                   /\ Reserve[pc] \in Nat \ {0}
                   /\ Actual[pc] \subseteq Nat \ {0}
ASSUME NullAssumption == NULL \notin BlockId
ASSUME OddAssumption == OddPc \notin Pc
ASSUME SuccAssumption ==
    \A pc \in Pc : Succ[pc] \in Seq(Pc \cup {OddPc}) /\ Len(Succ[pc]) <= 2
ASSUME OptionsAssumption ==
    Options \in [EvictModes -> SUBSET [prefetch : {"none", "static", "chain"},
                                       no_cache : BOOLEAN,
                                       budget : Nat]]
ASSUME LimitAssumption ==
    /\ MaxDirty \in Nat /\ Until \in Nat /\ PrefetchDepth \in Nat
    /\ StoresBy \subseteq {"helper", "inline", "event"}

VARIABLES
    opts,           \* prefetch_mode, no_cache and the chain budget of the
                    \* build (0 on the host); never changed during a run
    ctl,            \* where the run loop is
    heap,           \* block descriptors: BlockId -> Block, partial
    table,          \* descriptors linked into the hash buckets
    prev,           \* run_until's prev
    got,            \* run_until's b / get_block_impl's result
    job,            \* the get_block_impl call in progress
    todo,           \* prefetch calls still to make
    retried,        \* the arena was reset for this demand compile
    moved,          \* arena_resets or smc_invalidations moved in get_block
    used, free,     \* the code cache
    open,           \* offset of the span being emitted into
    mem,            \* guest memory
    codePages,      \* code_pages
    dirty,          \* dirty_pages[0 .. n_dirty-1]
    overflow,       \* smc_overflow
    pcr,            \* cpu->pc
    cycles,         \* cpu->cycles, one unit per iteration (see Elapse)
    stopped, halted,
    cur,            \* cpu->current_block
    budget,         \* cpu->chain_budget
    start,          \* where cur is entered: "entry", "chain" or "body"
    chained         \* cur was reached by a native chain jump

config == <<mode, opts>>
arena  == <<used, free, open>>
getter == <<got, job, todo, retried, moved>>
smc    == <<codePages, dirty, overflow>>
cpu    == <<pcr, cycles, stopped, halted>>
native == <<cur, budget, start, chained>>

vars == <<config, ctl, heap, table, prev, getter, arena, mem, smc, cpu, native>>

-----------------------------------------------------------------------------
(* Block descriptors *)

NoPc == 0 - 1       \* predicted_next_pc 0xFFFFFFFF

Block == [pc : Pc, end : Nat, off : Nat, size : Nat, tag : Nat,
          pn : BlockId \cup {NULL}, pnpc : Pc \cup {NoPc},
          entry : {"none", "chain", "body"},
          code : UNION {[ws -> Val] : ws \in SUBSET Word}]

Words(pc) == pc .. BlockEnd[pc] - 1

\* The descriptor m68k_compile_block fills in.
NewBlock(pc, off, size) ==
    [pc |-> pc, end |-> BlockEnd[pc], off |-> off, size |-> size,
     tag |-> cycles, pn |-> NULL, pnpc |-> NoPc, entry |-> "none",
     code |-> [w \in Words(pc) |-> mem[w]]]

Unlinked(b) == [b EXCEPT !.pn = NULL, !.pnpc = NoPc, !.entry = "none"]

\* Unlink the victims from the table and free them.
Without(h, victims) == [b \in DOMAIN h \ victims |-> h[b]]

\* Clear every prediction, as smc_flush and fifo_evict_range_cb do.
Forget(h) == [b \in DOMAIN h |-> Unlinked(h[b])]

\* Mutant of ForgetOne: the predictions are kept.
ForgetOne_Nothing(h, victim) == h

\* Clear the predictions of one victim, as lru_evict_cb does.
ForgetOne(h, victim) ==
    [b \in DOMAIN h |-> IF h[b].pn = victim THEN Unlinked(h[b]) ELSE h[b]]

\* No get_block_impl call is in progress.
NoJob == [pc |-> NoPc, depth |-> 0 - 1]

\* Mutant of FindBlock: a chain walk that misses some of its blocks.
FindBlock_OtherBucket(pc) == {b \in table : heap[b].pc = pc /\ pc % 2 = 1}

FindBlock(pc) == {b \in table : heap[b].pc = pc}

-----------------------------------------------------------------------------
(* Self-modifying-code tracking *)

Page(w) == w \div PageWords

\* Mutant of MarkedPages: without the page of the last byte.
MarkedPages_NoLast(lo, hi) ==
    {Page(w) : w \in {v \in lo .. hi - 1 : (v - lo) % PageWords = 0}}

\* smc_mark_block: the pages of a fresh block.
MarkedPages(lo, hi) ==
    {Page(w) : w \in {v \in lo .. hi - 1 : (v - lo) % PageWords = 0}}
        \cup {Page(hi - 1)}

\* Mutant of Watch: the chain budget is left alone.
Watch_KeepsBudget(ws) ==
    /\ dirty' = dirty \cup ({Page(w) : w \in ws} \cap codePages)
    /\ UNCHANGED <<overflow, codePages, budget>>

\* smc_watch for a store to each word of ws, in any order: the queue keeps
\* distinct pages and overflows when it is full.
Watch(ws) ==
    LET hit == {Page(w) : w \in ws} \cap codePages
        all == dirty \cup hit
    IN  /\ budget' = IF hit = {} THEN budget ELSE 0
        /\ \/ /\ Cardinality(all) <= MaxDirty
              /\ dirty' = all
              /\ overflow' = overflow
           \/ /\ Cardinality(all) > MaxDirty
              /\ \E kept \in SUBSET all :
                    /\ dirty \subseteq kept
                    /\ Cardinality(kept) = MaxDirty
                    /\ dirty' = kept
              /\ overflow' = TRUE
        /\ UNCHANGED codePages

\* smc_drop_range for every dirty page: [page, page + 1) overlaps the block.
OnPage(b, p) == b.pc < (p + 1) * PageWords /\ b.end > p * PageWords

DroppedBy(pages) == {b \in table : \E p \in pages : OnPage(heap[b], p)}

-----------------------------------------------------------------------------
Init ==
    /\ mode \in EvictModes /\ opts \in Options[mode]
    /\ ctl = "head"
    /\ heap = <<>> /\ table = {}
    /\ prev = NULL
    /\ got = NULL /\ todo = <<>> /\ retried = FALSE /\ moved = FALSE
    /\ pcr \in Pc /\ job = NoJob
    /\ used = 0 /\ free = WholeArena /\ open = 0
    /\ mem \in [Word -> Val]
    /\ codePages = {} /\ dirty = {} /\ overflow = FALSE
    /\ cycles = 0 /\ stopped = FALSE /\ halted = FALSE
    /\ cur = NULL /\ budget = 0 /\ start = "entry" /\ chained = FALSE

\* The ESP32 build: blocks end in a native chain epilogue.
Chaining == opts.budget > 0

Running == ctl = "head" /\ cycles < Until /\ ~ halted

\* Time only orders the LRU tags.  Under the other policies it is not
\* recorded, and the loop may run for any number of iterations.
Elapse == cycles' = IF mode = LRU THEN cycles + 1 ELSE cycles

-----------------------------------------------------------------------------
(* The head of run_until's loop *)

\* A frame pushed on the guest stack: below the modelled words, or on them.
PushFrame ==
    \/ mem' = mem /\ UNCHANGED <<smc, budget>>
    \/ \E sp \in Word, frame \in [0 .. 1 -> Val] :
          /\ "event" \in StoresBy /\ sp + 1 \in Word
          /\ mem' = [mem EXCEPT ![sp] = frame[0], ![sp + 1] = frame[1]]
          /\ Watch({sp, sp + 1})

\* m68k_poll_interrupts takes an interrupt: the handler runs next.
Interrupt ==
    /\ Running
    /\ PushFrame
    /\ pcr' \in Pc
    /\ stopped' = FALSE
    /\ Elapse
    /\ prev' = NULL
    /\ UNCHANGED <<config, ctl, heap, table, getter, arena, halted, cur,
                   start, chained>>

\* sony_service pushes a call of the mount routine; it costs no cycles and
\* does not end a STOP.
SonyService ==
    /\ Running
    /\ PushFrame
    /\ pcr' \in Pc
    /\ prev' = NULL
    /\ UNCHANGED <<config, ctl, heap, table, getter, arena, cycles, stopped,
                   halted, cur, start, chained>>

\* STOP: the CPU idles.
Idle ==
    /\ Running /\ stopped
    /\ Elapse
    /\ UNCHANGED <<config, ctl, heap, table, prev, getter, arena, mem, smc,
                   pcr, stopped, halted, native>>

Predicted == prev # NULL /\ heap[prev].pn # NULL /\ heap[prev].pnpc = pcr

ChainHit ==
    /\ Running /\ ~ stopped /\ Predicted
    /\ got' = heap[prev].pn
    /\ cur' = got'
    /\ start' = IF Chaining \/ heap[prev].entry = "none" THEN "entry"
                ELSE heap[prev].entry
    /\ chained' = FALSE
    /\ ctl' = "enter"
    /\ UNCHANGED <<config, heap, table, prev, job, todo, retried, moved,
                   arena, mem, smc, cpu, budget>>

ChainMiss ==
    /\ Running /\ ~ stopped /\ ~ Predicted
    /\ job' = [pc |-> pcr, depth |-> 0 - 1]
    /\ got' = NULL /\ todo' = <<>> /\ retried' = FALSE /\ moved' = FALSE
    /\ ctl' = "find"
    /\ UNCHANGED <<config, heap, table, prev, arena, mem, smc, cpu, native>>

-----------------------------------------------------------------------------
(* get_block_impl *)

Prefetching == job.depth >= 0

\* Return from the call in progress: go on with the prefetch list `rest`.
NextCall(rest) ==
    /\ todo' = IF rest = <<>> THEN <<>> ELSE Tail(rest)
    /\ job' = IF rest = <<>> THEN job ELSE Head(rest)
    /\ ctl' = IF rest = <<>> THEN "link" ELSE "find"

FindHit ==
    /\ ctl = "find" /\ ~ opts.no_cache
    /\ \E b \in FindBlock(job.pc) : got' = IF Prefetching THEN got ELSE b
    /\ NextCall(todo)
    /\ UNCHANGED <<config, heap, table, prev, retried, moved, arena, mem,
                   smc, cpu, native>>

FindMiss ==
    /\ ctl = "find"
    /\ opts.no_cache \/ FindBlock(job.pc) = {}
    /\ ctl' = "compile"
    /\ UNCHANGED <<config, heap, table, prev, getter, arena, mem, smc, cpu,
                   native>>

\* m68k_compile_block has walked the block and asks for its worst case.
CompileBlock ==
    /\ ctl = "compile"
    /\ ctl' = "alloc"
    /\ UNCHANGED <<config, heap, table, prev, getter, arena, mem, smc, cpu,
                   native>>

\* codecache_alloc returned a span.
Allocated(off) == open' = off /\ ctl' = "emit"

LruTake ==
    /\ ctl = "alloc" /\ mode = LRU /\ LruSize(Reserve[job.pc]) <= Cap
    /\ \E s \in FirstFit(free, LruSize(Reserve[job.pc])) :
          /\ free' = Carve(free, s, LruSize(Reserve[job.pc]))
          /\ Allocated(s.off)
    /\ UNCHANGED <<config, heap, table, prev, getter, used, mem, smc, cpu,
                   native>>

\* The blocks lru_evict_cb may pick; ties are broken by bucket order.
Coldest == {b \in table : \A c \in table : heap[b].tag <= heap[c].tag}

\* Mutant of LruEvict: the span is not returned to the free list.
LruEvict_KeepsSpan ==
    /\ ctl = "alloc" /\ mode = LRU /\ LruSize(Reserve[job.pc]) <= Cap
    /\ FirstFit(free, LruSize(Reserve[job.pc])) = {}
    /\ \E victim \in Coldest :
          /\ table' = table \ {victim}
          /\ heap' = ForgetOne(Without(heap, {victim}), victim)
    /\ moved' = TRUE
    /\ UNCHANGED <<config, ctl, prev, got, job, todo, retried, arena, mem,
                   smc, cpu, native>>

LruEvict ==
    /\ ctl = "alloc" /\ mode = LRU /\ LruSize(Reserve[job.pc]) <= Cap
    /\ FirstFit(free, LruSize(Reserve[job.pc])) = {}
    /\ \E victim \in Coldest :
          /\ table' = table \ {victim}
          /\ heap' = ForgetOne(Without(heap, {victim}), victim)
          /\ free' = LruFree(free, heap[victim].off, heap[victim].size)
    /\ moved' = TRUE
    /\ UNCHANGED <<config, ctl, prev, got, job, todo, retried, used, open,
                   mem, smc, cpu, native>>

FifoTake ==
    /\ ctl = "alloc" /\ mode = FIFO /\ CcAlign(Reserve[job.pc]) <= Cap
    /\ LET size    == CcAlign(Reserve[job.pc])
           at      == FifoStart(used, size)
           victims == {b \in table : Overlaps(heap[b], at, at + size)}
       IN  /\ table' = table \ victims
           /\ heap' = IF victims = {} THEN heap
                      ELSE Forget(Without(heap, victims))
           /\ moved' = (moved \/ victims # {})
           /\ used' = at + size
           /\ Allocated(at)
    /\ UNCHANGED <<config, prev, got, job, todo, retried, free, mem, smc,
                   cpu, native>>

BumpTake ==
    /\ ctl = "alloc" /\ mode = BUMP
    /\ CcAlign(used) + Reserve[job.pc] <= Cap
    /\ used' = CcAlign(used) + Reserve[job.pc]
    /\ Allocated(CcAlign(used))
    /\ UNCHANGED <<config, heap, table, prev, getter, free, mem, smc, cpu,
                   native>>

AllocNull ==
    /\ ctl = "alloc"
    /\ \/ /\ mode = LRU
          /\ \/ LruSize(Reserve[job.pc]) > Cap
             \/ FirstFit(free, LruSize(Reserve[job.pc])) = {} /\ table = {}
          /\ used' = used
       \/ mode = FIFO /\ CcAlign(Reserve[job.pc]) > Cap /\ used' = used
       \/ /\ mode = BUMP /\ CcAlign(used) + Reserve[job.pc] > Cap
          /\ used' = CcAlign(used)
    /\ ctl' = "failed"
    /\ UNCHANGED <<config, heap, table, prev, getter, free, open, mem, smc,
                   cpu, native>>

\* m68k_compile_block's tail when the emitted code outgrew the reservation.
EmitOverflow ==
    /\ ctl = "emit"
    /\ \E actual \in Actual[job.pc] : actual > Reserve[job.pc]
    /\ free' = FreedList(free, open, Reserve[job.pc])
    /\ open' = 0
    /\ ctl' = "failed"
    /\ UNCHANGED <<config, heap, table, prev, getter, used, mem, smc, cpu,
                   native>>

\* calloc fails, as it may at any time: the trimmed span is given back.
EmitNoMemory ==
    /\ ctl = "emit"
    /\ \E actual \in Actual[job.pc] :
          /\ actual <= Reserve[job.pc]
          /\ free' = FreedList(TrimmedList(free, open, actual, Reserve[job.pc]),
                               open, actual)
          /\ used' = TrimmedCursor(used, open, actual)
    /\ open' = 0
    /\ ctl' = "failed"
    /\ UNCHANGED <<config, heap, table, prev, getter, mem, smc, cpu, native>>

\* The prefetch call for the i-th static successor; an odd one is skipped.
SeedOf(i, depth) ==
    LET succ == Succ[job.pc]
    IN  IF i <= Len(succ) /\ succ[i] # OddPc
        THEN <<[pc |-> succ[i], depth |-> depth]>>
        ELSE <<>>

\* The prefetch calls a freshly compiled block seeds.
Seeds ==
    IF opts.prefetch = "static" /\ ~ Prefetching THEN
        SeedOf(1, 0) \o SeedOf(2, 0)
    ELSE IF opts.prefetch = "chain" THEN
        LET depth == (IF Prefetching THEN job.depth ELSE PrefetchDepth) - 1
        IN  IF depth >= 0 /\ Len(Succ[job.pc]) = 1 THEN SeedOf(1, depth)
            ELSE <<>>
    ELSE <<>>

\* Prefetching is off when blocks are not cached.
Prefetched == IF opts.no_cache THEN <<>> ELSE todo \o Seeds

\* A finished block: trim its span, link it into the table, mark its pages.
EmitDone ==
    /\ ctl = "emit"
    /\ \E actual \in Actual[job.pc], b \in BlockId \ DOMAIN heap :
          LET block == NewBlock(job.pc, open, actual)
          IN  /\ actual <= Reserve[job.pc]
              /\ heap' = [c \in DOMAIN heap \cup {b} |->
                              IF c = b THEN block ELSE heap[c]]
              /\ table' = IF opts.no_cache THEN table ELSE table \cup {b}
              /\ free' = TrimmedList(free, open, actual, Reserve[job.pc])
              /\ used' = TrimmedCursor(used, open, actual)
              /\ codePages' = IF opts.no_cache THEN codePages
                              ELSE codePages \cup MarkedPages(block.pc, block.end)
              /\ got' = IF Prefetching THEN got ELSE b
    /\ open' = 0
    /\ NextCall(Prefetched)
    /\ UNCHANGED <<config, prev, retried, moved, mem, dirty, overflow, cpu,
                   native>>

\* Mutant of ResetAndRetry: a failed prefetch resets the arena too.
ResetAndRetry_Prefetch ==
    /\ ctl = "failed" /\ ~ retried
    /\ heap' = Without(heap, table)
    /\ table' = {}
    /\ used' = 0 /\ free' = WholeArena
    /\ moved' = TRUE /\ retried' = TRUE
    /\ ctl' = "compile"
    /\ UNCHANGED <<config, prev, got, job, todo, open, mem, smc, cpu,
                   native>>

\* A demand compile that failed wipes everything and retries once.
ResetAndRetry ==
    /\ ctl = "failed" /\ ~ Prefetching /\ ~ retried
    /\ heap' = Without(heap, table)
    /\ table' = {}
    /\ used' = 0 /\ free' = WholeArena
    /\ moved' = TRUE /\ retried' = TRUE
    /\ ctl' = "compile"
    /\ UNCHANGED <<config, prev, got, job, todo, open, mem, smc, cpu,
                   native>>

\* Mutant of GiveUp: a prefetch that failed is queued again.
GiveUp_Requeues ==
    /\ ctl = "failed" /\ (Prefetching \/ retried)
    /\ NextCall(IF Prefetching THEN Append(todo, job) ELSE todo)
    /\ UNCHANGED <<config, heap, table, prev, got, retried, moved, arena,
                   mem, smc, cpu, native>>

\* The retry failed too, or a prefetch failed: it is given up.
GiveUp ==
    /\ ctl = "failed" /\ (Prefetching \/ retried)
    /\ NextCall(todo)
    /\ UNCHANGED <<config, heap, table, prev, got, retried, moved, arena,
                   mem, smc, cpu, native>>

-----------------------------------------------------------------------------
(* The rest of run_until's loop *)

\* prev after get_block: dropped when a counter moved.
KeptPrev == IF moved THEN NULL ELSE prev

Compat(p, b) == Sig[p.pc] = Sig[b.pc] /\ (SrLoaded[b.pc] => SrLoaded[p.pc])

\* Record the prediction of prev, then enter the block that was found.
Link ==
    /\ ctl = "link" /\ got # NULL
    /\ heap' = IF KeptPrev # NULL /\ ~ opts.no_cache
               THEN [heap EXCEPT
                       ![KeptPrev].pn = got,
                       ![KeptPrev].pnpc = pcr,
                       ![KeptPrev].entry =
                          IF Compat(heap[KeptPrev], heap[got]) THEN "body"
                          ELSE "chain"]
               ELSE heap
    /\ prev' = KeptPrev
    /\ job' = NoJob /\ retried' = FALSE /\ moved' = FALSE
    /\ cur' = got /\ start' = "entry" /\ chained' = FALSE
    /\ ctl' = "enter"
    /\ UNCHANGED <<config, table, got, todo, arena, mem, smc, cpu, budget>>

\* STOP, RESET and the guest's exit port take the chain budget away.
Effects == {"none", "stop", "halt"}

Executed(effect) ==
    /\ pcr' \in Pc
    /\ Elapse
    /\ stopped' = (stopped \/ effect = "stop")
    /\ halted' = (halted \/ effect = "halt")

\* The locals of an iteration are dead at the head of the loop.
HeadOfLoop ==
    /\ ctl' = "head"
    /\ got' = NULL /\ todo' = <<>> /\ retried' = FALSE /\ moved' = FALSE
    /\ job' = NoJob
    /\ cur' = NULL /\ start' = "entry" /\ chained' = FALSE

\* Nothing could be compiled: m68k_step interprets one instruction, whose
\* store goes through mac_write8 like a helper's.
Interpret(effect) ==
    /\ ctl = "link" /\ got = NULL
    /\ \/ mem' = mem /\ UNCHANGED <<smc, budget>>
       \/ \E w \in Word, v \in Val :
             /\ StoresBy \cap {"helper", "event"} # {}
             /\ mem' = [mem EXCEPT ![w] = v]
             /\ Watch({w})
    /\ Executed(effect)
    /\ prev' = NULL
    /\ HeadOfLoop
    /\ UNCHANGED <<config, heap, table, arena>>

\* enter_block: the dispatcher tags the block and grants the chain budget;
\* the host build grants one that no epilogue looks at.
Enter ==
    /\ ctl = "enter" /\ cur \in DOMAIN heap
    /\ heap' = IF chained THEN heap ELSE [heap EXCEPT ![cur].tag = cycles]
    /\ budget' = IF chained THEN budget ELSE IF Chaining THEN opts.budget ELSE 1
    /\ ctl' = "body"
    /\ UNCHANGED <<config, table, prev, getter, arena, mem, smc, cpu, cur,
                   start, chained>>

\* A store by a helper (m68k_step and the fast helpers): through mac_write8.
HelperStore ==
    /\ ctl = "body" /\ "helper" \in StoresBy
    /\ \E w \in Word, v \in Val :
          /\ mem' = [mem EXCEPT ![w] = v]
          /\ Watch({w})
    /\ UNCHANGED <<config, ctl, heap, table, prev, getter, arena, cpu, cur,
                   start, chained>>

\* A store by an inline arm's RAM fast path: straight into host memory.
InlineStore ==
    /\ ctl = "body" /\ "inline" \in StoresBy
    /\ \E w \in Word, v \in Val : mem' = [mem EXCEPT ![w] = v]
    /\ UNCHANGED <<config, ctl, heap, table, prev, getter, arena, smc, cpu,
                   native>>

\* Mutant of BlockEnds: STOP and halt leave the chain budget alone.
BlockEnds_KeepsBudget(effect) ==
    /\ ctl = "body"
    /\ Executed(effect)
    /\ ctl' = "exit"
    /\ UNCHANGED <<config, heap, table, prev, getter, arena, mem, smc, cur,
                   budget, start, chained>>

\* The last instruction of the block and the flush of its state.
BlockEnds(effect) ==
    /\ ctl = "body"
    /\ Executed(effect)
    /\ budget' = IF effect = "none" THEN budget ELSE 0
    /\ ctl' = "exit"
    /\ UNCHANGED <<config, heap, table, prev, getter, arena, mem, smc, cur,
                   start, chained>>

\* The native chain epilogue: jump to the predicted successor.
CanChain == /\ heap[cur].pnpc = pcr
            /\ heap[cur].pn # NULL
            /\ budget # 0

NativeChain ==
    /\ ctl = "exit" /\ Chaining /\ CanChain
    /\ budget' = budget - 1
    /\ cur' = heap[cur].pn
    /\ start' = heap[cur].entry
    /\ chained' = TRUE
    /\ ctl' = "enter"
    /\ UNCHANGED <<config, heap, table, prev, getter, arena, mem, smc, cpu>>

\* Back in the loop: keep prev, and flush what the code overwrote.
Return ==
    /\ ctl = "exit" /\ ~ (Chaining /\ CanChain)
    /\ LET kept == IF opts.no_cache THEN Without(heap, {got}) ELSE heap
           full == overflow
           drop == IF full THEN table ELSE DroppedBy(dirty)
       IN  IF dirty = {} /\ ~ overflow
           THEN /\ heap' = kept
                /\ prev' = IF opts.no_cache THEN NULL ELSE got
                /\ UNCHANGED <<config, table, used, free, smc>>
           ELSE /\ heap' = Forget(Without(kept, drop))
                /\ table' = table \ drop
                /\ prev' = NULL
                /\ used' = IF full THEN 0 ELSE used
                /\ free' = IF full THEN WholeArena ELSE free
                /\ codePages' = IF full THEN {} ELSE codePages
                /\ dirty' = {} /\ overflow' = FALSE
    /\ HeadOfLoop
    /\ UNCHANGED <<config, open, mem, cpu, budget>>

\* run_until returned.
Finished ==
    /\ ctl = "head" /\ (cycles >= Until \/ halted)
    /\ UNCHANGED vars

Next ==
    \/ Interrupt \/ SonyService \/ Idle \/ ChainHit \/ ChainMiss
    \/ FindHit \/ FindMiss \/ CompileBlock
    \/ LruTake \/ LruEvict \/ FifoTake \/ BumpTake \/ AllocNull
    \/ EmitOverflow \/ EmitNoMemory \/ EmitDone \/ ResetAndRetry \/ GiveUp
    \/ Link \/ Enter
    \/ HelperStore \/ InlineStore
    \/ \E effect \in Effects : Interpret(effect) \/ BlockEnds(effect)
    \/ NativeChain \/ Return
    \/ Finished

Spec == Init /\ [][Next]_vars

\* get_block is straight-line code of the one emulation thread: a step of
\* it that is possible is taken.
GetBlock ==
    \/ FindHit \/ FindMiss \/ CompileBlock
    \/ LruTake \/ LruEvict \/ FifoTake \/ BumpTake \/ AllocNull
    \/ EmitOverflow \/ EmitNoMemory \/ EmitDone \/ ResetAndRetry \/ GiveUp

FairSpec == Spec /\ WF_vars(GetBlock)

-----------------------------------------------------------------------------
(* Properties *)

InGetBlock == ctl \in {"find", "compile", "alloc", "emit", "failed", "link"}
InBlock == ctl \in {"enter", "body", "exit"}

\* The dispatcher's state is well formed.
TypeOK ==
    /\ mode \in EvictModes /\ opts \in Options[mode]
    /\ ctl \in {"head", "find", "compile", "alloc", "emit", "failed", "link",
                "enter", "body", "exit"}
    /\ DOMAIN heap \subseteq BlockId
    /\ \A b \in DOMAIN heap : heap[b] \in Block
    /\ table \subseteq DOMAIN heap
    /\ prev \in BlockId \cup {NULL} /\ got \in BlockId \cup {NULL}
    /\ cur \in BlockId \cup {NULL}
    /\ job \in [pc : Pc \cup {NoPc}, depth : Int]
    /\ todo \in Seq([pc : Pc, depth : Int])
    /\ retried \in BOOLEAN /\ moved \in BOOLEAN
    /\ used \in Nat /\ open \in Nat /\ free \subseteq Span
    /\ mem \in [Word -> Val]
    /\ codePages \subseteq Nat /\ dirty \subseteq codePages
    /\ overflow \in BOOLEAN
    /\ pcr \in Pc /\ cycles \in Nat
    /\ stopped \in BOOLEAN /\ halted \in BOOLEAN
    /\ budget \in Nat
    /\ start \in {"none", "entry", "chain", "body"} /\ chained \in BOOLEAN

\* No prediction dangles: predicted_next is a cached block, compiled for the
\* pc the prediction was recorded for, and is entered past its prologue only
\* if it caches the same registers.  Evictions, flushes, resets and reuse of
\* descriptor addresses must all keep this.
PredictionsLive ==
    \A b \in table : LET p == heap[b] IN
        p.pn # NULL =>
            /\ p.pn \in table
            /\ heap[p.pn].pc = p.pnpc
            /\ p.entry = "body" => Compat(p, heap[p.pn])

\* run_until's prev never dangles where it is used: a block it points at is
\* cached, unless get_block has just dropped blocks and the counters say so.
PrevLive == prev # NULL => prev \in table \/ (InGetBlock /\ moved)

\* After a failed compile prev is always dropped, so recording a prediction
\* never dereferences a null block.
NoNullPrediction == ctl = "link" /\ got = NULL => KeptPrev = NULL

\* No pointer to a descriptor outlives it: neither the predictions nor prev
\* dangle through evictions, flushes, resets and failed compiles.
PointersLive == TypeOK /\ PredictionsLive /\ PrevLive /\ NoNullPrediction

\* A block that is entered, running or just ended has not been freed, and
\* neither has the block the loop will keep as prev.
RunningBlockLive == InBlock => {cur, got} \subseteq DOMAIN heap

\* A pc has at most one cached block, and every descriptor is cached or is
\* the uncached one being run: none is leaked.
OneBlockPerPc ==
    /\ \A b, c \in table : heap[b].pc = heap[c].pc => b = c
    /\ DOMAIN heap \ table \subseteq (IF opts.no_cache THEN {got} ELSE {})

Current(b) == \A w \in DOMAIN heap[b].code : heap[b].code[w] = mem[w]

\* Every cached block that no longer matches guest memory, because some
\* store went through the write watch, is queued to be dropped.
StaleIsQueued ==
    \A b \in table :
        \/ Current(b)
        \/ overflow
        \/ \E p \in dirty : OnPage(heap[b], p)

\* The block about to be entered is a translation of the code that is in
\* guest memory now.
EntersCurrentCode == ctl = "enter" /\ cur \in DOMAIN heap => Current(cur)

\* A native chain jump never runs past a STOP or a halt, nor past a store
\* to a code page that is waiting for smc_flush.
ChainStopsForEvents ==
    ctl = "enter" /\ chained => ~ stopped /\ ~ halted /\ dirty = {} /\ ~ overflow

\* Every get_block call ends with a block or with the interpreter fallback:
\* evictions and the retry come to an end, and so does the prefetch list, which
\* a prefetched block may lengthen and a failed one may not.
GetBlockReturns == (ctl = "find") ~> (ctl = "link")

\* The dispatcher is a well-behaved client of the code cache: with its block
\* spans for the live ones, it implements CodeCache.
Cache == INSTANCE CodeCache WITH
            Reserves <- {Reserve[pc] : pc \in Pc},
            Actuals <- UNION {Actual[pc] : pc \in Pc},
            live <- {[off |-> heap[b].off, size |-> heap[b].size] :
                        b \in DOMAIN heap},
            phase <- IF ctl \in {"alloc", "emit"} THEN ctl ELSE "idle",
            req <- IF ctl \in {"alloc", "emit"} THEN Reserve[job.pc] ELSE 0

ImplementsCodeCache == Cache!Spec

=============================================================================
