------------------------------- MODULE DataCache -------------------------------
(***************************************************************************)
(* The flushes of the data cache: alt_dcache_flush, its form without write *)
(* back, alt_dcache_flush_all, and the remapping of a block to addresses   *)
(* that bypass the cache.  The cache is the processor's: direct mapped,    *)
(* lines are loaded by reads and writes and written back when dirty.       *)
(*                                                                         *)
(* Of a word's data only this is kept: is it the value last written?       *)
(* Between two instructions of a flush an interrupt routine may use words  *)
(* of its own.                                                             *)
(***************************************************************************)
EXTENDS Integers

CONSTANTS
    LineWords,    \* words in a line (NIOS2_DCACHE_LINE_SIZE)
    CacheLines,   \* lines in the cache (NIOS2_DCACHE_SIZE)
    MemLines,     \* lines of memory
    Regions,      \* bound: the regions that are flushed, [start, len]
    CacheBlocks,  \* the blocks that are remapped
    IsrWords,     \* words of the interrupt routines
    Discarded     \* bound: the regions that are flushed without write back

Words == 0..(MemLines * LineWords - 1)
ASSUME CacheAssumption ==
    /\ LineWords \in Nat \ {0} /\ CacheLines \in Nat \ {0} /\ MemLines \in Nat
    /\ \A r \in Regions \union Discarded \union CacheBlocks :
         r.start \in Words /\ r.len \in Nat /\ r.start + r.len - 1 \in Words
    /\ IsrWords \subseteq Words
    /\ \A r \in Discarded : r.start % LineWords = 0

VARIABLES
    flushda,   \* NIOS2_FLUSHDA_SUPPORTED: does the processor have flushda
    memory,    \* mem[w]: memory holds the value last written to w
    cache,     \* the line of each place in the cache, or none
    uncached,  \* the words of the blocks that are remapped
    flush      \* the call in progress: [op, region, i, end, more]

cacheVars == <<flushda, memory, cache, uncached, flush>>

NoLine == -1
Lines == {NoLine} \union 0..(MemLines - 1)
Empty == [line |-> NoLine, dirty |-> FALSE, data |-> [j \in 0..(LineWords - 1) |-> FALSE]]
LineOf(a) == a \div LineWords
Place(line) == line % CacheLines
WordsOf(line) == {line * LineWords + j : j \in 0..(LineWords - 1)}
CacheHit(a) == cache[Place(LineOf(a))].line = LineOf(a)
RegionWords(r) == r.start..(r.start + r.len - 1)

NoRegion == [start |-> 0, len |-> 0]
CacheIdle == [op |-> "none", region |-> NoRegion, i |-> 0, end |-> 0, more |-> FALSE]

CacheInit == /\ flushda \in BOOLEAN
             /\ memory = [w \in Words |-> TRUE] /\ cache = [k \in 0..(CacheLines - 1) |-> Empty]
             /\ uncached = {} /\ flush = CacheIdle
-----------------------------------------------------------------------------
(* The processor: what a place holds goes to memory when it is dirty; a    *)
(* load takes the line from memory.                                        *)
WrittenBack(k) ==
    [w \in Words |-> IF cache[k].dirty /\ w \in WordsOf(cache[k].line)
                     THEN cache[k].data[w % LineWords] ELSE memory[w]]
Loaded(m, line) == [line |-> line, dirty |-> FALSE,
                    data |-> [j \in 0..(LineWords - 1) |-> m[line * LineWords + j]]]

MayRun(w) == flush.op = "none" \/ w \in IsrWords

(* A cached read loads the line if it is not there.                        *)
Read(w) ==
    /\ MayRun(w) /\ w \notin uncached /\ ~CacheHit(w)
    /\ LET k == Place(LineOf(w))
       IN memory' = WrittenBack(k) /\ cache' = [cache EXCEPT ![k] = Loaded(memory', LineOf(w))]
    /\ UNCHANGED <<flushda, uncached, flush>>

(* A cached write also makes it dirty; the new value is in the cache only. *)
Write(w) ==
    /\ MayRun(w) /\ w \notin uncached
    /\ LET k == Place(LineOf(w))
           old == IF CacheHit(w) THEN memory ELSE WrittenBack(k)
           line == IF CacheHit(w) THEN cache[k] ELSE Loaded(old, LineOf(w))
       IN /\ memory' = [old EXCEPT ![w] = FALSE]
          /\ cache' = [cache EXCEPT ![k] = [line EXCEPT !.dirty = TRUE, !.data[w % LineWords] = TRUE]]
    /\ UNCHANGED <<flushda, uncached, flush>>

(* A write through the bypass leaves the cache as it is.                   *)
WriteUncached(w) ==
    /\ MayRun(w) /\ w \in uncached
    /\ memory' = [memory EXCEPT ![w] = TRUE]
    /\ LET k == Place(LineOf(w))
       IN cache' = IF CacheHit(w) THEN [cache EXCEPT ![k].data[w % LineWords] = FALSE] ELSE cache
    /\ UNCHANGED <<flushda, uncached, flush>>
-----------------------------------------------------------------------------
(* Without flushda a flush goes by place, and no more than the whole cache *)
(* is ever needed.  The first is a mutant: the length is always trimmed.   *)
CacheSize == CacheLines * LineWords
Trimmed_always(len) == IF len > CacheSize THEN CacheSize ELSE len
Trimmed(len) == IF ~flushda /\ len > CacheSize THEN CacheSize ELSE len

(* The call: the loop runs from start while i < end; a start inside a line *)
(* asks for one line more.                                                 *)
Call(op, r, len) ==
    flush' = [op |-> op, region |-> r, i |-> r.start, end |-> r.start + len,
              more |-> r.start % LineWords # 0]

(* Remapping begins with a flush of the block.  The first is a mutant: it  *)
(* does not.                                                               *)
RemapLength_none(len) == 0
RemapLength(len) == Trimmed(len)

FlushRegion == \E r \in Regions : Call("flush", r, Trimmed(r.len))
Discard     == \E r \in Discarded : Call("discard", r, r.len)
FlushAll    == Call("all", NoRegion, CacheSize)
Remap       == \E b \in CacheBlocks : Call("remap", b, RemapLength(b.len))

CacheBegin == /\ flush.op = "none" /\ (FlushRegion \/ Discard \/ FlushAll \/ Remap)
              /\ UNCHANGED <<flushda, memory, cache, uncached>>

(* flushd works on a place, flushda and initda on the line of the address  *)
(* if the cache has it; initda does not write back.  What memory holds is  *)
(* then what the caller of a discard asked for, in the lines of the region.*)
Cleaned(k) == [cache EXCEPT ![k] = Empty]
Asked(r, m) == [w \in Words |->
                  \/ m[w]
                  \/ LineOf(w) = LineOf(flush.i) /\ LineOf(w) \in {LineOf(v) : v \in RegionWords(r)}]
FlushLine ==
    LET k == Place(LineOf(flush.i)) IN
    CASE flush.op = "discard" /\ CacheHit(flush.i)
           -> memory' = Asked(flush.region, memory) /\ cache' = Cleaned(k)
      [] flush.op # "discard" /\ (CacheHit(flush.i) \/ flush.op = "all" \/ ~flushda)
           -> memory' = WrittenBack(k) /\ cache' = Cleaned(k)
      [] OTHER -> UNCHANGED <<memory, cache>>

(* The loop, then the line more.  The first two are mutants: no line more, *)
(* and one round too many.                                                 *)
Again_loop == flush.i < flush.end
Again_past == flush.i <= flush.end \/ flush.more
Again == flush.i < flush.end \/ flush.more
FlushStep ==
    /\ flush.op # "none" /\ Again /\ FlushLine
    /\ flush' = IF flush.i >= flush.end /\ flush.more THEN [flush EXCEPT !.more = FALSE]
                ELSE [flush EXCEPT !.i = @ + LineWords]
    /\ UNCHANGED <<flushda, uncached>>

FlushEnd ==
    /\ flush.op # "none" /\ ~Again /\ flush' = CacheIdle
    /\ uncached' = IF flush.op = "remap" THEN uncached \union RegionWords(flush.region)
                   ELSE uncached
    /\ UNCHANGED <<flushda, memory, cache>>

(* alt_remap_cached, alt_uncached_free: only the address changes.          *)
RemapCached ==
    /\ flush.op = "none"
    /\ \E b \in CacheBlocks : /\ RegionWords(b) \subseteq uncached
                               /\ uncached' = uncached \ RegionWords(b)
    /\ UNCHANGED <<flushda, memory, cache, flush>>

CacheNext == \/ \E w \in Words : Read(w) \/ Write(w) \/ WriteUncached(w)
             \/ CacheBegin \/ FlushStep \/ FlushEnd \/ RemapCached

CacheSpec == CacheInit /\ [][CacheNext]_cacheVars
-----------------------------------------------------------------------------
CacheTypeOK ==
    /\ flushda \in BOOLEAN /\ memory \in [Words -> BOOLEAN] /\ uncached \subseteq Words
    /\ cache \in [0..(CacheLines - 1) ->
                    [line : Lines, dirty : BOOLEAN, data : [0..(LineWords - 1) -> BOOLEAN]]]
    /\ \A k \in 0..(CacheLines - 1) : cache[k].line # NoLine => Place(cache[k].line) = k
    /\ flush.op \in {"none", "flush", "discard", "all", "remap"}
    /\ flush.i \in Nat /\ flush.i < flush.end + LineWords

(* A block that is remapped fills its lines, and no interrupt routine uses *)
(* a word of it.                                                           *)
BlocksAssumed ==
    \A b \in CacheBlocks : /\ b.start % LineWords = 0 /\ b.len % LineWords = 0
                           /\ RegionWords(b) \intersect IsrWords = {}

(* When a flush returns, memory holds what the program last wrote to each  *)
(* word of the region, however the region lies on the lines, and whatever  *)
(* lines the interrupt routines load in between.                           *)
FlushReaches ==
    [][flush.op # "none" /\ flush'.op = "none" =>
         LET region == IF flush.op = "all" THEN Words ELSE RegionWords(flush.region)
         IN flush.op # "discard" => \A w \in region \ IsrWords : memory'[w]]_cacheVars

(* The value last written to a word is the one that is read, by the way    *)
(* the program reads it: through the cache, or by the bypass.              *)
CachedRead(w) == IF CacheHit(w) THEN cache[Place(LineOf(w))].data[w % LineWords] ELSE memory[w]
NothingLost == \A w \in Words : IF w \in uncached THEN memory[w] ELSE CachedRead(w)

(* The flushes make what they name visible in memory and lose nothing.     *)
WritesKept == FlushReaches /\ []NothingLost
=============================================================================
