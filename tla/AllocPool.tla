------------------------------ MODULE AllocPool ------------------------------
(***************************************************************************)
(* Julia's memory pool (SC_AllocPoolSafe): one area, cut into chunks that  *)
(* carry their size in front and behind; the free ones are in bins by      *)
(* size, and a bitmap says which bins are not empty.                       *)
(*                                                                         *)
(* Alloc, Free and Realloc hold the pool's barrier from their first to     *)
(* their last step, so each is one action.  The memory of the area is      *)
(* modelled in cells of kAlign bytes: a cell is the header of a chunk, or  *)
(* a piece of what the owner of a block has written.  A header written     *)
(* over a piece destroys it, as it does in the code.                       *)
(***************************************************************************)
EXTENDS AllocBins, FiniteSets, SequencesExt

CONSTANTS
    AreaSize,   \* mAreaInitSize; mAreaMoreSize is 0 (JuliaGlobalState.cpp:318)
    Requests,   \* the sizes that callers ask for
    IntRange    \* an int holds -IntRange .. IntRange - 1; 2^31 in the code

\* The size of the area is the value of an int expression.
ASSUME AreaSizeAssumption == AreaSize \in Nat /\ LegalSize(AreaSize) /\ AreaSize < IntRange
ASSUME IntRangeAssumption == IntRange \in Nat

\* Nothing in the code refuses a larger request: the remainder, an int, wraps
\* around, and a chunk that is too small for the request looks large enough.
ASSUME RequestsAssumption ==
    Requests \subseteq Nat /\ \A req \in Requests : RequestToSize(req) <= IntRange

VARIABLES
    pool,    \* [mem, bins, marked]: the area, mBins and mBinBlocks
    reply,   \* what the last call was asked for, and returned
    kept     \* has the last Realloc kept what was in the block?

vars == <<pool, reply, kept>>

Addrs == {kAlign * i : i \in 0 .. AreaSize \div kAlign}
NULL == -1

-----------------------------------------------------------------------------
(* Cells and chunks *)

\* A size with its kChunkInUse bit.
Word(size, inUse) == [n |-> size, inUse |-> inUse]
Header(prev, size) == [prev |-> prev, size |-> size]

\* The i-th cell that the owner of a block wrote; cells that hold nothing
\* anyone will read.
Piece(i) == [piece |-> i]
Junk == Piece(0)

IsHeader(cell) == "size" \in DOMAIN cell

\* mSize or mPrevSize of the chunk at p is written, whatever was there.
Write(mem, p, field, word) ==
    [mem EXCEPT ![p] = IF IsHeader(@) THEN [@ EXCEPT ![field] = word]
                       ELSE [Header(Word(0, FALSE), Word(0, FALSE)) EXCEPT ![field] = word]]

Size(mem, p) == mem[p].size.n
InUse(mem, p) == mem[p].size.inUse
PrevSize(mem, p) == mem[p].prev.n
PrevInUse(mem, p) == mem[p].prev.inUse
NextChunk(mem, p) == p + Size(mem, p)
PrevChunk(mem, p) == p - PrevSize(mem, p)

\* Mutant of SetSize: the tag behind the chunk is not written.
SetSizeInFrontOnly(mem, p, size, inUse) == Write(mem, p, "size", Word(size, inUse))

\* SetSizeFree and SetSizeInUse: the tag in front and the tag behind.
SetSize(mem, p, size, inUse) ==
    Write(Write(mem, p, "size", Word(size, inUse)), p + size, "prev", Word(size, inUse))

\* The chunks of the area; the header at its end is a mark and no chunk.
Chunks(mem) == {p \in Addrs \ {AreaSize} : IsHeader(mem[p])}
FreeChunks(mem) == {p \in Chunks(mem) : ~InUse(mem, p)}
Blocks(mem) == {p \in Chunks(mem) : InUse(mem, p)}

\* The cells behind the header of a chunk of this size.
Cells(size) == 1 .. size \div kAlign - 1

-----------------------------------------------------------------------------
(* Bins *)

WithMem(q, mem) == [q EXCEPT !.mem = mem]

\* How many chunks of a sorted bin are larger: where LinkFree stops.
Larger(q, bin, size) ==
    Cardinality({k \in DOMAIN bin : \A j \in 1 .. k : Size(q.mem, bin[j]) > size})

\* Mutant of LinkFree: every bin is used like a small one.
LinkFreeInFront(q, p) ==
    LET index == BinIndex(Size(q.mem, p))
    IN  [q EXCEPT !.bins[index] = <<p>> \o @, !.marked = @ \cup {index}]

\* In front of a small or an empty bin, else where the order, largest first,
\* wants it.  bins[i] is read from Next() to Prev().
LinkFree(q, p) ==
    LET size == Size(q.mem, p)
        index == BinIndex(size)
        bin == q.bins[index]
    IN  IF index < kNumSmallBins \/ bin = <<>>
        THEN [q EXCEPT !.bins[index] = <<p>> \o @, !.marked = @ \cup {index}]
        ELSE [q EXCEPT !.bins[index] = InsertAt(@, Larger(q, bin, size) + 1, p)]

\* The list that a chunk is linked in, if any.
BinOf(q, p) == CHOOSE i \in AllocBins : \E k \in DOMAIN q.bins[i] : q.bins[i][k] = p

\* RemoveLeaveDangling: its neighbours are linked to each other.
Removed(bin, p) == RemoveAt(bin, CHOOSE k \in DOMAIN bin : bin[k] = p)

\* Mutant of UnlinkFree: the bit of a bin that becomes empty stays.
UnlinkFreeMarked(q, p) == [q EXCEPT !.bins[BinOf(q, p)] = Removed(@, p)]

UnlinkFree(q, p) ==
    LET bins == [q.bins EXCEPT ![BinOf(q, p)] = Removed(@, p)]
        index == BinIndex(Size(q.mem, p))
    IN  [q EXCEPT !.bins = bins,
                  !.marked = IF bins[index] = <<>> THEN @ \ {index} ELSE @]

\* The cast to int: the low bits, read as a signed number.
AsInt(n) == ((n + IntRange) % (2 * IntRange)) - IntRange

\* remainder_size: what is left of a chunk, less than 0 if it is too small.
Remainder(whole, size) == AsInt(whole - size)

\* The first chunk of a bin that is large enough, from Prev() on.
FirstFit(q, index, size) ==
    LET fits == {k \in DOMAIN q.bins[index] :
                    Remainder(Size(q.mem, q.bins[index][k]), size) >= 0}
    IN  IF fits = {} THEN NULL ELSE q.bins[index][Max(fits)]

\* What NextFullBin goes through from a starting bin on.
NextFullBins(q, start) == {i \in q.marked : i >= start}

\* The loop over the full bins, up to the first chunk that is large enough.
Search(q, start, size) ==
    LET hits == {i \in NextFullBins(q, start) : FirstFit(q, i, size) # NULL}
    IN  IF hits = {} THEN NULL ELSE FirstFit(q, Min(hits), size)

-----------------------------------------------------------------------------
(* Alloc *)

\* A small request takes from its bin, or the next, without a look at sizes.
SmallHit(q, index) ==
    IF q.bins[index] # <<>> THEN Last(q.bins[index])
    ELSE IF q.bins[index + 1] # <<>> THEN Last(q.bins[index + 1]) ELSE NULL

\* A large one scans its own bin, which need not hold any that fits.
Candidate(q, size) ==
    LET index == BinIndex(size)
    IN  IF index < kMaxSmallBin
        THEN IF SmallHit(q, index) # NULL THEN SmallHit(q, index)
             ELSE Search(q, index + 2, size)
        ELSE IF FirstFit(q, index, size) # NULL THEN FirstFit(q, index, size)
             ELSE Search(q, index + 1, size)

\* Mutant of Splits: the rest of a chunk is cut off whatever its size.
SplitsAny(rest) == rest > 0

\* What is left of a chunk becomes a chunk if it is large enough for one.
Splits(rest) == rest >= kMinAllocSize

\* found_bigger_fit and found_exact_fit.
TakeChunk(q, p, size) ==
    LET unlinked == UnlinkFree(q, p)
        whole == Size(q.mem, p)
        rest == Remainder(whole, size)
        cut == LinkFree(WithMem(unlinked, SetSize(unlinked.mem, p + size, rest, FALSE)), p + size)
    IN  IF Splits(rest) THEN WithMem(cut, SetSize(cut.mem, p, whole - rest, TRUE))
        ELSE WithMem(unlinked, SetSize(unlinked.mem, p, whole, TRUE))

-----------------------------------------------------------------------------
(* Free *)

\* Mutants of FreeChunk: the chunk before is left alone; the size of the chunk
\* behind is added whether it is free or not.
FreeChunkNoBack(q, p) ==
    LET next == NextChunk(q.mem, p)
        forth == IF InUse(q.mem, next) THEN q ELSE UnlinkFree(q, next)
        end == IF InUse(q.mem, next) THEN next ELSE NextChunk(q.mem, next)
    IN  LinkFree(WithMem(forth, SetSize(forth.mem, p, end - p, FALSE)), p)
FreeChunkSwallows(q, p) ==
    LET next == NextChunk(q.mem, p)
        forth == IF InUse(q.mem, next) THEN q ELSE UnlinkFree(q, next)
        end == NextChunk(q.mem, next)
    IN  LinkFree(WithMem(forth, SetSize(forth.mem, p, end - p, FALSE)), p)

\* Consolidation with the chunk before and the one behind.
FreeChunk(q, p) ==
    LET chunk == IF PrevInUse(q.mem, p) THEN p ELSE PrevChunk(q.mem, p)
        back == IF chunk = p THEN q ELSE UnlinkFree(q, chunk)
        next == NextChunk(q.mem, p)
        forth == IF InUse(q.mem, next) THEN back ELSE UnlinkFree(back, next)
        end == IF InUse(q.mem, next) THEN next ELSE NextChunk(q.mem, next)
    IN  LinkFree(WithMem(forth, SetSize(forth.mem, chunk, end - chunk, FALSE)), chunk)

-----------------------------------------------------------------------------
(* Realloc *)

\* memcpy and memmove of a block of this size, all but its header.  A header
\* among the pieces is no piece of anyone's any more.
Moved(mem, from, to, size) ==
    LET Copied(cell) == IF IsHeader(cell) THEN Junk ELSE cell
    IN  [a \in Addrs |->
            IF a > to /\ a - to < size THEN Copied(mem[from + (a - to)]) ELSE mem[a]]

\* The label split: what newChunk has too much is made a block and freed.
SplitOff(q, p, whole, size) ==
    LET rest == whole - size
        cut == SetSize(SetSize(q.mem, p + size, rest, TRUE), p, size, TRUE)
    IN  IF Splits(rest) THEN FreeChunk(WithMem(q, cut), p + size)
        ELSE WithMem(q, SetSize(q.mem, p, whole, TRUE))

\* The ways to make room, in the order in which Realloc tries them.
ReallocWay(q, p, size) ==
    LET old == Size(q.mem, p)
        next == NextChunk(q.mem, p)
        prev == PrevChunk(q.mem, p)
        nextFree == IF InUse(q.mem, next) THEN 0 ELSE Size(q.mem, next)
        prevFree == IF InUse(q.mem, prev) THEN 0 ELSE Size(q.mem, prev)
    IN  IF old >= size THEN "fits"
        ELSE IF nextFree > 0 /\ old + nextFree >= size THEN "forward"
        ELSE IF nextFree > 0 /\ prevFree > 0 /\ prevFree + old + nextFree >= size THEN "both"
        ELSE IF prevFree > 0 /\ prevFree + old >= size THEN "backward"
        ELSE "elsewhere"

\* Where the block goes, and the pool when it is there.  Going backward the
\* rest is split off, and freed, before the block is moved.
Backward(q, p, whole, size) ==
    LET prev == PrevChunk(q.mem, p)
        split == SplitOff(UnlinkFree(q, prev), prev, whole, size)
    IN  WithMem(split, Moved(split.mem, p, prev, Size(q.mem, p)))

Elsewhere(q, p, to, size) ==
    LET taken == TakeChunk(q, to, size)
    IN  FreeChunk(WithMem(taken, Moved(taken.mem, p, to, Size(q.mem, p))), p)

ReallocTo(q, p, size) ==
    CASE ReallocWay(q, p, size) \in {"fits", "forward"} -> p
      [] ReallocWay(q, p, size) \in {"both", "backward"} -> PrevChunk(q.mem, p)
      [] OTHER -> Candidate(q, size)

Reallocated(q, p, size) ==
    LET way == ReallocWay(q, p, size)
        old == Size(q.mem, p)
        next == NextChunk(q.mem, p)
    IN  CASE way = "fits" -> SplitOff(q, p, old, size)
          [] way = "forward" ->
                SplitOff(UnlinkFree(q, next), p, old + Size(q.mem, next), size)
          [] way = "both" ->
                Backward(UnlinkFree(q, next), p,
                         PrevSize(q.mem, p) + old + Size(q.mem, next), size)
          [] way = "backward" -> Backward(q, p, PrevSize(q.mem, p) + old, size)
          [] OTHER -> Elsewhere(q, p, Candidate(q, size), size)

-----------------------------------------------------------------------------
(* What callers do, and the state *)

\* The owner of a block writes to all of it, and nothing is remembered of what
\* free chunks hold.
Settled(q, p) ==
    LET Inside(c, a) == c < a /\ a < c + Size(q.mem, c)
        binned == UNION {ToSet(q.bins[i]) : i \in AllocBins}
    IN  WithMem(q, [a \in Addrs |->
            IF p # NULL /\ Inside(p, a) THEN Piece((a - p) \div kAlign)
            ELSE IF \E c \in binned : Inside(c, a) THEN Junk ELSE q.mem[a]])

\* What the owner finds in a block that was of this size when it wrote to it.
Kept(mem, p, size) ==
    \A i \in Cells(size) \cap Cells(Size(mem, p)) : mem[p + kAlign * i] = Piece(i)

EmptyPool ==
    [mem |-> [a \in Addrs |->
                IF a = 0 THEN Header(Word(0, TRUE), Word(AreaSize, FALSE))
                ELSE IF a = AreaSize THEN Header(Word(AreaSize, FALSE), Word(0, TRUE))
                ELSE Junk],
     bins |-> [i \in AllocBins |-> <<>>], marked |-> {}]

NoReply == [req |-> 0, ptr |-> NULL]
Reply(req, ptr) == [req |-> req, ptr |-> ptr]

\* NewArea and InitAlloc.
Init ==
    /\ pool = LinkFree(EmptyPool, 0)
    /\ reply = NoReply
    /\ kept = TRUE

\* julia_pool_malloc, and julia_pool_realloc of a null pointer.
Alloc(req) ==
    LET size == RequestToSize(req)
        p == Candidate(pool, size)
    IN  /\ reply' = Reply(req, p)
        /\ kept' = TRUE
        /\ pool' = IF p = NULL THEN pool ELSE Settled(TakeChunk(pool, p, size), p)

\* julia_pool_free.
Free(p) ==
    /\ p \in Blocks(pool.mem)
    /\ reply' = NoReply
    /\ kept' = TRUE
    /\ pool' = Settled(FreeChunk(pool, p), NULL)

\* julia_pool_realloc.
Realloc(p, req) ==
    LET size == RequestToSize(req)
        to == ReallocTo(pool, p, size)
        after == Reallocated(pool, p, size)
    IN  /\ p \in Blocks(pool.mem)
        /\ reply' = Reply(req, to)
        /\ kept' = (to # NULL => Kept(after.mem, to, Size(pool.mem, p)))
        /\ pool' = IF to = NULL THEN pool ELSE Settled(after, to)

Next ==
    \/ \E req \in Requests : Alloc(req)
    \/ \E p \in Addrs : Free(p)
    \/ \E p \in Addrs, req \in Requests : Realloc(p, req)

Spec == Init /\ [][Next]_vars
-----------------------------------------------------------------------------
(* Properties *)

Sizes == {s \in Addrs : LegalSize(s)} \cup {0}
Words == [n : Sizes, inUse : BOOLEAN]

\* Every size in the area is one that RequestToSize could have returned, or
\* the 0 of a mark.
TypeOK ==
    /\ pool.mem \in [Addrs -> [prev : Words, size : Words]
                              \cup [piece : 0 .. AreaSize \div kAlign]]
    /\ pool.bins \in [AllocBins -> Seq(Addrs)]
    /\ pool.marked \subseteq AllocBins
    /\ reply \in [req : Requests \cup {0}, ptr : Addrs \cup {NULL}]
    /\ kept \in BOOLEAN

\* From each chunk the next begins where its size says (or the area ends),
\* no other begins before, and the tag there is the same as in front: the
\* assertion of DoCheckChunk, after every split, merge and move.
ChunksTile ==
    \A p \in Chunks(pool.mem) :
        LET next == NextChunk(pool.mem, p)
        IN  /\ next \in Chunks(pool.mem) \cup {AreaSize}
            /\ \A o \in Chunks(pool.mem) : ~(p < o /\ o < next)
            /\ pool.mem[next].prev = pool.mem[p].size

\* "... and is fully consolidated": no two free chunks are neighbours.
FullyConsolidated ==
    \A p \in FreeChunks(pool.mem) :
        PrevInUse(pool.mem, p) /\ InUse(pool.mem, NextChunk(pool.mem, p))

\* The bins hold the free chunks and nothing else, each once and where
\* the table of sizes says, and the bitmap tells which are not empty: a bit
\* too few hides memory, a bit too many sends Alloc to an empty bin.
BinsHoldFreeChunks ==
    /\ \A i \in AllocBins : \A k \in DOMAIN pool.bins[i] :
          /\ pool.bins[i][k] \in FreeChunks(pool.mem)
          /\ BinIndex2(Size(pool.mem, pool.bins[i][k])) = i
    /\ \A p \in FreeChunks(pool.mem) :
          Cardinality({k \in DOMAIN pool.bins[BinIndex(Size(pool.mem, p))] :
                          pool.bins[BinIndex(Size(pool.mem, p))][k] = p}) = 1
    /\ pool.marked = {i \in AllocBins : pool.bins[i] # <<>>}

\* A block as its owner sees it.
Block(mem, p) ==
    IF p \in Blocks(mem)
    THEN [i \in Cells(Size(mem, p)) |-> mem[p + kAlign * i]] ELSE <<>>

\* A call changes the block it is about and no other: splitting, merging
\* and moving never write into, move or drop what someone else holds.
OneBlockPerCall ==
    [][Cardinality({p \in Blocks(pool.mem) : Block(pool.mem, p) # Block(pool.mem', p)}) <= 1]_vars

\* Alloc cuts the smallest free chunk that fits, though it looks at the sizes
\* in large bins only: the order of the bins and in the bins does it.
AllocBestFit ==
    [][\A p \in FreeChunks(pool.mem) :
          Blocks(pool.mem') = Blocks(pool.mem) \cup {p} =>
              \A f \in FreeChunks(pool.mem) :
                  Size(pool.mem, f) >= RequestToSize(reply'.req) =>
                      Size(pool.mem, p) <= Size(pool.mem, f)]_vars

\* The pool is an allocator: blocks are large enough, do not overlap, and a
\* call fails only if no free chunk fits, growing in place included.
Abstract == INSTANCE Allocator
              WITH blocks <- [p \in Blocks(pool.mem) |-> Size(pool.mem, p)]

ImplementsAllocator == Abstract!Spec

\* "Otherwise copy, free, and exit" (SC_AllocPoolSafe.cpp:576): a block keeps
\* what its owner wrote when it is reallocated.
PayloadKept == kept
=============================================================================
