--------------------------- MODULE AllocPoolProofs ---------------------------
(***************************************************************************)
(* The pool of AllocPool, for an area of every size and all requests that  *)
(* an int can tell apart from the chunks (RequestsAssumption): types,      *)
(* tiling, consolidation, the bins, best fit, one block per call, and that *)
(* the pool implements Allocator.                                          *)
(*                                                                         *)
(* The invariant is PoolInv: the area is laid out in chunks (Laid), none   *)
(* free beside a free one (Merged), no header inside a block (Clean), and  *)
(* the bins hold the free ones in order (Binned).  Within a call the four  *)
(* are followed from SetSize, LinkFree and UnlinkFree to FreeChunk,        *)
(* TakeChunk and SplitOff, and from these to the five ways of Realloc; B   *)
(* stands for the blocks that the call has in hand, whose cells may still  *)
(* hold headers of chunks that were merged.  It takes Clean for Chunks,    *)
(* which knows chunks by their headers, to be the layout after the call.   *)
(***************************************************************************)
EXTENDS AllocPool, FiniteSetTheorems, WellFoundedInduction, TLAPS

-----------------------------------------------------------------------------
(* The arithmetic of the bins *)

\* The highest bit of a size between two powers of two.
LEMMA HighBitIs ==
    ASSUME NEW b \in 10 .. 17, NEW size \in Nat, Pow2[b] <= size, size < Pow2[b + 1]
    PROVE  HighBit(size) = b
<1>1. \A c \in 10 .. 17 : Pow2[c] <= size /\ size < Pow2[c + 1] => c = b
  BY SMTT(60) DEF Pow2
<1> QED BY <1>1 DEF HighBit

\* The value of BinIndex in one of its eight ranges.
LEMMA BinIndexIn ==
    ASSUME NEW b \in 10 .. 17, NEW size \in Nat, Pow2[b] <= size, size < Pow2[b + 1]
    PROVE  BinIndex(size) = (b - 3) * 8 + size \div Pow2[b - 3]
<1>1. HighBit(size) = b
  BY HighBitIs
<1>2. 1024 <= size /\ size < 262144
  BY SMT DEF Pow2
<1> QED BY <1>1, <1>2, SMT DEF BinIndex

\* The same, range by range, without Pow2.
LEMMA BinIndexRanges ==
    ASSUME NEW size \in Nat
    PROVE  /\ 1024 <= size /\ size < 2048 => BinIndex(size) = 56 + size \div 128
           /\ 2048 <= size /\ size < 4096 => BinIndex(size) = 64 + size \div 256
           /\ 4096 <= size /\ size < 8192 => BinIndex(size) = 72 + size \div 512
           /\ 8192 <= size /\ size < 16384 => BinIndex(size) = 80 + size \div 1024
           /\ 16384 <= size /\ size < 32768 => BinIndex(size) = 88 + size \div 2048
           /\ 32768 <= size /\ size < 65536 => BinIndex(size) = 96 + size \div 4096
           /\ 65536 <= size /\ size < 131072 => BinIndex(size) = 104 + size \div 8192
           /\ 131072 <= size /\ size < 262144 => BinIndex(size) = 112 + size \div 16384
<1>1. ASSUME NEW b \in 10 .. 17, Pow2[b] <= size, size < Pow2[b + 1]
      PROVE  BinIndex(size) = (b - 3) * 8 + size \div Pow2[b - 3]
  BY <1>1, BinIndexIn
<1>2. /\ 10 \in 10 .. 17 /\ 11 \in 10 .. 17 /\ 12 \in 10 .. 17 /\ 13 \in 10 .. 17
      /\ 14 \in 10 .. 17 /\ 15 \in 10 .. 17 /\ 16 \in 10 .. 17 /\ 17 \in 10 .. 17
  BY SMT
<1>3. 1024 <= size /\ size < 2048 => BinIndex(size) = 56 + size \div 128
  BY <1>1, <1>2, SMT DEF Pow2
<1>4. 2048 <= size /\ size < 4096 => BinIndex(size) = 64 + size \div 256
  BY <1>1, <1>2, SMT DEF Pow2
<1>5. 4096 <= size /\ size < 8192 => BinIndex(size) = 72 + size \div 512
  BY <1>1, <1>2, SMT DEF Pow2
<1>6. 8192 <= size /\ size < 16384 => BinIndex(size) = 80 + size \div 1024
  BY <1>1, <1>2, SMT DEF Pow2
<1>7. 16384 <= size /\ size < 32768 => BinIndex(size) = 88 + size \div 2048
  BY <1>1, <1>2, SMT DEF Pow2
<1>8. 32768 <= size /\ size < 65536 => BinIndex(size) = 96 + size \div 4096
  BY <1>1, <1>2, SMT DEF Pow2
<1>9. 65536 <= size /\ size < 131072 => BinIndex(size) = 104 + size \div 8192
  BY <1>1, <1>2, SMT DEF Pow2
<1>10. 131072 <= size /\ size < 262144 => BinIndex(size) = 112 + size \div 16384
  BY <1>1, <1>2, SMT DEF Pow2
<1> QED BY <1>3, <1>4, <1>5, <1>6, <1>7, <1>8, <1>9, <1>10, SMT

\* BinIndex, which counts leading zeros, computes the table of comparisons
\* that stands beside it in the header, for every size.
THEOREM BinIndexIsTable == \A size \in Nat : BinIndex(size) = BinIndex2(size)
<1> SUFFICES ASSUME NEW size \in Nat PROVE BinIndex(size) = BinIndex2(size)
  OBVIOUS
<1>1. CASE size < 1024 \/ size >= 262144
  BY <1>1, SMT DEF BinIndex, BinIndex2
<1>2. CASE size >= 1024 /\ size < 262144
  BY <1>2, BinIndexRanges, SMT DEF BinIndex2
<1> QED BY <1>1, <1>2, SMT

\* Larger chunks are in higher bins: Alloc looks from the bin of the
\* request upward, and so passes over no bin that holds a chunk that fits.
THEOREM BinIndexMonotone ==
    \A m, n \in Nat : m <= n => BinIndex(m) <= BinIndex(n)
<1> SUFFICES ASSUME NEW m \in Nat, NEW n \in Nat, m <= n
             PROVE  BinIndex2(m) <= BinIndex2(n)
  BY BinIndexIsTable, SMT
<1> QED BY SMT DEF BinIndex2

\* Every size has a bin.
THEOREM BinIndexInRange == \A size \in Nat : BinIndex(size) \in AllocBins
<1> SUFFICES ASSUME NEW size \in Nat PROVE BinIndex2(size) \in AllocBins
  BY BinIndexIsTable, SMT
<1> QED BY SMT DEF BinIndex2, AllocBins, kNumAllocBins

\* The chunk of a request holds the request and its header, is aligned, and
\* wastes less than the smallest chunk.
THEOREM RequestFits ==
    \A inReqSize \in Nat :
        /\ RequestToSize(inReqSize) >= inReqSize + HeaderSize
        /\ LegalSize(RequestToSize(inReqSize))
        /\ RequestToSize(inReqSize) - (inReqSize + HeaderSize) < kMinAllocSize
  BY SMT DEF RequestToSize, LegalSize, HeaderSize, kAlign, kMinAllocSize

\* A small bin holds chunks of one size, and no size belongs in the bin above
\* it, which Alloc scans too: whatever a small request finds in either fits,
\* without a look at its size (SC_AllocPoolSafe.cpp:377-388).
THEOREM SmallBinsExact ==
    \A m, n \in Nat :
        LegalSize(m) /\ LegalSize(n) /\ BinIndex(m) < kMaxSmallBin =>
            /\ BinIndex(n) = BinIndex(m) => n = m
            /\ BinIndex(n) # BinIndex(m) + 1
<1> SUFFICES ASSUME NEW m \in Nat, NEW n \in Nat, LegalSize(m), LegalSize(n),
                    BinIndex2(m) < kMaxSmallBin
             PROVE  /\ BinIndex2(n) = BinIndex2(m) => n = m
                    /\ BinIndex2(n) # BinIndex2(m) + 1
  BY BinIndexIsTable, SMT
<1>1. m < 1024
  BY SMT DEF BinIndex2, kMaxSmallBin, kNumSmallBins
<1>2. n >= 1024 => BinIndex2(n) >= 64
  BY SMT DEF BinIndex2
<1> QED BY <1>1, <1>2, SMT DEF BinIndex2, kMaxSmallBin, kNumSmallBins, LegalSize, kAlign, kMinAllocSize

-----------------------------------------------------------------------------
(* Addresses and sizes *)

\* The addresses are the multiples of kAlign within the area.
LEMMA AddrsAre ==
  /\ Addrs = {a \in 0 .. AreaSize : a % kAlign = 0}
  /\ 0 \in Addrs /\ AreaSize \in Addrs /\ AreaSize \in Nat /\ AreaSize >= 128
  /\ NULL \notin Addrs /\ Addrs \subseteq Nat
<1>1. AreaSize \in Nat /\ AreaSize % 64 = 0 /\ AreaSize >= 128
  BY AreaSizeAssumption DEF LegalSize, kAlign, kMinAllocSize
<1>2. ASSUME NEW a \in 0 .. AreaSize, a % 64 = 0
      PROVE  a \in {64 * i : i \in 0 .. AreaSize \div 64}
  <2>1. a \div 64 \in 0 .. AreaSize \div 64 /\ a = 64 * (a \div 64)
    BY <1>1, <1>2
  <2> QED
    BY <2>1
<1>3. ASSUME NEW i \in 0 .. AreaSize \div 64
      PROVE  64 * i \in 0 .. AreaSize /\ (64 * i) % 64 = 0
  BY <1>1
<1>4. Addrs = {a \in 0 .. AreaSize : a % kAlign = 0}
  BY <1>2, <1>3 DEF Addrs, kAlign
<1> QED
  BY <1>1, <1>4 DEF NULL, kAlign

\* Sizes are differences of addresses.
LEMMA Distance ==
  ASSUME NEW a \in Addrs, NEW b \in Addrs
  PROVE  /\ b - a \in Int /\ (b - a) % kAlign = 0
         /\ b - a >= kMinAllocSize => LegalSize(b - a) /\ b - a \in Sizes /\ b - a \in Addrs
<1>1. (b - a) % kAlign = 0
  BY AddrsAre DEF kAlign
<1> QED
  BY <1>1, AddrsAre DEF LegalSize, Sizes, kMinAllocSize, kAlign

\* A multiple of kAlign away from an address is an address.
LEMMA Reach ==
  ASSUME NEW a \in Addrs, NEW s \in Int, s % kAlign = 0, a + s >= 0, a + s <= AreaSize
  PROVE  a + s \in Addrs
BY AddrsAre DEF kAlign

\* The legal sizes within the area, and 0.
LEMMA SizesAre ==
  /\ Sizes \subseteq Nat /\ 0 \in Sizes
  /\ \A s \in Sizes : s # 0 => LegalSize(s)
  /\ \A s \in Addrs : LegalSize(s) => s \in Sizes
BY AddrsAre DEF Sizes

\* A number below its modulus.
LEMMA ModIs ==
  ASSUME NEW a \in Nat, NEW m \in Nat, a < m
  PROVE  a % m = a
OBVIOUS

\* The cast to int changes no number that an int can hold.
LEMMA AsIntIs ==
  ASSUME NEW n \in Int, -IntRange <= n, n < IntRange
  PROVE  AsInt(n) = n
<1>1. PICK a : a = n + IntRange
  OBVIOUS
<1>2. PICK m : m = 2 * IntRange
  OBVIOUS
<1>3. a \in Nat /\ m \in Nat /\ a < m
  BY <1>1, <1>2, IntRangeAssumption
<1>4. a % m = a
  BY <1>3, ModIs
<1> QED
  BY <1>1, <1>2, <1>4, IntRangeAssumption DEF AsInt

\* So the remainder of a chunk of the area is what it should be, as long as the
\* request is not beyond an int.
LEMMA RemainderIs ==
  ASSUME NEW whole \in Nat, whole <= AreaSize, NEW size \in Nat, size <= IntRange
  PROVE  Remainder(whole, size) = whole - size
<1>1. PICK n : n = whole - size
  OBVIOUS
<1>2. n \in Int /\ -IntRange <= n /\ n < IntRange
  BY <1>1, IntRangeAssumption, AreaSizeAssumption
<1> QED
  BY <1>1, <1>2, AsIntIs DEF Remainder

-----------------------------------------------------------------------------
(* Memory *)

Headers == [prev : Words, size : Words]
Pieces == [piece : 0 .. AreaSize \div kAlign]
Memories == [Addrs -> Headers \cup Pieces]

\* Headers and pieces are told apart.
LEMMA HeaderIs ==
  /\ \A h \in Headers : IsHeader(h)
  /\ \A c \in Pieces : ~IsHeader(c)
  /\ \A c \in Headers \cup Pieces : IsHeader(c) => c \in Headers
  /\ Junk \in Pieces
<1>1. \A h \in Headers : DOMAIN h = {"prev", "size"}
  BY DEF Headers
<1>2. \A c \in Pieces : DOMAIN c = {"piece"}
  BY DEF Pieces
<1>3. 0 \in 0 .. AreaSize \div kAlign
  BY AddrsAre DEF kAlign
<1> QED
  BY <1>1, <1>2, <1>3 DEF IsHeader, Junk, Piece, Pieces

\* Writing a tag.
LEMMA WriteSize ==
  ASSUME NEW mem \in Memories, NEW p \in Addrs, NEW w \in Words,
         NEW m, m = Write(mem, p, "size", w)
  PROVE  /\ m \in Memories /\ m[p] \in Headers /\ m[p].size = w
         /\ IsHeader(mem[p]) => m[p].prev = mem[p].prev
         /\ \A a \in Addrs \ {p} : m[a] = mem[a]
<1> DEFINE old == IF IsHeader(mem[p]) THEN mem[p] ELSE Header(Word(0, FALSE), Word(0, FALSE))
           new == [old EXCEPT !["size"] = w]
<1>1. Header(Word(0, FALSE), Word(0, FALSE)) \in Headers
  BY SizesAre DEF Header, Word, Headers, Words
<1>2. old \in Headers
  BY <1>1, HeaderIs DEF Memories
<1>3. m = [mem EXCEPT ![p] = new]
  BY DEF Write, Memories
<1>4. IsHeader(mem[p]) => old = mem[p]
  OBVIOUS
<1> HIDE DEF old
<1>5. new \in Headers /\ new.size = w /\ new.prev = old.prev
  BY <1>2 DEF Headers
<1> HIDE DEF new
<1> QED
  BY <1>3, <1>4, <1>5 DEF Memories

\* The same for the tag behind.
LEMMA WritePrev ==
  ASSUME NEW mem \in Memories, NEW p \in Addrs, NEW w \in Words,
         NEW m, m = Write(mem, p, "prev", w)
  PROVE  /\ m \in Memories /\ m[p] \in Headers /\ m[p].prev = w
         /\ IsHeader(mem[p]) => m[p].size = mem[p].size
         /\ \A a \in Addrs \ {p} : m[a] = mem[a]
<1> DEFINE old == IF IsHeader(mem[p]) THEN mem[p] ELSE Header(Word(0, FALSE), Word(0, FALSE))
           new == [old EXCEPT !["prev"] = w]
<1>1. Header(Word(0, FALSE), Word(0, FALSE)) \in Headers
  BY SizesAre DEF Header, Word, Headers, Words
<1>2. old \in Headers
  BY <1>1, HeaderIs DEF Memories
<1>3. m = [mem EXCEPT ![p] = new]
  BY DEF Write, Memories
<1>4. IsHeader(mem[p]) => old = mem[p]
  OBVIOUS
<1> HIDE DEF old
<1>5. new \in Headers /\ new.prev = w /\ new.size = old.size
  BY <1>2 DEF Headers
<1> HIDE DEF new
<1> QED
  BY <1>3, <1>4, <1>5 DEF Memories

\* Writing the tags of a chunk.
LEMMA SetSizeIs ==
  ASSUME NEW mem \in Memories, NEW p \in Addrs, NEW size \in Sizes \ {0}, p + size \in Addrs,
         NEW flag \in BOOLEAN, NEW m, m = SetSize(mem, p, size, flag)
  PROVE  /\ m \in Memories
         /\ m[p] \in Headers /\ m[p + size] \in Headers /\ p # p + size
         /\ m[p].size = Word(size, flag) /\ m[p + size].prev = Word(size, flag)
         /\ IsHeader(mem[p]) => m[p].prev = mem[p].prev
         /\ IsHeader(mem[p + size]) => m[p + size].size = mem[p + size].size
         /\ \A a \in Addrs \ {p, p + size} : m[a] = mem[a]
<1>1. Word(size, flag) \in Words
  BY DEF Word, Words
<1>2. p # p + size
  BY SizesAre, AddrsAre
<1>3. PICK m1 : m1 = Write(mem, p, "size", Word(size, flag))
  OBVIOUS
<1>4. /\ m1 \in Memories /\ m1[p] \in Headers /\ m1[p].size = Word(size, flag)
      /\ IsHeader(mem[p]) => m1[p].prev = mem[p].prev
      /\ \A a \in Addrs \ {p} : m1[a] = mem[a]
  BY <1>1, <1>3, WriteSize
<1>5. m = Write(m1, p + size, "prev", Word(size, flag))
  BY <1>3 DEF SetSize
<1>6. /\ m \in Memories /\ m[p + size] \in Headers /\ m[p + size].prev = Word(size, flag)
      /\ IsHeader(m1[p + size]) => m[p + size].size = m1[p + size].size
      /\ \A a \in Addrs \ {p + size} : m[a] = m1[a]
  BY <1>1, <1>4, <1>5, WritePrev
<1> QED
  BY <1>2, <1>4, <1>6

-----------------------------------------------------------------------------
(* Lists of chunks *)

Distinct(s) == \A j, k \in DOMAIN s : s[j] = s[k] => j = k

\* A list without one of its chunks.
LEMMA RemovedIs ==
  ASSUME NEW S, NEW s \in Seq(S), Distinct(s), NEW p \in ToSet(s), NEW r, r = Removed(s, p)
  PROVE  /\ r \in Seq(S) /\ Distinct(r) /\ ToSet(r) = ToSet(s) \ {p}
         /\ Len(r) = Len(s) - 1
         /\ \E i \in DOMAIN s :
               /\ s[i] = p
               /\ \A k \in DOMAIN r : r[k] = IF k < i THEN s[k] ELSE s[k + 1]
<1> DEFINE i == CHOOSE k \in DOMAIN s : s[k] = p
<1>1. i \in DOMAIN s /\ s[i] = p
  BY DEF ToSet
<1>2. r = SubSeq(s, 1, i - 1) \o SubSeq(s, i + 1, Len(s))
  BY DEF Removed, RemoveAt
<1> HIDE DEF i
<1>3. i \in 1 .. Len(s) /\ Len(s) \in Nat
  BY <1>1
<1>4. PICK f : f = SubSeq(s, 1, i - 1)
  OBVIOUS
<1>5. PICK g : g = SubSeq(s, i + 1, Len(s))
  OBVIOUS
<1>a. f \in Seq(S) /\ Len(f) = i - 1 /\ \A k \in 1 .. i - 1 : f[k] = s[k]
  BY <1>3, <1>4
<1>b. /\ g \in Seq(S) /\ Len(g) = Len(s) - i
      /\ \A k \in 1 .. Len(s) - i : g[k] = s[i + k]
  BY <1>3, <1>5
<1>c. r = f \o g
  BY <1>2, <1>4, <1>5
<1>d. r \in Seq(S) /\ Len(r) = Len(s) - 1
  <2>1. f \in Seq(S) /\ g \in Seq(S)
    BY <1>a, <1>b
  <2>2. f \o g \in Seq(S) /\ Len(f \o g) = Len(f) + Len(g)
    BY <2>1
  <2> QED
    BY <1>3, <1>a, <1>b, <1>c, <2>2
<1>6. ASSUME NEW k \in DOMAIN r
      PROVE  r[k] = IF k < i THEN s[k] ELSE s[k + 1]
  <2>1. k \in 1 .. Len(s) - 1
    BY <1>3, <1>d
  <2>2. CASE k < i
    <3>1. k \in 1 .. Len(f)
      BY <1>3, <1>a, <2>1, <2>2
    <3>2. r[k] = f[k]
      BY <1>a, <1>b, <1>c, <3>1
    <3> QED
      BY <1>a, <2>2, <3>1, <3>2
  <2>3. CASE ~(k < i)
    <3>1. k - (i - 1) \in 1 .. Len(s) - i /\ i + (k - (i - 1)) = k + 1
      BY <1>3, <2>1, <2>3
    <3>2. r[k] = g[k - Len(f)]
      BY <1>3, <1>a, <1>b, <1>c, <1>d, <2>1, <2>3
    <3> QED
      BY <1>a, <1>b, <2>3, <3>1, <3>2
  <2> QED
    BY <2>2, <2>3
<1>7. \A k \in DOMAIN r : k \in Int /\ (IF k < i THEN k ELSE k + 1) \in DOMAIN s \ {i}
  BY <1>3, <1>d
<1>8. Distinct(r)
  <2> SUFFICES ASSUME NEW j \in DOMAIN r, NEW k \in DOMAIN r, r[j] = r[k]
               PROVE  j = k
    BY DEF Distinct
  <2>1. (IF j < i THEN j ELSE j + 1) = (IF k < i THEN k ELSE k + 1)
    BY <1>6, <1>7 DEF Distinct
  <2> QED
    BY <1>3, <1>7, <2>1
<1>9. ToSet(r) \subseteq ToSet(s) \ {p}
  BY <1>1, <1>6, <1>7 DEF ToSet, Distinct
<1>10. ASSUME NEW k \in DOMAIN s, s[k] # p
       PROVE  s[k] \in ToSet(r)
  <2>1. k \in 1 .. Len(s) /\ k # i
    BY <1>1, <1>10
  <2>2. CASE k < i
    <3>1. k \in DOMAIN r
      BY <1>3, <1>d, <2>1, <2>2
    <3> QED
      BY <1>6, <2>2, <3>1 DEF ToSet
  <2>3. CASE k > i
    <3>1. k - 1 \in DOMAIN r /\ ~(k - 1 < i) /\ (k - 1) + 1 = k
      BY <1>3, <1>d, <2>1, <2>3
    <3> QED
      BY <1>6, <3>1 DEF ToSet
  <2> QED
    BY <1>3, <2>1, <2>2, <2>3
<1>11. ToSet(s) \ {p} \subseteq ToSet(r)
  BY <1>10 DEF ToSet
<1> QED
  BY <1>1, <1>d, <1>6, <1>8, <1>9, <1>11

\* A list with one more chunk.
LEMMA InsertedIs ==
  ASSUME NEW S, NEW s \in Seq(S), Distinct(s), NEW p \in S \ ToSet(s),
         NEW i \in 1 .. Len(s) + 1, NEW r, r = InsertAt(s, i, p)
  PROVE  /\ r \in Seq(S) /\ Distinct(r) /\ ToSet(r) = ToSet(s) \cup {p}
         /\ Len(r) = Len(s) + 1
         /\ \A k \in DOMAIN r : r[k] = IF k < i THEN s[k] ELSE IF k = i THEN p ELSE s[k - 1]
<1>1. r = SubSeq(s, 1, i - 1) \o <<p>> \o SubSeq(s, i, Len(s))
  BY DEF InsertAt
<1>2. i \in Nat \ {0} /\ Len(s) \in Nat /\ i <= Len(s) + 1
  OBVIOUS
<1>3. /\ SubSeq(s, 1, i - 1) \in Seq(S) /\ Len(SubSeq(s, 1, i - 1)) = i - 1
      /\ SubSeq(s, i, Len(s)) \in Seq(S) /\ Len(SubSeq(s, i, Len(s))) = Len(s) + 1 - i
      /\ \A k \in 1 .. i - 1 : SubSeq(s, 1, i - 1)[k] = s[k]
      /\ \A k \in 1 .. Len(s) + 1 - i : SubSeq(s, i, Len(s))[k] = s[i + k - 1]
  BY <1>2
<1> DEFINE f == SubSeq(s, 1, i - 1) \o <<p>>
<1>4. /\ f \in Seq(S) /\ Len(f) = i /\ f[i] = p
      /\ \A k \in 1 .. i - 1 : f[k] = s[k]
  BY <1>2, <1>3
<1>5. r = f \o SubSeq(s, i, Len(s))
  BY <1>1
<1> HIDE DEF f
<1>t. PICK g : g = SubSeq(s, i, Len(s))
  OBVIOUS
<1>u. /\ r = f \o g /\ f \in Seq(S) /\ Len(f) = i /\ g \in Seq(S) /\ Len(g) = Len(s) + 1 - i
  BY <1>3, <1>4, <1>5, <1>t
<1>6. r \in Seq(S) /\ Len(r) = Len(s) + 1
  BY <1>2, <1>3, <1>4, <1>5
<1>7. ASSUME NEW k \in DOMAIN r
      PROVE  r[k] = IF k < i THEN s[k] ELSE IF k = i THEN p ELSE s[k - 1]
  <2>1. k \in 1 .. Len(s) + 1
    BY <1>2, <1>6
  <2>2. CASE k <= i
    BY <1>2, <1>3, <1>4, <1>5, <2>1, <2>2
  <2>3. CASE ~(k <= i)
    <3>1. k - i \in 1 .. Len(s) + 1 - i
      BY <1>2, <2>1, <2>3
    <3>a. i + (k - i) - 1 = k - 1
      BY <1>2, <2>1
    <3>2. r[k] = SubSeq(s, i, Len(s))[k - i]
      <4>1. r[k] = g[k - i]
        BY <1>2, <1>u, <2>1, <2>3
      <4> QED
        BY <1>t, <4>1
    <3> QED
      BY <1>2, <1>3, <2>1, <2>3, <3>1, <3>a, <3>2
  <2> QED
    BY <2>2, <2>3
<1>8. \A k \in DOMAIN r : k \in Int /\ (k # i => (IF k < i THEN k ELSE k - 1) \in DOMAIN s)
  BY <1>2, <1>6
<1>9. \A k \in DOMAIN s : s[k] # p
  BY DEF ToSet
<1>10. Distinct(r)
  <2> SUFFICES ASSUME NEW j \in DOMAIN r, NEW k \in DOMAIN r, r[j] = r[k]
               PROVE  j = k
    BY DEF Distinct
  <2>1. CASE j = i
    BY <1>7, <1>8, <1>9, <2>1
  <2>2. CASE k = i
    BY <1>7, <1>8, <1>9, <2>2
  <2>3. CASE j # i /\ k # i
    <3>1. (IF j < i THEN j ELSE j - 1) = (IF k < i THEN k ELSE k - 1)
      BY <1>7, <1>8, <2>3 DEF Distinct
    <3> QED
      BY <1>2, <1>8, <2>3, <3>1
  <2> QED
    BY <2>1, <2>2, <2>3
<1>11. ToSet(r) \subseteq ToSet(s) \cup {p}
  BY <1>7, <1>8 DEF ToSet
<1>12. ASSUME NEW k \in DOMAIN s
       PROVE  s[k] \in ToSet(r)
  <2>1. k \in 1 .. Len(s)
    OBVIOUS
  <2>2. CASE k < i
    <3>1. k \in DOMAIN r
      BY <1>2, <1>6, <2>1, <2>2
    <3> QED
      BY <1>7, <2>2, <3>1 DEF ToSet
  <2>3. CASE ~(k < i)
    <3>1. k + 1 \in DOMAIN r /\ ~(k + 1 < i) /\ k + 1 # i /\ (k + 1) - 1 = k
      BY <1>2, <1>6, <2>1, <2>3
    <3> QED
      BY <1>7, <3>1 DEF ToSet
  <2> QED
    BY <2>2, <2>3
<1>13. p \in ToSet(r)
  <2>1. i \in DOMAIN r
    BY <1>2, <1>6
  <2> QED
    BY <1>7, <2>1 DEF ToSet
<1>14. ToSet(s) \cup {p} \subseteq ToSet(r)
  BY <1>12, <1>13 DEF ToSet
<1> QED
  BY <1>6, <1>7, <1>10, <1>11, <1>14

InFront(s, p) == <<p>> \o s

\* The same, in front.
LEMMA InFrontIs ==
  ASSUME NEW S, NEW s \in Seq(S), Distinct(s), NEW p \in S, p \notin ToSet(s),
         NEW r, r = InFront(s, p)
  PROVE  r \in Seq(S) /\ Distinct(r) /\ ToSet(r) = ToSet(s) \cup {p} /\ Len(r) = Len(s) + 1
<1>1. /\ r \in Seq(S) /\ Len(r) = Len(s) + 1 /\ Len(s) \in Nat
      /\ r[1] = p /\ \A k \in 1 .. Len(s) : r[k + 1] = s[k]
  BY DEF InFront
<1>2. \A k \in DOMAIN r : k # 1 => k - 1 \in DOMAIN s /\ r[k] = s[k - 1]
  <2> SUFFICES ASSUME NEW k \in DOMAIN r, k # 1
               PROVE  k - 1 \in DOMAIN s /\ r[k] = s[k - 1]
    OBVIOUS
  <2>1. k - 1 \in 1 .. Len(s) /\ (k - 1) + 1 = k
    BY <1>1
  <2> QED
    BY <1>1, <2>1
<1>3. \A k \in DOMAIN s : s[k] # p /\ k + 1 \in DOMAIN r
  BY <1>1 DEF ToSet
<1>4. Distinct(r)
  <2> SUFFICES ASSUME NEW j \in DOMAIN r, NEW k \in DOMAIN r, r[j] = r[k]
               PROVE  j = k
    BY DEF Distinct
  <2>1. j \in 1 .. Len(s) + 1 /\ k \in 1 .. Len(s) + 1
    BY <1>1
  <2>2. j # 1 => k # 1
    BY <1>1, <1>2, <1>3
  <2>3. k # 1 => j # 1
    BY <1>1, <1>2, <1>3
  <2>4. j # 1 /\ k # 1 => j - 1 = k - 1
    BY <1>2 DEF Distinct
  <2> QED
    BY <2>1, <2>2, <2>3, <2>4
<1>5. ToSet(r) \subseteq ToSet(s) \cup {p}
  BY <1>1, <1>2 DEF ToSet
<1>6. ToSet(s) \subseteq ToSet(r)
  BY <1>1, <1>3 DEF ToSet
<1>7. p \in ToSet(r)
  BY <1>1 DEF ToSet
<1> QED
  BY <1>1, <1>4, <1>5, <1>6, <1>7

\* A set of numbers that goes from 1 on without a gap has as many as its
\* greatest.
LEMMA LeastOf ==
  ASSUME NEW N \in SUBSET Nat, N # {}
  PROVE  \E x \in N : \A y \in N : x <= y
<1> DEFINE R == {p \in Nat \X Nat : p[1] < p[2]}
<1>1. OpToRel(<, Nat) = R
  BY DEF OpToRel
<1>2. IsWellFoundedOn(R, Nat)
  BY <1>1, NatLessThanWellFounded
<1>3. ASSUME NEW x \in Nat, NEW y \in Nat, y < x
      PROVE  <<y, x>> \in R
  BY <1>3
<1> HIDE DEF R
<1>4. PICK x \in N : \A y \in N : ~ (<<y, x>> \in R)
  BY <1>2, WFMin
<1>5. ASSUME NEW y \in N
      PROVE  x <= y
  <2>1. x \in Nat /\ y \in Nat /\ ~ (y < x)
    BY <1>3, <1>4
  <2> QED
    BY <2>1
<1> QED
  BY <1>5

\* The smallest of some numbers, as of the bins that hit.
LEMMA MinIs ==
  ASSUME NEW N \in SUBSET Nat, N # {}
  PROVE  Min(N) \in N /\ \A y \in N : Min(N) <= y
<1>1. \E x \in N : \A y \in N : x <= y
  BY LeastOf
<1> QED
  BY <1>1 DEF Min

\* The largest of some places in a list.
LEMMA MaxIs ==
  ASSUME NEW n \in Nat, NEW N \in SUBSET (1 .. n), N # {}
  PROVE  Max(N) \in N /\ \A y \in N : y <= Max(N)
<1> DEFINE M == {n - k : k \in N}
<1>1. M \in SUBSET Nat /\ M # {}
  <2>1. \A k \in N : n - k \in Nat
    OBVIOUS
  <2> QED
    BY <2>1
<1>2. PICK x \in M : \A y \in M : x <= y
  BY <1>1, LeastOf
<1>3. PICK k \in N : x = n - k
  OBVIOUS
<1>4. ASSUME NEW y \in N
      PROVE  k >= y
  <2>1. n - k <= n - y
    BY <1>2, <1>3
  <2> QED
    BY <2>1
<1>5. \E m \in N : \A y \in N : m >= y
  BY <1>4
<1>6. PICK g : g = Max(N)
  OBVIOUS
<1>7. g \in N /\ \A y \in N : g >= y
  BY <1>5, <1>6 DEF Max
<1>8. ASSUME NEW y \in N
      PROVE  y <= g
  BY <1>7
<1> QED
  BY <1>6, <1>7, <1>8

\* What Larger counts is a prefix of the list.
LEMMA PrefixCount ==
  ASSUME NEW n \in Nat, NEW G \in SUBSET (1 .. n), \A k \in G : \A j \in 1 .. k : j \in G
  PROVE  /\ Cardinality(G) \in 0 .. n
         /\ G = 1 .. Cardinality(G)
<1>1. CASE G = {}
  <2>1. Cardinality(G) = 0
    BY <1>1, FS_EmptySet
  <2> QED
    BY <1>1, <2>1
<1>2. CASE G # {}
  <2>1. Max(G) \in G /\ \A y \in G : y <= Max(G)
    BY <1>2, MaxIs
  <2>2. G = 1 .. Max(G) /\ Max(G) \in 1 .. n
    <3>1. Max(G) \in 1 .. n /\ \A j \in 1 .. Max(G) : j \in G
      BY <2>1
    <3>2. \A y \in G : y \in 1 .. Max(G)
      BY <2>1, <3>1
    <3> QED
      BY <3>1, <3>2
  <2>3. Cardinality(1 .. Max(G)) = Max(G)
    BY <2>2, FS_Interval
  <2> QED
    BY <2>2, <2>3
<1> QED
  BY <1>1, <1>2

-----------------------------------------------------------------------------
(* Bins *)

Pools == [mem : Memories, bins : [AllocBins -> Seq(Addrs)], marked : SUBSET AllocBins]

\* Largest first.
Sorted(mem, s) == \A j, k \in DOMAIN s : j < k => Size(mem, s[j]) >= Size(mem, s[k])

\* The bins of q hold the chunks F, each once, in its bin, in order.
Bin(q, F, i) ==
    /\ Distinct(q.bins[i])
    /\ ToSet(q.bins[i]) = {p \in F : BinIndex(Size(q.mem, p)) = i}
    /\ Sorted(q.mem, q.bins[i])
Binned(q, F) ==
    /\ F \subseteq Addrs
    /\ \A p \in F : Size(q.mem, p) \in Nat /\ LegalSize(Size(q.mem, p))
    /\ \A i \in AllocBins : Bin(q, F, i)
    /\ q.marked = {i \in AllocBins : q.bins[i] # <<>>}

\* What is in the cells besides does not matter.
LEMMA WithMemIs ==
  ASSUME NEW q \in Pools, NEW m \in Memories, NEW F, Binned(q, F),
         \A p \in F : m[p].size = q.mem[p].size,
         NEW r, r = WithMem(q, m)
  PROVE  r \in Pools /\ r.mem = m /\ r.bins = q.bins /\ r.marked = q.marked /\ Binned(r, F)
<1>1. r \in Pools /\ r.mem = m /\ r.bins = q.bins /\ r.marked = q.marked
  BY DEF Pools, WithMem
<1>2. \A p \in F : Size(m, p) = Size(q.mem, p)
  BY DEF Size
<1>3. ASSUME NEW i \in AllocBins
      PROVE  Bin(r, F, i)
  <2>1. Bin(q, F, i)
    BY DEF Binned
  <2>2. \A k \in DOMAIN q.bins[i] : q.bins[i][k] \in F
    BY <2>1 DEF Bin, ToSet
  <2>3. Sorted(m, q.bins[i])
    BY <1>2, <2>1, <2>2 DEF Bin, Sorted
  <2>4. {p \in F : BinIndex(Size(m, p)) = i} = {p \in F : BinIndex(Size(q.mem, p)) = i}
    BY <1>2
  <2> QED
    BY <1>1, <2>1, <2>3, <2>4 DEF Bin
<1> QED
  BY <1>1, <1>2, <1>3 DEF Binned

\* A free chunk is in the list that its size tells.
LEMMA BinOfIs ==
  ASSUME NEW q \in Pools, NEW F, Binned(q, F), NEW p \in F
  PROVE  /\ BinIndex(Size(q.mem, p)) \in AllocBins
         /\ p \in ToSet(q.bins[BinIndex(Size(q.mem, p))])
         /\ BinOf(q, p) = BinIndex(Size(q.mem, p))
<1>1. Size(q.mem, p) \in Nat
  BY DEF Binned
<1>2. PICK i : i = BinIndex(Size(q.mem, p))
  OBVIOUS
<1>3. i \in AllocBins
  BY <1>1, <1>2, BinIndexInRange
<1>4. \A j \in AllocBins : p \in ToSet(q.bins[j]) <=> j = i
  BY <1>2 DEF Binned, Bin
<1>5. \A j \in AllocBins : p \in ToSet(q.bins[j]) <=> \E k \in DOMAIN q.bins[j] : q.bins[j][k] = p
  BY DEF ToSet
<1>6. BinOf(q, p) = CHOOSE j \in AllocBins : j = i
  BY <1>4, <1>5 DEF BinOf
<1> QED
  BY <1>2, <1>3, <1>4, <1>6

\* Of the bins only the one of p has changed, and of the chunks only p.
Relinked(q, r, i, p) ==
    /\ r.mem = q.mem /\ i = BinIndex(Size(q.mem, p))
    /\ \A j \in AllocBins \ {i} : r.bins[j] = q.bins[j]
    /\ r.marked = {j \in AllocBins : r.bins[j] # <<>>}
AlikeBut(F, G, p) == F \ {p} = G \ {p}

\* Then the bins hold the chunks that they should.
LEMMA BinnedAgain ==
  ASSUME NEW q \in Pools, NEW F, Binned(q, F), NEW G \in SUBSET Addrs, NEW p, AlikeBut(F, G, p),
         Size(q.mem, p) \in Nat, LegalSize(Size(q.mem, p)),
         NEW r \in Pools, NEW i, Relinked(q, r, i, p), Bin(r, G, i)
  PROVE  Binned(r, G)
<1> USE DEF Relinked, AlikeBut
<1>1. ASSUME NEW j \in AllocBins \ {i}
      PROVE  Bin(r, G, j)
  <2>1. Bin(q, F, j)
    BY DEF Binned
  <2>2. {t \in G : BinIndex(Size(q.mem, t)) = j} = {t \in F : BinIndex(Size(q.mem, t)) = j}
    OBVIOUS
  <2> QED
    BY <2>1, <2>2 DEF Bin
<1> QED
  BY <1>1 DEF Binned

\* UnlinkFree takes one chunk out of the bins.
LEMMA UnlinkFreeIs ==
  ASSUME NEW q \in Pools, NEW F, Binned(q, F), NEW p \in F, NEW r, r = UnlinkFree(q, p)
  PROVE  r \in Pools /\ r.mem = q.mem /\ Binned(r, F \ {p})
<1>1. PICK i : i = BinIndex(Size(q.mem, p))
  OBVIOUS
<1>2. i \in AllocBins /\ p \in ToSet(q.bins[i]) /\ BinOf(q, p) = i
  BY <1>1, BinOfIs
<1>3. PICK s : s = q.bins[i]
  OBVIOUS
<1>4. PICK t : t = Removed(s, p)
  OBVIOUS
<1>5. s \in Seq(Addrs) /\ Bin(q, F, i) /\ p \in Addrs
  BY <1>2, <1>3 DEF Pools, Binned
<1>6. Distinct(s) /\ p \in ToSet(s)
  BY <1>2, <1>3, <1>5 DEF Bin
<1>7. /\ t \in Seq(Addrs) /\ Distinct(t) /\ ToSet(t) = ToSet(s) \ {p} /\ Len(t) = Len(s) - 1
      /\ \E n \in DOMAIN s :
            s[n] = p /\ \A k \in DOMAIN t : t[k] = IF k < n THEN s[k] ELSE s[k + 1]
  BY <1>4, <1>5, <1>6, RemovedIs
<1>8. Sorted(q.mem, t)
  <2>1. PICK n \in DOMAIN s : \A k \in DOMAIN t : t[k] = IF k < n THEN s[k] ELSE s[k + 1]
    BY <1>7
  <2>2. Sorted(q.mem, s)
    BY <1>3, <1>5 DEF Bin
  <2> SUFFICES ASSUME NEW j \in DOMAIN t, NEW k \in DOMAIN t, j < k
               PROVE  Size(q.mem, t[j]) >= Size(q.mem, t[k])
    BY DEF Sorted
  <2>3. PICK a \in DOMAIN s : t[j] = s[a] /\ a = IF j < n THEN j ELSE j + 1
    <3>1. (IF j < n THEN j ELSE j + 1) \in DOMAIN s
      BY <1>5, <1>7
    <3> QED
      BY <2>1, <3>1
  <2>4. PICK b \in DOMAIN s : t[k] = s[b] /\ b = IF k < n THEN k ELSE k + 1
    <3>1. (IF k < n THEN k ELSE k + 1) \in DOMAIN s
      BY <1>5, <1>7
    <3> QED
      BY <2>1, <3>1
  <2>5. a < b
    BY <1>5, <1>7, <2>3, <2>4
  <2> QED
    BY <2>2, <2>3, <2>4, <2>5 DEF Sorted
<1>9. /\ r.mem = q.mem
      /\ r.bins = [q.bins EXCEPT ![i] = t]
      /\ r.marked = IF t = <<>> THEN q.marked \ {i} ELSE q.marked
  BY <1>1, <1>2, <1>3, <1>4 DEF UnlinkFree, Pools
<1>10. r \in Pools
  <2>1. r = [q EXCEPT !.bins = r.bins, !.marked = r.marked]
    BY <1>1, <1>2, <1>3, <1>4 DEF UnlinkFree, Pools
  <2>2. r.bins \in [AllocBins -> Seq(Addrs)] /\ r.marked \in SUBSET AllocBins
    BY <1>7, <1>9 DEF Pools
  <2> QED
    BY <2>1, <2>2 DEF Pools
<1>11. r.bins[i] = t /\ \A j \in AllocBins \ {i} : r.bins[j] = q.bins[j]
  BY <1>2, <1>9 DEF Pools
<1>12. Bin(r, F \ {p}, i)
  <2>1. ToSet(t) = {x \in F \ {p} : BinIndex(Size(q.mem, x)) = i}
    BY <1>3, <1>5, <1>7 DEF Bin
  <2> QED
    BY <1>7, <1>8, <1>9, <1>11, <2>1 DEF Bin
<1>13. r.marked = {j \in AllocBins : r.bins[j] # <<>>}
  <2>1. q.marked = {j \in AllocBins : q.bins[j] # <<>>}
    BY DEF Binned
  <2>2. s # <<>>
    BY <1>6 DEF ToSet
  <2> QED
    BY <1>3, <1>9, <1>11, <2>1, <2>2
<1> QED
  <2>1. F \ {p} \in SUBSET Addrs /\ Size(q.mem, p) \in Nat /\ LegalSize(Size(q.mem, p))
    BY DEF Binned
  <2>2. PICK G : G = F \ {p}
    OBVIOUS
  <2>3. G \in SUBSET Addrs /\ F \ {p} = G \ {p} /\ Bin(r, G, i)
    BY <1>12, <2>1, <2>2
  <2>4. AlikeBut(F, G, p) /\ Relinked(q, r, i, p)
    BY <1>1, <1>9, <1>11, <1>13, <2>3 DEF AlikeBut, Relinked
  <2>5. Binned(r, G)
    BY <1>10, <2>1, <2>3, <2>4, BinnedAgain
  <2> QED
    BY <1>9, <1>10, <2>2, <2>5

\* The sizes in a small bin are all the same.
LEMMA SmallBinOneSize ==
  ASSUME NEW m \in Nat, NEW n \in Nat, LegalSize(m), LegalSize(n),
         BinIndex(m) < kNumSmallBins, BinIndex(n) = BinIndex(m)
  PROVE  n = m
<1>1. BinIndex2(m) < 64 /\ BinIndex2(n) = BinIndex2(m)
  BY BinIndexIsTable DEF kNumSmallBins
<1>2. m < 1024
  BY <1>1, SMT DEF BinIndex2
<1>3. n < 1024
  BY <1>1, SMT DEF BinIndex2
<1> QED
  BY <1>1, <1>2, <1>3, SMT DEF BinIndex2, LegalSize, kAlign

\* Where LinkFree puts a chunk the order stays.
LEMMA LinkedIs ==
  ASSUME NEW mem, NEW s \in Seq(Addrs), Distinct(s), Sorted(mem, s),
         NEW p \in Addrs \ ToSet(s), Size(mem, p) \in Nat,
         \A k \in DOMAIN s : Size(mem, s[k]) \in Nat,
         NEW q, q.mem = mem, NEW n, n = Larger(q, s, Size(mem, p)),
         NEW t, t = InsertAt(s, n + 1, p)
  PROVE  t \in Seq(Addrs) /\ Distinct(t) /\ ToSet(t) = ToSet(s) \cup {p} /\ Sorted(mem, t)
<1> DEFINE size == Size(mem, p)
           G == {k \in DOMAIN s : \A j \in 1 .. k : Size(mem, s[j]) > size}
<1>1. Len(s) \in Nat /\ DOMAIN s = 1 .. Len(s)
  OBVIOUS
<1>2. G \in SUBSET (1 .. Len(s)) /\ \A k \in G : \A j \in 1 .. k : j \in G
  BY <1>1
<1>3. n = Cardinality(G)
  BY DEF Larger
<1>4. n \in 0 .. Len(s) /\ G = 1 .. n
  <2> HIDE DEF G
  <2> QED
    BY <1>1, <1>2, <1>3, PrefixCount
<1>5. \A k \in 1 .. n : Size(mem, s[k]) > size
  BY <1>4
<1>6. n + 1 \in DOMAIN s => Size(mem, s[n + 1]) <= size
  <2> SUFFICES ASSUME n + 1 \in DOMAIN s, Size(mem, s[n + 1]) > size
               PROVE  FALSE
    OBVIOUS
  <2>1. \A j \in 1 .. n + 1 : j \in 1 .. n \/ j = n + 1
    BY <1>4
  <2>2. n + 1 \in G
    BY <1>5, <2>1
  <2> QED
    BY <1>4, <2>2
<1>7. \A k \in DOMAIN s : k > n => Size(mem, s[k]) <= size
  <2> SUFFICES ASSUME NEW k \in DOMAIN s, k > n
               PROVE  Size(mem, s[k]) <= size
    OBVIOUS
  <2>1. n + 1 \in DOMAIN s /\ (k = n + 1 \/ n + 1 < k)
    BY <1>1, <1>4
  <2> QED
    BY <1>6, <2>1 DEF Sorted
<1> HIDE DEF size, G
<1>8. n + 1 \in 1 .. Len(s) + 1
  BY <1>1, <1>4
<1>9. /\ t \in Seq(Addrs) /\ Distinct(t) /\ ToSet(t) = ToSet(s) \cup {p} /\ Len(t) = Len(s) + 1
      /\ \A k \in DOMAIN t : t[k] = IF k < n + 1 THEN s[k] ELSE IF k = n + 1 THEN p ELSE s[k - 1]
  BY <1>8, InsertedIs
<1>10. Sorted(mem, t)
  <2> SUFFICES ASSUME NEW j \in DOMAIN t, NEW k \in DOMAIN t, j < k
               PROVE  Size(mem, t[j]) >= Size(mem, t[k])
    BY DEF Sorted
  <2>1. j \in 1 .. Len(s) + 1 /\ k \in 1 .. Len(s) + 1
    BY <1>1, <1>9
  <2>2. CASE j = n + 1
    <3>1. k - 1 \in DOMAIN s /\ k - 1 > n /\ ~(k < n + 1) /\ k # n + 1
      BY <1>1, <1>4, <2>1, <2>2
    <3>2. t[k] = s[k - 1] /\ t[j] = p
      BY <1>9, <2>2, <3>1
    <3> QED
      BY <1>7, <3>1, <3>2 DEF size
  <2>3. CASE k = n + 1
    <3>1. j \in 1 .. n /\ t[j] = s[j] /\ t[k] = p /\ j \in DOMAIN s
      BY <1>1, <1>4, <1>9, <2>1, <2>3
    <3> QED
      BY <1>5, <3>1 DEF size
  <2>4. CASE j # n + 1 /\ k # n + 1
    <3>1. PICK a \in DOMAIN s : t[j] = s[a] /\ a = IF j < n + 1 THEN j ELSE j - 1
      <4>1. (IF j < n + 1 THEN j ELSE j - 1) \in DOMAIN s
        BY <1>1, <1>4, <2>1, <2>4
      <4> QED
        BY <1>9, <2>4, <4>1
    <3>2. PICK b \in DOMAIN s : t[k] = s[b] /\ b = IF k < n + 1 THEN k ELSE k - 1
      <4>1. (IF k < n + 1 THEN k ELSE k - 1) \in DOMAIN s
        BY <1>1, <1>4, <2>1, <2>4
      <4> QED
        BY <1>9, <2>4, <4>1
    <3>3. a < b
      BY <1>1, <1>4, <2>1, <2>4, <3>1, <3>2
    <3> QED
      BY <3>1, <3>2, <3>3 DEF Sorted
  <2> QED
    BY <2>2, <2>3, <2>4
<1> QED
  BY <1>9, <1>10

\* LinkFree puts one more chunk into the bins.
LEMMA LinkFreeIs ==
  ASSUME NEW q \in Pools, NEW F, Binned(q, F), NEW p \in Addrs \ F,
         Size(q.mem, p) \in Nat, LegalSize(Size(q.mem, p)), NEW r, r = LinkFree(q, p)
  PROVE  r \in Pools /\ r.mem = q.mem /\ Binned(r, F \cup {p})
<1>1. PICK i : i = BinIndex(Size(q.mem, p))
  OBVIOUS
<1>2. i \in AllocBins
  BY <1>1, BinIndexInRange
<1>3. PICK s : s = q.bins[i]
  OBVIOUS
<1>4. s \in Seq(Addrs) /\ Bin(q, F, i) /\ p \notin ToSet(s)
  BY <1>2, <1>3 DEF Pools, Binned, Bin
<1>5. Distinct(s) /\ Sorted(q.mem, s)
  BY <1>3, <1>4 DEF Bin
<1>6. \A k \in DOMAIN s : /\ s[k] \in F /\ Size(q.mem, s[k]) \in Nat /\ LegalSize(Size(q.mem, s[k]))
                          /\ BinIndex(Size(q.mem, s[k])) = i
  BY <1>3, <1>4 DEF Bin, ToSet, Binned
<1>7. \E t : /\ t \in Seq(Addrs) /\ Distinct(t) /\ ToSet(t) = ToSet(s) \cup {p} /\ Sorted(q.mem, t)
             /\ r = [q EXCEPT !.bins[i] = t, !.marked = @ \cup {i}]
  <2>1. CASE i < kNumSmallBins \/ s = <<>>
    <3>1. PICK t : t = InFront(s, p)
      OBVIOUS
    <3>2. t \in Seq(Addrs) /\ Distinct(t) /\ ToSet(t) = ToSet(s) \cup {p} /\ Len(t) = Len(s) + 1
      BY <1>4, <1>5, <3>1, InFrontIs
    <3>3. \A k \in DOMAIN s : Size(q.mem, s[k]) = Size(q.mem, p)
      BY <1>1, <1>6, <2>1, SmallBinOneSize
    <3>4. \A k \in DOMAIN t : Size(q.mem, t[k]) = Size(q.mem, p)
      <4>1. \A k \in DOMAIN t : t[k] = p \/ t[k] \in ToSet(s)
        BY <3>2 DEF ToSet
      <4> QED
        BY <3>3, <4>1 DEF ToSet
    <3>5. Sorted(q.mem, t)
      BY <3>4 DEF Sorted
    <3>6. r = [q EXCEPT !.bins[i] = t, !.marked = @ \cup {i}]
      BY <1>1, <1>3, <2>1, <3>1 DEF LinkFree, InFront
    <3> QED
      BY <3>2, <3>5, <3>6
  <2>2. CASE ~(i < kNumSmallBins \/ s = <<>>)
    <3>1. PICK n : n = Larger(q, s, Size(q.mem, p))
      OBVIOUS
    <3>2. PICK t : t = InsertAt(s, n + 1, p)
      OBVIOUS
    <3>3. PICK m : m = q.mem
      OBVIOUS
    <3>4. t \in Seq(Addrs) /\ Distinct(t) /\ ToSet(t) = ToSet(s) \cup {p} /\ Sorted(m, t)
      BY <1>4, <1>5, <1>6, <3>1, <3>2, <3>3, LinkedIs
    <3>5. r = [q EXCEPT !.bins[i] = t]
      BY <1>1, <1>3, <2>2, <3>1, <3>2 DEF LinkFree
    <3>6. i \in q.marked
      BY <1>2, <1>3, <2>2 DEF Binned
    <3>7. [q EXCEPT !.bins[i] = t] = [q EXCEPT !.bins[i] = t, !.marked = @ \cup {i}]
      <4>1. q.marked \cup {i} = q.marked
        BY <3>6
      <4> QED
        BY <4>1 DEF Pools
    <3> QED
      BY <3>3, <3>4, <3>5, <3>7
  <2> QED
    BY <2>1, <2>2
<1>8. PICK t : /\ t \in Seq(Addrs) /\ Distinct(t) /\ ToSet(t) = ToSet(s) \cup {p}
               /\ Sorted(q.mem, t)
               /\ r = [q EXCEPT !.bins[i] = t, !.marked = @ \cup {i}]
  BY <1>7
<1>9. r.mem = q.mem /\ r.bins = [q.bins EXCEPT ![i] = t] /\ r.marked = q.marked \cup {i}
  BY <1>8 DEF Pools
<1>10. r \in Pools
  <2>1. r = [q EXCEPT !.bins = r.bins, !.marked = r.marked]
    BY <1>8, <1>9 DEF Pools
  <2>2. r.bins \in [AllocBins -> Seq(Addrs)] /\ r.marked \in SUBSET AllocBins
    BY <1>2, <1>8, <1>9 DEF Pools
  <2> QED
    BY <2>1, <2>2 DEF Pools
<1>11. r.bins[i] = t /\ \A j \in AllocBins \ {i} : r.bins[j] = q.bins[j]
  BY <1>2, <1>9 DEF Pools
<1>12. Bin(r, F \cup {p}, i)
  <2>1. ToSet(t) = {x \in F \cup {p} : BinIndex(Size(q.mem, x)) = i}
    BY <1>1, <1>3, <1>4, <1>8 DEF Bin
  <2> QED
    BY <1>8, <1>9, <1>11, <2>1 DEF Bin
<1>13. r.marked = {j \in AllocBins : r.bins[j] # <<>>}
  <2>1. q.marked = {j \in AllocBins : q.bins[j] # <<>>}
    BY DEF Binned
  <2>2. t # <<>>
    BY <1>8 DEF ToSet
  <2> QED
    BY <1>2, <1>9, <1>11, <2>1, <2>2
<1> QED
  <2>1. F \cup {p} \in SUBSET Addrs
    BY DEF Binned
  <2>2. PICK G : G = F \cup {p}
    OBVIOUS
  <2>3. G \in SUBSET Addrs /\ F \ {p} = G \ {p} /\ Bin(r, G, i)
    BY <1>12, <2>1, <2>2
  <2>4. AlikeBut(F, G, p) /\ Relinked(q, r, i, p)
    BY <1>1, <1>9, <1>11, <1>13, <2>3 DEF AlikeBut, Relinked
  <2>5. Binned(r, G)
    BY <1>10, <2>3, <2>4, BinnedAgain
  <2> QED
    BY <1>9, <1>10, <2>2, <2>5

-----------------------------------------------------------------------------
(* Layouts *)

\* From b to e the memory is cut into the chunks T: each begins where the one
\* before ends, and has the same tag behind as in front.
Follows(mem, T, e, t) ==
    /\ LegalSize(Size(mem, t))
    /\ NextChunk(mem, t) \in T \cup {e}
    /\ mem[NextChunk(mem, t)].prev = mem[t].size
    /\ \A o \in T : ~(t < o /\ o < NextChunk(mem, t))
Tiled(mem, T, b, e) ==
    /\ T \in SUBSET Addrs /\ b \in T /\ e \in Addrs
    /\ \A t \in T : b <= t /\ t < e
    /\ \A x \in T \cup {e} : IsHeader(mem[x])
    /\ \A t \in T : Follows(mem, T, e, t)
    /\ \A x \in (T \cup {e}) \ {b} : \E o \in T : NextChunk(mem, o) = x

\* The whole area is, between two marks that are not free.
Laid(mem, T) ==
    /\ mem \in Memories
    /\ Tiled(mem, T, 0, AreaSize)
    /\ mem[0].prev = Word(0, TRUE) /\ mem[AreaSize].size = Word(0, TRUE)

\* No free chunk is in front of a free one.
Merged(mem, T) == \A t \in T : ~InUse(mem, t) => InUse(mem, NextChunk(mem, t))

\* The blocks but for B hold no headers.
Within(mem, t) == {a \in Addrs : t < a /\ a < NextChunk(mem, t)}
Clean(mem, T, B) ==
    \A t \in T \ B : InUse(mem, t) => \A a \in Within(mem, t) : ~IsHeader(mem[a])

FreeOf(mem, T) == {t \in T : ~InUse(mem, t)}
UsedOf(mem, T) == {t \in T : InUse(mem, t)}

\* What is plain about the chunks of a layout.
LEMMA ChunkIs ==
  ASSUME NEW mem, NEW T, Laid(mem, T), NEW t \in T
  PROVE  /\ t \in Addrs /\ t \in Nat /\ t < AreaSize /\ mem[t] \in Headers
         /\ Size(mem, t) \in Nat /\ Size(mem, t) \in Sizes /\ Size(mem, t) >= 128
         /\ LegalSize(Size(mem, t)) /\ InUse(mem, t) \in BOOLEAN
         /\ mem[t].size = Word(Size(mem, t), InUse(mem, t))
         /\ NextChunk(mem, t) \in T \cup {AreaSize} /\ NextChunk(mem, t) \in Addrs
         /\ NextChunk(mem, t) = t + Size(mem, t) /\ t < NextChunk(mem, t)
         /\ mem[NextChunk(mem, t)].prev = mem[t].size
         /\ \A o \in T : ~(t < o /\ o < NextChunk(mem, t))
         /\ t \in FreeOf(mem, T) <=> ~InUse(mem, t)
<1>1. /\ t \in Addrs /\ t < AreaSize /\ Follows(mem, T, AreaSize, t) /\ IsHeader(mem[t])
      /\ T \subseteq Addrs
  BY DEF Laid, Tiled
<1>2. mem[t] \in Headers
  BY <1>1, HeaderIs DEF Laid, Memories
<1>3. mem[t].size \in Words
  BY <1>2 DEF Headers
<1>4. /\ Size(mem, t) \in Sizes /\ InUse(mem, t) \in BOOLEAN
      /\ mem[t].size = Word(Size(mem, t), InUse(mem, t))
  BY <1>3 DEF Words, Size, InUse, Word
<1>5. Size(mem, t) \in Nat /\ Size(mem, t) >= 128
  <2>1. Size(mem, t) \in Nat
    BY <1>4, SizesAre
  <2>2. LegalSize(Size(mem, t))
    BY <1>1 DEF Follows
  <2> QED
    BY <2>1, <2>2 DEF LegalSize, kMinAllocSize, kAlign
<1>6. t \in Nat
  BY <1>1, AddrsAre
<1>7. NextChunk(mem, t) = t + Size(mem, t) /\ t < NextChunk(mem, t)
  BY <1>5, <1>6 DEF NextChunk
<1> QED
  BY <1>1, <1>2, <1>4, <1>5, <1>6, <1>7, AddrsAre DEF Follows, FreeOf

\* What is plain about a layout as a whole.
LEMMA LayoutIs ==
  ASSUME NEW mem, NEW T, Laid(mem, T)
  PROVE  /\ mem \in Memories /\ T \in SUBSET Addrs /\ T \cup {AreaSize} \in SUBSET Addrs
         /\ 0 \in T /\ AreaSize \notin T /\ FreeOf(mem, T) \in SUBSET T
         /\ InUse(mem, AreaSize) /\ mem[AreaSize] \in Headers
         /\ \A x \in T \cup {AreaSize} : mem[x] \in Headers /\ IsHeader(mem[x]) /\ x \in Nat
         /\ \A e \in (T \cup {AreaSize}) \ {0} : \E o \in T : NextChunk(mem, o) = e
<1>1. /\ mem \in Memories /\ T \in SUBSET Addrs /\ 0 \in T
      /\ \A x \in T \cup {AreaSize} : IsHeader(mem[x])
      /\ \A e \in (T \cup {AreaSize}) \ {0} : \E o \in T : NextChunk(mem, o) = e
      /\ \A t \in T : t < AreaSize
  BY DEF Laid, Tiled
<1>2. AreaSize \notin T
  BY <1>1, AddrsAre
<1>3. \A x \in T \cup {AreaSize} : x \in Addrs /\ mem[x] \in Headers
  BY <1>1, AddrsAre, HeaderIs DEF Memories
<1>4. InUse(mem, AreaSize)
  BY DEF Laid, InUse, Word
<1> QED
  BY <1>1, <1>2, <1>3, <1>4, AddrsAre DEF FreeOf

\* The chunks from c to e are cut in another way, into S.
Spliced(mem, T, c, e, m, S, T1) ==
    /\ \A a \in Addrs \ (S \cup {e}) : m[a] = mem[a]
    /\ m[c].prev = mem[c].prev /\ m[e].size = mem[e].size
    /\ T1 = {t \in T : t < c \/ e <= t} \cup S

\* Then the area is laid out again.
LEMMA Recut ==
  ASSUME NEW mem, NEW T, Laid(mem, T), NEW c \in T, NEW e \in T \cup {AreaSize},
         NEW m \in Memories, NEW S, Tiled(m, S, c, e), NEW T1, Spliced(mem, T, c, e, m, S, T1)
  PROVE  /\ Laid(m, T1)
         /\ \A t \in T1 \ S : t \in T /\ m[t].size = mem[t].size
<1> USE DEF Spliced
<1> DEFINE Outer == {t \in T : t < c \/ e <= t}
<1>1. /\ T \in SUBSET Addrs /\ S \in SUBSET Addrs /\ e \in Addrs /\ c \in S /\ 0 \in T
      /\ \A t \in T : 0 <= t /\ t < AreaSize
      /\ \A s \in S : c <= s /\ s < e
      /\ \A x \in T \cup {AreaSize} : IsHeader(mem[x])
      /\ \A x \in S \cup {e} : IsHeader(m[x])
      /\ \A t \in T : Follows(mem, T, AreaSize, t)
      /\ \A s \in S : Follows(m, S, e, s)
      /\ \A x \in (T \cup {AreaSize}) \ {0} : \E o \in T : NextChunk(mem, o) = x
      /\ \A x \in (S \cup {e}) \ {c} : \E o \in S : NextChunk(m, o) = x
  BY DEF Laid, Tiled
<1>2. Addrs \subseteq Nat /\ AreaSize \in Addrs
  BY AddrsAre
<1>3. c < e /\ e <= AreaSize
  BY <1>1, <1>2
<1>4. T1 = Outer \cup S
  OBVIOUS
<1>5. ASSUME NEW t \in Outer
      PROVE  /\ t \in T /\ t \in Addrs /\ (t < c \/ e <= t) /\ t \notin S
             /\ m[t].size = mem[t].size
  <2>1. t \notin S
    BY <1>1, <1>2
  <2> QED
    BY <1>1, <2>1
<1>6. ASSUME NEW t \in Outer
      PROVE  Follows(m, T1, AreaSize, t)
  <2>1. PICK n : n = NextChunk(mem, t)
    OBVIOUS
  <2>2. /\ LegalSize(Size(mem, t)) /\ n \in T \cup {AreaSize} /\ mem[n].prev = mem[t].size
        /\ \A o \in T : ~(t < o /\ o < n)
    BY <1>1, <2>1 DEF Follows
  <2>3. Size(m, t) = Size(mem, t) /\ NextChunk(m, t) = n
    BY <1>5, <2>1 DEF Size, NextChunk
  <2>4. t \in Nat /\ n \in Nat /\ c \in Nat /\ e \in Nat /\ t < n
    <3>1. Size(mem, t) \in Nat /\ Size(mem, t) >= 128
      BY <1>5, ChunkIs
    <3> QED
      BY <1>1, <1>2, <1>5, <2>1, <2>2, <3>1 DEF NextChunk
  <2>5. CASE t < c
    <3>1. n <= c /\ n # e
      BY <1>3, <2>2, <2>4, <2>5
    <3>2. n \in T1
      BY <1>1, <1>2, <1>3, <2>2, <2>4, <3>1
    <3>3. m[n].prev = mem[n].prev
      <4>1. CASE n = c
        BY <4>1
      <4>2. CASE n # c
        <5>1. n \in Addrs \ (S \cup {e})
          BY <1>1, <1>2, <2>2, <2>4, <3>1, <4>2
        <5> QED
          BY <5>1
      <4> QED
        BY <4>1, <4>2
    <3>4. \A o \in T1 : ~(t < o /\ o < n)
      BY <1>1, <1>2, <1>4, <2>2, <2>4, <3>1
    <3> QED
      BY <1>5, <2>2, <2>3, <3>2, <3>3, <3>4 DEF Follows
  <2>6. CASE e <= t
    <3>1. n \in Addrs \ (S \cup {e})
      BY <1>1, <1>2, <1>3, <2>2, <2>4, <2>6
    <3>2. n \in T1 \cup {AreaSize}
      BY <2>2, <2>4, <2>6
    <3>3. \A o \in T1 : ~(t < o /\ o < n)
      BY <1>1, <1>2, <1>4, <2>2, <2>4, <2>6
    <3> QED
      BY <1>5, <2>2, <2>3, <3>1, <3>2, <3>3 DEF Follows
  <2> QED
    BY <1>5, <2>5, <2>6
<1>7. ASSUME NEW s \in S
      PROVE  Follows(m, T1, AreaSize, s)
  <2>1. PICK n : n = NextChunk(m, s)
    OBVIOUS
  <2>2. /\ LegalSize(Size(m, s)) /\ n \in S \cup {e} /\ m[n].prev = m[s].size
        /\ \A o \in S : ~(s < o /\ o < n)
    BY <1>1, <2>1 DEF Follows
  <2>3. n \in T1 \cup {AreaSize}
    BY <1>1, <1>2, <2>2
  <2>4. \A o \in T1 : ~(s < o /\ o < n)
    BY <1>1, <1>2, <1>3, <1>4, <2>2
  <2> QED
    BY <2>1, <2>2, <2>3, <2>4 DEF Follows
<1>8. ASSUME NEW x \in (T1 \cup {AreaSize}) \ {0}
      PROVE  \E o \in T1 : NextChunk(m, o) = x
  <2>1. CASE x \in (S \cup {e}) \ {c}
    BY <1>1, <1>4, <2>1
  <2>2. CASE x = c \/ x \notin S \cup {e}
    <3>1. x \in (T \cup {AreaSize}) \ {0} /\ x # e /\ (x <= c \/ e <= x) /\ x \in Nat
      BY <1>1, <1>2, <1>3, <1>4, <2>2
    <3>2. PICK o \in T : NextChunk(mem, o) = x
      BY <1>1, <3>1
    <3>3. o < x /\ \A y \in T : ~(o < y /\ y < x)
      BY <3>2, ChunkIs
    <3>4. ~(c <= o /\ o < e)
      <4> SUFFICES ASSUME c <= o, o < e
                   PROVE  FALSE
        OBVIOUS
      <4>1. c < x /\ e < x
        BY <1>1, <1>2, <1>3, <3>1, <3>3
      <4>2. e \in T
        BY <1>1, <1>2, <1>3, <3>1, <4>1
      <4> QED
        BY <1>2, <3>3, <4>1, <4>2
    <3>5. o \in Outer
      BY <1>1, <1>2, <3>4
    <3>6. NextChunk(m, o) = x
      BY <1>5, <3>2, <3>5 DEF NextChunk, Size
    <3> QED
      BY <1>4, <3>5, <3>6
  <2> QED
    BY <2>1, <2>2
<1>9. ASSUME NEW x \in T1 \cup {AreaSize}
      PROVE  IsHeader(m[x])
  <2>1. CASE x \in S \cup {e}
    BY <1>1, <2>1
  <2>2. CASE x \notin S \cup {e}
    <3>1. x \in Addrs /\ IsHeader(mem[x])
      BY <1>1, <1>2, <1>4, <2>2
    <3> QED
      BY <2>2, <3>1
  <2> QED
    BY <2>1, <2>2
<1>10. T1 \in SUBSET Addrs /\ 0 \in T1 /\ \A t \in T1 : 0 <= t /\ t < AreaSize
  <2>1. 0 < c => 0 \in Outer
    BY <1>1, <1>2
  <2>2. 0 \in T1
    BY <1>1, <1>2, <1>4, <2>1
  <2>3. ASSUME NEW t \in T1
        PROVE  t \in Addrs /\ 0 <= t /\ t < AreaSize
    <3>1. CASE t \in Outer
      BY <1>1, <3>1
    <3>2. CASE t \in S
      <4>1. t \in Nat /\ t < e /\ e \in Nat /\ AreaSize \in Nat
        BY <1>1, <1>2, <3>2
      <4> QED
        BY <1>1, <1>3, <3>2, <4>1
    <3> QED
      BY <1>4, <3>1, <3>2
  <2> QED
    BY <2>2, <2>3
<1>11. m[0].prev = Word(0, TRUE)
  <2>1. mem[0].prev = Word(0, TRUE)
    BY DEF Laid
  <2>2. CASE c = 0
    BY <2>1, <2>2
  <2>3. CASE c # 0
    <3>1. 0 \in Addrs \ (S \cup {e})
      BY <1>1, <1>2, <1>3, <2>3
    <3> QED
      BY <2>1, <3>1
  <2> QED
    BY <2>2, <2>3
<1>12. m[AreaSize].size = Word(0, TRUE)
  <2>1. mem[AreaSize].size = Word(0, TRUE)
    BY DEF Laid
  <2>2. CASE e = AreaSize
    BY <2>1, <2>2
  <2>3. CASE e # AreaSize
    <3>1. AreaSize \in Addrs \ (S \cup {e})
      BY <1>1, <1>2, <1>3, <2>3
    <3> QED
      BY <2>1, <3>1
  <2> QED
    BY <2>2, <2>3
<1>13. \A t \in T1 : Follows(m, T1, AreaSize, t)
  BY <1>4, <1>6, <1>7
<1>14. Laid(m, T1)
  BY <1>2, <1>8, <1>9, <1>10, <1>11, <1>12, <1>13 DEF Laid, Tiled
<1> QED
  BY <1>4, <1>5, <1>14

\* One chunk from c to e.
OneChunk(mem, T, c, e, size, flag, m, T1) ==
    /\ c < e /\ size = e - c
    /\ m = SetSize(mem, c, size, flag)
    /\ T1 = {t \in T : t < c \/ e <= t} \cup {c}

\* SetSize of what several chunks were makes them one.
LEMMA RecutOne ==
  ASSUME NEW mem, NEW T, Laid(mem, T), NEW c \in T, NEW e \in T \cup {AreaSize},
         NEW flag \in BOOLEAN, NEW size, NEW m, NEW T1, OneChunk(mem, T, c, e, size, flag, m, T1)
  PROVE  /\ Laid(m, T1) /\ c \in T1 /\ e \in T1 \cup {AreaSize}
         /\ size \in Sizes \ {0} /\ LegalSize(size) /\ size \in Nat
         /\ m[c].size = Word(size, flag) /\ NextChunk(m, c) = e
         /\ \A t \in T1 \ {c} : t \in T /\ m[t].size = mem[t].size
         /\ \A a \in Addrs \ {c, e} : m[a] = mem[a]
<1> USE DEF OneChunk
<1>1. /\ mem \in Memories /\ c \in Addrs /\ e \in Addrs /\ c \in Nat /\ e \in Nat
      /\ IsHeader(mem[c]) /\ IsHeader(mem[e])
  BY LayoutIs
<1>2. size \in Sizes \ {0} /\ LegalSize(size) /\ size \in Nat /\ size >= 128
  <2>1. PICK n : n = NextChunk(mem, c)
    OBVIOUS
  <2>2. n \in T \cup {AreaSize} /\ n \in Nat /\ n - c >= 128 /\ \A o \in T : ~(c < o /\ o < n)
    BY <1>1, <2>1, ChunkIs
  <2>3. n <= e
    <3>1. \A x \in T : x < AreaSize
      BY ChunkIs
    <3>2. e = AreaSize => n <= e
      BY <1>1, <2>2, <3>1
    <3>3. e \in T => n <= e
      BY <1>1, <2>2
    <3> QED
      BY <3>2, <3>3
  <2>4. e - c >= 128
    BY <1>1, <2>2, <2>3
  <2>5. LegalSize(e - c) /\ e - c \in Sizes
    BY <1>1, <2>4, Distance DEF kMinAllocSize, kAlign
  <2> QED
    BY <1>1, <2>4, <2>5
<1>3. c + size = e
  BY <1>1
<1>4. /\ m \in Memories
      /\ m[c] \in Headers /\ m[e] \in Headers
      /\ m[c].size = Word(size, flag) /\ m[e].prev = Word(size, flag)
      /\ m[c].prev = mem[c].prev /\ m[e].size = mem[e].size
      /\ \A a \in Addrs \ {c, e} : m[a] = mem[a]
  BY <1>1, <1>2, <1>3, SetSizeIs
<1>5. Size(m, c) = size /\ NextChunk(m, c) = e
  BY <1>3, <1>4 DEF Size, NextChunk, Word
<1>6. PICK S : S = {c}
  OBVIOUS
<1>7. Follows(m, S, e, c)
  BY <1>1, <1>2, <1>4, <1>5, <1>6 DEF Follows
<1>8. Tiled(m, S, c, e)
  <2>1. IsHeader(m[c]) /\ IsHeader(m[e])
    BY <1>4, HeaderIs
  <2> QED
    BY <1>1, <1>5, <1>6, <1>7, <2>1 DEF Tiled
<1>9. \A a \in Addrs \ (S \cup {e}) : m[a] = mem[a]
  BY <1>4, <1>6
<1>10. T1 = {t \in T : t < c \/ e <= t} \cup S
  BY <1>6
<1>11. Laid(m, T1) /\ \A t \in T1 \ S : t \in T /\ m[t].size = mem[t].size
  <2>1. Spliced(mem, T, c, e, m, S, T1)
    BY <1>4, <1>9, <1>10 DEF Spliced
  <2>2. Laid(mem, T) /\ c \in T /\ e \in T \cup {AreaSize} /\ m \in Memories
    BY <1>4
  <2> QED
    BY <1>8, <2>1, <2>2, Recut
<1>12. e \in T1 \cup {AreaSize}
  BY <1>1
<1> QED
  BY <1>2, <1>4, <1>5, <1>6, <1>11, <1>12

\* Two, from c to d and from d to e.
TwoChunks(mem, T, c, d, e, s1, s2, f1, f2, m1, m, T1) ==
    /\ d - c >= 128 /\ e - d >= 128 /\ s1 = d - c /\ s2 = e - d
    /\ m1 = SetSize(mem, d, s2, f2) /\ m = SetSize(m1, c, s1, f1)
    /\ T1 = {t \in T : t < c \/ e <= t} \cup {c, d}

\* The same for two chunks, the second written first.
LEMMA RecutTwo ==
  ASSUME NEW mem, NEW T, Laid(mem, T), NEW c \in T, NEW e \in T \cup {AreaSize}, NEW d \in Addrs,
         NEW f1 \in BOOLEAN, NEW f2 \in BOOLEAN, NEW s1, NEW s2, NEW m1, NEW m, NEW T1,
         TwoChunks(mem, T, c, d, e, s1, s2, f1, f2, m1, m, T1)
  PROVE  /\ m1 \in Memories /\ \A t \in Addrs \ {d} : IsHeader(mem[t]) => m1[t].size = mem[t].size
         /\ m1[d].size = Word(s2, f2)
         /\ Laid(m, T1) /\ c \in T1 /\ d \in T1 /\ e \in T1 \cup {AreaSize} /\ c < d /\ d < e
         /\ s1 \in Nat /\ LegalSize(s1) /\ s2 \in Nat /\ LegalSize(s2)
         /\ m[c].size = Word(s1, f1) /\ m[d].size = Word(s2, f2)
         /\ NextChunk(m, c) = d /\ NextChunk(m, d) = e
         /\ \A t \in T1 \ {c, d} : t \in T /\ m[t].size = mem[t].size
         /\ \A a \in Addrs \ {c, d, e} : m[a] = mem[a]
<1> USE DEF TwoChunks
<1>1. /\ mem \in Memories /\ c \in Addrs /\ e \in Addrs /\ c \in Nat /\ e \in Nat /\ d \in Nat
      /\ IsHeader(mem[c]) /\ IsHeader(mem[e])
  BY LayoutIs, AddrsAre
<1>2. s1 \in Sizes \ {0} /\ LegalSize(s1) /\ s1 \in Nat /\ s1 >= 128
  <2>1. LegalSize(d - c) /\ d - c \in Sizes
    BY <1>1, Distance DEF kMinAllocSize, kAlign
  <2> QED
    BY <1>1, <2>1
<1>3. s2 \in Sizes \ {0} /\ LegalSize(s2) /\ s2 \in Nat /\ s2 >= 128
  <2>1. LegalSize(e - d) /\ e - d \in Sizes
    BY <1>1, Distance DEF kMinAllocSize, kAlign
  <2> QED
    BY <1>1, <2>1
<1>4. c + s1 = d /\ d + s2 = e /\ c < d /\ d < e
  BY <1>1
<1>5. /\ m1 \in Memories
      /\ m1[d] \in Headers /\ m1[e] \in Headers
      /\ m1[d].size = Word(s2, f2) /\ m1[e].prev = Word(s2, f2)
      /\ m1[e].size = mem[e].size
      /\ \A a \in Addrs \ {d, e} : m1[a] = mem[a]
  BY <1>1, <1>3, <1>4, SetSizeIs
<1>6. IsHeader(m1[c]) /\ IsHeader(m1[d]) /\ m1[c] = mem[c]
  <2>1. c \in Addrs \ {d, e}
    BY <1>1, <1>4
  <2> QED
    BY <1>1, <1>5, <2>1, HeaderIs
<1>7. /\ m \in Memories
      /\ m[c] \in Headers /\ m[d] \in Headers
      /\ m[c].size = Word(s1, f1) /\ m[d].prev = Word(s1, f1)
      /\ m[c].prev = m1[c].prev /\ m[d].size = m1[d].size
      /\ \A a \in Addrs \ {c, d} : m[a] = m1[a]
  <2>1. c + s1 \in Addrs /\ IsHeader(m1[c + s1]) /\ IsHeader(m1[c])
    BY <1>4, <1>6
  <2>2. /\ m \in Memories
        /\ m[c] \in Headers /\ m[c + s1] \in Headers
        /\ m[c].size = Word(s1, f1) /\ m[c + s1].prev = Word(s1, f1)
        /\ m[c].prev = m1[c].prev /\ m[c + s1].size = m1[c + s1].size
        /\ \A a \in Addrs \ {c, c + s1} : m[a] = m1[a]
    BY <1>1, <1>2, <1>5, <2>1, SetSizeIs
  <2> QED
    BY <1>4, <2>2
<1>8. m[e] = m1[e]
  BY <1>1, <1>4, <1>7
<1>9. Size(m, c) = s1 /\ NextChunk(m, c) = d /\ Size(m, d) = s2 /\ NextChunk(m, d) = e
  BY <1>4, <1>5, <1>7 DEF Size, NextChunk, Word
<1>10. PICK S : S = {c, d}
  OBVIOUS
<1>11. Follows(m, S, e, c)
  BY <1>1, <1>2, <1>4, <1>7, <1>9, <1>10 DEF Follows
<1>12. Follows(m, S, e, d)
  BY <1>1, <1>3, <1>4, <1>5, <1>7, <1>8, <1>9, <1>10 DEF Follows
<1>13. Tiled(m, S, c, e)
  <2>1. IsHeader(m[c]) /\ IsHeader(m[d]) /\ IsHeader(m[e])
    BY <1>5, <1>7, <1>8, HeaderIs
  <2>2. \A x \in S : c <= x /\ x < e
    BY <1>1, <1>4, <1>10
  <2>3. \A x \in (S \cup {e}) \ {c} : \E o \in S : NextChunk(m, o) = x
    BY <1>9, <1>10
  <2> QED
    BY <1>1, <1>10, <1>11, <1>12, <2>1, <2>2, <2>3 DEF Tiled
<1>14. \A a \in Addrs \ (S \cup {e}) : m[a] = mem[a]
  BY <1>5, <1>7, <1>10
<1>15. T1 = {t \in T : t < c \/ e <= t} \cup S
  BY <1>10
<1>16. Laid(m, T1) /\ \A t \in T1 \ S : t \in T /\ m[t].size = mem[t].size
  <2>1. m[c].prev = mem[c].prev /\ m[e].size = mem[e].size
    BY <1>5, <1>6, <1>7, <1>8
  <2>2. m \in Memories
    BY <1>7
  <2> QED
    <3>1. Spliced(mem, T, c, e, m, S, T1)
      BY <1>14, <1>15, <2>1 DEF Spliced
    <3>2. Laid(mem, T) /\ c \in T /\ e \in T \cup {AreaSize}
      OBVIOUS
    <3> QED
      BY <1>13, <2>2, <3>1, <3>2, Recut
<1>17. c \in T1 /\ d \in T1 /\ e \in T1 \cup {AreaSize}
  BY <1>1
<1>18. \A t \in Addrs \ {d} : m1[t].size = mem[t].size
  BY <1>5
<1> QED
  BY <1>2, <1>3, <1>4, <1>5, <1>7, <1>9, <1>10, <1>14, <1>16, <1>17, <1>18

\* A block whose owner finds all as it was.
Untouched(mem, m, t) == m[t].size = mem[t].size /\ \A a \in Within(mem, t) : m[a] = mem[a]

\* A new cut that changes the cells D, and the sizes of the chunks S.
SameBut(mem, m, D) == \A a \in Addrs \ D : m[a] = mem[a]
SameSizesBut(mem, T, m, T1, S) == \A t \in T1 \ S : t \in T /\ m[t].size = mem[t].size

\* What it leaves alone.
LEMMA RecutKeeps ==
  ASSUME NEW mem, NEW T, Laid(mem, T), NEW m, NEW T1, Laid(m, T1),
         NEW S, SameSizesBut(mem, T, m, T1, S),
         NEW D \in SUBSET (T1 \cup {AreaSize}), SameBut(mem, m, D)
  PROVE  /\ \A t \in T1 \ S : /\ t \in T /\ Untouched(mem, m, t)
                              /\ Size(m, t) = Size(mem, t) /\ InUse(m, t) = InUse(mem, t)
                              /\ NextChunk(m, t) = NextChunk(mem, t)
                              /\ Within(m, t) = Within(mem, t)
         /\ \A B : Clean(mem, T, B) => Clean(m, T1, B \cup S)
<1>1. ASSUME NEW t \in T1 \ S
      PROVE  /\ t \in T /\ Untouched(mem, m, t)
             /\ Size(m, t) = Size(mem, t) /\ InUse(m, t) = InUse(mem, t)
             /\ NextChunk(m, t) = NextChunk(mem, t)
             /\ Within(m, t) = Within(mem, t)
  <2>0. t \in T /\ m[t].size = mem[t].size
    BY DEF SameSizesBut
  <2>1. /\ Size(m, t) = Size(mem, t) /\ InUse(m, t) = InUse(mem, t)
        /\ NextChunk(m, t) = NextChunk(mem, t)
    BY <2>0 DEF Size, InUse, NextChunk
  <2>2. Within(m, t) = Within(mem, t)
    BY <2>1 DEF Within
  <2>3. ASSUME NEW a \in Within(mem, t)
        PROVE  m[a] = mem[a]
    <3>1. a \in Addrs /\ t < a /\ a < NextChunk(m, t)
      BY <2>1 DEF Within
    <3>2. /\ \A o \in T1 : ~(t < o /\ o < NextChunk(m, t))
          /\ NextChunk(m, t) \in Addrs
      BY ChunkIs
    <3>3. a \notin T1
      BY <3>1, <3>2
    <3>4. a # AreaSize
      BY <3>1, <3>2, AddrsAre
    <3> QED
      BY <3>1, <3>3, <3>4 DEF SameBut
  <2> QED
    BY <2>0, <2>1, <2>2, <2>3 DEF Untouched
<1>2. ASSUME NEW B, Clean(mem, T, B)
      PROVE  Clean(m, T1, B \cup S)
  BY <1>1, <1>2 DEF Clean, Untouched
<1> QED
  BY <1>1, <1>2

\* The chunk that FreeChunk merges with in front, and the one behind.
MergedFrom(mem, p) == IF PrevInUse(mem, p) THEN p ELSE PrevChunk(mem, p)
MergedUpTo(mem, p) == IF InUse(mem, NextChunk(mem, p)) THEN NextChunk(mem, p)
                  ELSE NextChunk(mem, NextChunk(mem, p))

\* The chunk where the merged one begins: p, or the free one before it.
LEMMA FrontIs ==
  ASSUME NEW mem, NEW T, Laid(mem, T), Merged(mem, T), NEW p \in T, NEW c, c = MergedFrom(mem, p)
  PROVE  /\ c \in T /\ c <= p /\ \A o \in T : ~(c < o /\ o < p)
         /\ c # p => c \in FreeOf(mem, T) /\ c < p /\ NextChunk(mem, c) = p
         /\ InUse(mem, p) => \A t \in T : NextChunk(mem, t) = c => InUse(mem, t)
<1>1. p \in Nat /\ 0 \in T /\ \A o \in T : o \in Nat
  BY LayoutIs
<1>2. CASE p = 0
  <2>1. c = p
    BY <1>2 DEF MergedFrom, PrevInUse, Laid, Word
  <2>2. \A t \in T : NextChunk(mem, t) # 0
    BY ChunkIs
  <2>3. c <= p /\ \A x \in T : ~(c < x /\ x < p)
    BY <1>1, <2>1
  <2> QED
    BY <1>2, <2>1, <2>2, <2>3
<1>3. CASE p # 0
  <2>1. PICK o \in T : NextChunk(mem, o) = p
    BY <1>3, LayoutIs
  <2>2. /\ mem[p].prev = mem[o].size /\ p = o + Size(mem, o) /\ o < p /\ o \in Nat
        /\ Size(mem, o) \in Nat /\ \A x \in T : ~(o < x /\ x < p)
    BY <2>1, ChunkIs
  <2>3. (PrevInUse(mem, p) <=> InUse(mem, o)) /\ PrevChunk(mem, p) = o
    BY <2>2 DEF PrevInUse, InUse, PrevChunk, PrevSize, Size
  <2>4. \A t \in T : NextChunk(mem, t) = p => (InUse(mem, t) <=> InUse(mem, o))
    <3>1. \A t \in T : NextChunk(mem, t) = p => mem[p].prev = mem[t].size
      BY ChunkIs
    <3> QED
      BY <2>2, <3>1 DEF InUse
  <2>5. CASE InUse(mem, o)
    <3>1. c = p
      BY <2>3, <2>5 DEF MergedFrom
    <3>2. \A t \in T : NextChunk(mem, t) = c => InUse(mem, t)
      BY <2>4, <2>5, <3>1
    <3>3. c <= p /\ \A x \in T : ~(c < x /\ x < p)
      BY <1>1, <3>1
    <3> QED
      BY <3>1, <3>2, <3>3
  <2>6. CASE ~InUse(mem, o)
    <3>1. c = o /\ c \in FreeOf(mem, T)
      BY <2>3, <2>6 DEF MergedFrom, FreeOf
    <3>2. \A t \in T : NextChunk(mem, t) = c => InUse(mem, t)
      BY <2>6, <3>1 DEF Merged
    <3> QED
      BY <1>1, <2>1, <2>2, <3>1, <3>2
  <2> QED
    BY <2>5, <2>6
<1> QED
  BY <1>2, <1>3

\* Where the merged chunk ends: behind p, or behind the free one after it.
LEMMA BehindIs ==
  ASSUME NEW mem, NEW T, Laid(mem, T), Merged(mem, T), NEW p \in T,
         NEW n, n = NextChunk(mem, p), NEW e, e = MergedUpTo(mem, p)
  PROVE  /\ e \in T \cup {AreaSize} /\ n <= e /\ p < n /\ InUse(mem, e) /\ n \in T \cup {AreaSize}
         /\ \A o \in T : ~(p < o /\ o < n) /\ ~(n < o /\ o < e)
         /\ \/ InUse(mem, n) /\ e = n
            \/ ~InUse(mem, n) /\ n \in FreeOf(mem, T) /\ e = NextChunk(mem, n)
<1>1. /\ n \in T \cup {AreaSize} /\ p < n /\ n \in Nat
      /\ \A o \in T : ~(p < o /\ o < n)
  BY ChunkIs, LayoutIs
<1>2. CASE InUse(mem, n)
  <2>1. e = n
    BY <1>2 DEF MergedUpTo
  <2> QED
    BY <1>1, <1>2, <2>1, LayoutIs
<1>3. CASE ~InUse(mem, n)
  <2>1. n \in T
    BY <1>1, <1>3, LayoutIs
  <2>2. e = NextChunk(mem, n)
    BY <1>3 DEF MergedUpTo
  <2>3. n \in FreeOf(mem, T) /\ InUse(mem, e)
    BY <1>3, <2>1, <2>2 DEF FreeOf, Merged
  <2>4. e \in T \cup {AreaSize} /\ n < e /\ e \in Nat /\ \A o \in T : ~(n < o /\ o < e)
    BY <2>1, <2>2, ChunkIs, LayoutIs
  <2> QED
    BY <1>1, <1>3, <2>2, <2>3, <2>4
<1> QED
  BY <1>2, <1>3

-----------------------------------------------------------------------------
(* The pool between two calls, and within one *)

\* What holds of the pool, with the chunks T, but for what is in the blocks B.
Sound(q, T, B) ==
    /\ q \in Pools
    /\ Laid(q.mem, T)
    /\ Merged(q.mem, T)
    /\ Clean(q.mem, T, B)
    /\ Binned(q, FreeOf(q.mem, T))

\* r is q without the block p, and no other block notices.
GivenBack(q, T, B, p, r) ==
    \E T1 : /\ Sound(r, T1, B)
            /\ UsedOf(r.mem, T1) = UsedOf(q.mem, T) \ {p}
            /\ \A t \in UsedOf(q.mem, T) \ {p} : Untouched(q.mem, r.mem, t)

\* FreeChunk merges p with its free neighbours, and no more.
LEMMA FreeChunkIs ==
  ASSUME NEW q, NEW T, NEW B, NEW p \in T, Sound(q, T, B \cup {p}), InUse(q.mem, p),
         NEW r, r = FreeChunk(q, p)
  PROVE  GivenBack(q, T, B, p, r)
<1> SUFFICES \E T1 : /\ Sound(r, T1, B)
                     /\ UsedOf(r.mem, T1) = UsedOf(q.mem, T) \ {p}
                     /\ \A t \in UsedOf(q.mem, T) \ {p} : Untouched(q.mem, r.mem, t)
  BY DEF GivenBack
<1> DEFINE F == FreeOf(q.mem, T)
<1>1. /\ q \in Pools /\ Laid(q.mem, T) /\ Merged(q.mem, T) /\ Clean(q.mem, T, B \cup {p})
      /\ Binned(q, F)
  BY DEF Sound
<1>2. PICK mem : mem = q.mem
  OBVIOUS
<1>3. PICK n : n = NextChunk(mem, p)
  OBVIOUS
<1>4. PICK c : c = MergedFrom(mem, p)
  OBVIOUS
<1>5. PICK e : e = MergedUpTo(mem, p)
  OBVIOUS
<1>6. /\ Laid(mem, T) /\ Merged(mem, T) /\ InUse(mem, p) /\ Clean(mem, T, B \cup {p})
      /\ F = FreeOf(mem, T)
  BY <1>1, <1>2
<1> HIDE DEF F
<1>7. /\ c \in T /\ c <= p /\ \A o \in T : ~(c < o /\ o < p)
      /\ c # p => c \in F /\ c < p /\ NextChunk(mem, c) = p
      /\ \A t \in T : NextChunk(mem, t) = c => InUse(mem, t)
  BY <1>4, <1>6, FrontIs
<1>8. /\ e \in T \cup {AreaSize} /\ n <= e /\ p < n /\ InUse(mem, e) /\ n \in T \cup {AreaSize}
      /\ \A o \in T : ~(p < o /\ o < n) /\ ~(n < o /\ o < e)
      /\ \/ InUse(mem, n) /\ e = n
         \/ ~InUse(mem, n) /\ n \in F /\ e = NextChunk(mem, n)
  BY <1>3, <1>5, <1>6, BehindIs
<1>9. /\ T \in SUBSET Nat /\ n \in Nat /\ e \in Nat /\ c < e /\ T \cup {AreaSize} \in SUBSET Addrs
      /\ c \in Nat /\ p \in Nat
  BY <1>6, <1>7, <1>8, LayoutIs
<1>10. PICK back : back = IF c = p THEN q ELSE UnlinkFree(q, c)
  OBVIOUS
<1>11. PICK G1 : G1 = F \ {c}
  OBVIOUS
<1>12. back \in Pools /\ back.mem = mem /\ Binned(back, G1)
  <2>1. CASE c = p
    <3>1. G1 = F
      BY <1>6, <1>11, <2>1 DEF FreeOf
    <3> QED
      BY <1>1, <1>2, <1>10, <2>1, <3>1
  <2>2. CASE c # p
    BY <1>1, <1>2, <1>7, <1>10, <1>11, <2>2, UnlinkFreeIs
  <2> QED
    BY <2>1, <2>2
<1>13. PICK forth : forth = IF InUse(mem, n) THEN back ELSE UnlinkFree(back, n)
  OBVIOUS
<1>14. PICK G : G = F \ {c, n}
  OBVIOUS
<1>15. forth \in Pools /\ forth.mem = mem /\ Binned(forth, G)
  <2>1. CASE InUse(mem, n)
    <3>1. G = G1
      BY <1>6, <1>11, <1>14, <2>1 DEF FreeOf
    <3> QED
      BY <1>12, <1>13, <2>1, <3>1
  <2>2. CASE ~InUse(mem, n)
    <3>1. n \in G1
      BY <1>7, <1>8, <1>9, <1>11, <2>2
    <3>2. /\ UnlinkFree(back, n) \in Pools /\ UnlinkFree(back, n).mem = back.mem
          /\ Binned(UnlinkFree(back, n), G1 \ {n})
      BY <1>12, <3>1, UnlinkFreeIs
    <3>3. G = G1 \ {n}
      BY <1>11, <1>14
    <3> QED
      BY <1>12, <1>13, <2>2, <3>2, <3>3
  <2> QED
    BY <2>1, <2>2
<1>16. PICK size : size = e - c
  OBVIOUS
<1>a. PICK flag \in BOOLEAN : flag = FALSE
  OBVIOUS
<1>17. PICK m : m = SetSize(mem, c, size, flag)
  OBVIOUS
<1>18. PICK cut : cut = WithMem(forth, m)
  OBVIOUS
<1>19. r = LinkFree(cut, c)
  BY <1>2, <1>3, <1>4, <1>5, <1>10, <1>13, <1>15, <1>16, <1>a, <1>17, <1>18
     DEF FreeChunk, MergedFrom, MergedUpTo
<1>20. PICK T1 : T1 = {t \in T : t < c \/ e <= t} \cup {c}
  OBVIOUS
<1>21. /\ Laid(m, T1) /\ c \in T1 /\ e \in T1 \cup {AreaSize}
       /\ size \in Sizes \ {0} /\ LegalSize(size) /\ size \in Nat
       /\ m[c].size = Word(size, flag) /\ NextChunk(m, c) = e
       /\ \A t \in T1 \ {c} : t \in T /\ m[t].size = mem[t].size
       /\ \A a \in Addrs \ {c, e} : m[a] = mem[a]
  <2>1. OneChunk(mem, T, c, e, size, flag, m, T1)
    BY <1>9, <1>16, <1>17, <1>20 DEF OneChunk
  <2>2. Laid(mem, T) /\ c \in T /\ e \in T \cup {AreaSize} /\ flag \in BOOLEAN
    BY <1>6, <1>7, <1>8, <1>a
  <2> QED
    BY <2>1, <2>2, RecutOne
<1>22. PICK S : S = {c}
  OBVIOUS
<1>23. /\ \A t \in T1 \ S : /\ t \in T /\ Untouched(mem, m, t)
                            /\ Size(m, t) = Size(mem, t) /\ InUse(m, t) = InUse(mem, t)
                            /\ NextChunk(m, t) = NextChunk(mem, t)
                            /\ Within(m, t) = Within(mem, t)
       /\ \A C : Clean(mem, T, C) => Clean(m, T1, C \cup S)
  <2>1. PICK D : D = {c, e}
    OBVIOUS
  <2>2. SameSizesBut(mem, T, m, T1, S) /\ SameBut(mem, m, D)
    BY <1>21, <1>22, <2>1 DEF SameSizesBut, SameBut
  <2>3. Laid(mem, T) /\ Laid(m, T1) /\ D \in SUBSET (T1 \cup {AreaSize})
    BY <1>6, <1>21, <2>1
  <2>4. \A t \in T1 \ S : /\ t \in T /\ Untouched(mem, m, t)
                          /\ Size(m, t) = Size(mem, t) /\ InUse(m, t) = InUse(mem, t)
                          /\ NextChunk(m, t) = NextChunk(mem, t)
                          /\ Within(m, t) = Within(mem, t)
    BY <2>2, <2>3, RecutKeeps
  <2>5. \A C : Clean(mem, T, C) => Clean(m, T1, C \cup S)
    BY <2>2, <2>3, RecutKeeps
  <2> QED
    BY <2>4, <2>5
<1>24. Size(m, c) = size /\ ~InUse(m, c)
  BY <1>a, <1>21 DEF Size, InUse, Word
\* What lies between c and e.
<1>25. \A t \in T : t \in T1 \/ t = p \/ (t = n /\ t \in F)
  <2> SUFFICES ASSUME NEW t \in T, ~(t < c), ~(e <= t), t # c
               PROVE  t = p \/ (t = n /\ t \in F)
    BY <1>20
  <2>1. t \in Nat /\ c < t /\ t < e
    BY <1>9
  <2>2. t = p \/ p < t
    BY <1>7, <1>9, <2>1
  <2>3. p < t => n <= t
    BY <1>8, <1>9, <2>1
  <2>4. n <= t => t = n /\ t \in F
    BY <1>8, <1>9, <2>1
  <2> QED
    BY <2>2, <2>3, <2>4
<1>26. p \in T1 => p = c
  BY <1>7, <1>8, <1>9, <1>20
<1>27. n \in F => n \notin T1
  <2> SUFFICES ASSUME n \in F
               PROVE  n \notin T1
    OBVIOUS
  <2>1. n \in T /\ ~InUse(mem, n)
    BY <1>6 DEF FreeOf
  <2>2. n < e
    BY <1>6, <1>8, <2>1, ChunkIs
  <2> QED
    BY <1>7, <1>8, <1>9, <1>20, <2>2
<1>28. FreeOf(m, T1) = G \cup {c}
  <2>1. ASSUME NEW t \in T1 \ {c}
        PROVE  t \in FreeOf(m, T1) <=> t \in G
    <3>1. t \in T /\ (InUse(m, t) <=> InUse(mem, t))
      BY <1>22, <1>23
    <3>2. t \in F <=> ~InUse(mem, t)
      BY <1>6, <3>1 DEF FreeOf
    <3>3. t \in F => t # n
      BY <1>27
    <3> QED
      BY <1>14, <3>1, <3>2, <3>3 DEF FreeOf
  <2>2. c \in FreeOf(m, T1)
    BY <1>21, <1>24 DEF FreeOf
  <2>3. G \subseteq T1
    <3>1. \A t \in G : t \in F /\ t \in T /\ t # p /\ t # n
      BY <1>6, <1>14 DEF FreeOf
    <3> QED
      BY <1>25, <3>1
  <2> QED
    BY <1>14, <2>1, <2>2, <2>3 DEF FreeOf
<1>29. cut \in Pools /\ cut.mem = m /\ Binned(cut, G)
  <2>1. \A t \in G : m[t].size = forth.mem[t].size
    <3>1. \A t \in G : t \in T1 \ {c}
      BY <1>14, <1>28 DEF FreeOf
    <3> QED
      BY <1>15, <1>21, <3>1
  <2>2. m \in Memories
    BY <1>21 DEF Laid
  <2> QED
    BY <1>15, <1>18, <2>1, <2>2, WithMemIs
<1>30. r \in Pools /\ r.mem = m /\ Binned(r, FreeOf(m, T1))
  <2>1. c \in Addrs \ G
    BY <1>7, <1>9, <1>14
  <2>2. Size(cut.mem, c) \in Nat /\ LegalSize(Size(cut.mem, c))
    BY <1>21, <1>24, <1>29
  <2> QED
    BY <1>19, <1>28, <1>29, <2>1, <2>2, LinkFreeIs
<1>31. ASSUME NEW x \in T1 \cup {AreaSize}, x # c
       PROVE  InUse(m, x) <=> InUse(mem, x)
  <2>1. CASE x \in T1
    BY <1>22, <1>23, <1>31, <2>1
  <2>2. CASE x = AreaSize
    BY <1>6, <1>21, <2>2, LayoutIs
  <2> QED
    BY <1>31, <2>1, <2>2
<1>32. Merged(m, T1)
  <2> SUFFICES ASSUME NEW t \in T1, ~InUse(m, t)
               PROVE  InUse(m, NextChunk(m, t))
    BY DEF Merged
  <2>1. CASE t = c
    <3>1. e # c
      BY <1>9
    <3> QED
      BY <1>8, <1>21, <1>31, <2>1, <3>1
  <2>2. CASE t # c
    <3>1. t \in T /\ ~InUse(mem, t) /\ NextChunk(m, t) = NextChunk(mem, t)
      BY <1>22, <1>23, <1>31, <2>2
    <3>2. InUse(mem, NextChunk(mem, t)) /\ NextChunk(mem, t) # c
      BY <1>6, <1>7, <3>1 DEF Merged
    <3>3. NextChunk(m, t) \in T1 \cup {AreaSize}
      BY <1>21, ChunkIs
    <3> QED
      BY <1>31, <3>1, <3>2, <3>3
  <2> QED
    BY <2>1, <2>2
<1>33. Clean(m, T1, B)
  <2>1. Clean(m, T1, (B \cup {p}) \cup S)
    BY <1>6, <1>23
  <2> SUFFICES ASSUME NEW t \in T1 \ B, InUse(m, t)
               PROVE  \A a \in Within(m, t) : ~IsHeader(m[a])
    BY DEF Clean
  <2>2. t # c /\ t # p
    BY <1>24, <1>26
  <2> QED
    BY <1>22, <2>1, <2>2 DEF Clean
<1>34. UsedOf(m, T1) = UsedOf(mem, T) \ {p}
  <2>1. ASSUME NEW t \in T1, InUse(m, t)
        PROVE  t \in T /\ InUse(mem, t) /\ t # p
    BY <1>22, <1>23, <1>24, <1>26, <2>1
  <2>2. ASSUME NEW t \in T, InUse(mem, t), t # p
        PROVE  t \in T1 /\ InUse(m, t)
    <3>1. t \notin F
      BY <1>6, <2>2 DEF FreeOf
    <3>2. t \in T1
      BY <1>25, <2>2, <3>1
    <3>3. t # c
      BY <1>7, <2>2, <3>1
    <3> QED
      BY <1>31, <2>2, <3>2, <3>3
  <2> QED
    BY <2>1, <2>2 DEF UsedOf
<1>35. \A t \in UsedOf(mem, T) \ {p} : Untouched(mem, m, t)
  BY <1>22, <1>23, <1>24, <1>34 DEF UsedOf
<1> QED
  BY <1>2, <1>21, <1>30, <1>32, <1>33, <1>34, <1>35 DEF Sound

-----------------------------------------------------------------------------
(* Alloc *)

\* The smallest of the chunks F that fit, or none if none does.
Best(mem, F, size, p) ==
    \/ p = NULL /\ \A f \in F : ~(Size(mem, f) >= size)
    \/ /\ p \in F /\ Size(mem, p) >= size
       /\ \A f \in F : Size(mem, f) >= size => Size(mem, p) <= Size(mem, f)

\* The remainders of these chunks are in the range of an int.
Measured(mem, F, size) == size <= IntRange /\ \A f \in F : Size(mem, f) <= AreaSize

\* FirstFit finds the smallest chunk of one bin that fits.
LEMMA FirstFitIs ==
  ASSUME NEW q \in Pools, NEW F, Binned(q, F), NEW i \in AllocBins, NEW size \in Nat,
         Measured(q.mem, F, size),
         NEW p, p = FirstFit(q, i, size),
         NEW H, H = {f \in F : BinIndex(Size(q.mem, f)) = i}
  PROVE  Best(q.mem, H, size, p)
<1>1. PICK s : s = q.bins[i]
  OBVIOUS
<1>2. s \in Seq(Addrs) /\ ToSet(s) = H /\ Sorted(q.mem, s)
  BY <1>1 DEF Pools, Binned, Bin
<1>3. PICK mem : mem = q.mem
  OBVIOUS
<1>4. \A k \in DOMAIN s : s[k] \in H /\ Size(mem, s[k]) \in Nat
  BY <1>2, <1>3 DEF ToSet, Binned
<1>5. \A f \in H : \E k \in DOMAIN s : s[k] = f
  BY <1>2 DEF ToSet
<1>6. PICK fits : fits = {k \in DOMAIN s : Size(mem, s[k]) >= size}
  OBVIOUS
<1>7. p = IF fits = {} THEN NULL ELSE s[Max(fits)]
  <2>1. \A k \in DOMAIN s : Remainder(Size(mem, s[k]), size) = Size(mem, s[k]) - size
    <3> SUFFICES ASSUME NEW k \in DOMAIN s
                 PROVE  Remainder(Size(mem, s[k]), size) = Size(mem, s[k]) - size
      OBVIOUS
    <3>1. PICK whole : whole = Size(mem, s[k])
      OBVIOUS
    <3>2. whole \in Nat /\ whole <= AreaSize /\ size <= IntRange
      BY <1>3, <1>4, <3>1 DEF Measured
    <3> QED
      BY <3>1, <3>2, RemainderIs
  <2>2. fits = {k \in DOMAIN s : Remainder(Size(mem, s[k]), size) >= 0}
    BY <1>4, <1>6, <2>1
  <2> QED
    BY <1>1, <1>3, <2>2 DEF FirstFit
<1>8. CASE fits = {}
  BY <1>3, <1>5, <1>6, <1>7, <1>8 DEF Best
<1>9. CASE fits # {}
  <2>1. Len(s) \in Nat /\ fits \in SUBSET (1 .. Len(s))
    BY <1>2, <1>6
  <2>2. PICK g : g = Max(fits)
    OBVIOUS
  <2>3. g \in fits /\ \A y \in fits : y <= g
    BY <1>9, <2>1, <2>2, MaxIs
  <2>4. p = s[g] /\ g \in DOMAIN s /\ Size(mem, s[g]) >= size
    BY <1>6, <1>7, <1>9, <2>2, <2>3
  <2>5. ASSUME NEW f \in H, Size(mem, f) >= size
        PROVE  Size(mem, p) <= Size(mem, f)
    <3>1. PICK k \in DOMAIN s : s[k] = f
      BY <1>5
    <3>2. k <= g /\ k \in Int /\ g \in Int
      BY <1>6, <2>1, <2>3, <2>5, <3>1
    <3>3. CASE k = g
      BY <1>4, <2>4, <3>1, <3>3
    <3>4. CASE k # g
      <4>1. k < g
        BY <3>2, <3>4
      <4> QED
        BY <1>2, <1>3, <2>4, <3>1, <4>1 DEF Sorted
    <3> QED
      BY <3>3, <3>4
  <2> QED
    BY <1>3, <1>4, <2>4, <2>5 DEF Best
<1> QED
  BY <1>8, <1>9

\* The free chunks of an area are no larger than the area.
LEMMA FreeMeasured ==
  ASSUME NEW mem, NEW T, Laid(mem, T), NEW size, size <= IntRange
  PROVE  Measured(mem, FreeOf(mem, T), size)
<1> SUFFICES ASSUME NEW f \in FreeOf(mem, T)
             PROVE  Size(mem, f) <= AreaSize
  BY DEF Measured
<1>1. f \in T
  BY DEF FreeOf
<1>2. Size(mem, f) \in Sizes
  BY <1>1, ChunkIs
<1> QED
  BY <1>2, AddrsAre DEF Sizes

\* Chunks of a higher bin are larger.
LEMMA HigherIsLarger ==
  ASSUME NEW m \in Nat, NEW n \in Nat, BinIndex(m) < BinIndex(n)
  PROVE  m < n
<1>1. n <= m => BinIndex(n) <= BinIndex(m)
  BY BinIndexMonotone
<1>2. BinIndex(m) \in Int /\ BinIndex(n) \in Int
  BY BinIndexInRange DEF AllocBins
<1> QED
  BY <1>1, <1>2

\* Search finds the smallest chunk in the bins from `start` on that fits.
LEMMA SearchIs ==
  ASSUME NEW q \in Pools, NEW F, Binned(q, F), NEW start \in Nat, NEW size \in Nat,
         Measured(q.mem, F, size),
         NEW p, p = Search(q, start, size),
         NEW H, H = {f \in F : BinIndex(Size(q.mem, f)) >= start}
  PROVE  Best(q.mem, H, size, p)
<1>1. PICK mem : mem = q.mem
  OBVIOUS
<1>2. \A f \in F : Size(mem, f) \in Nat /\ BinIndex(Size(mem, f)) \in AllocBins /\ f # NULL
  BY <1>1, BinIndexInRange, AddrsAre DEF Binned
<1>3. ASSUME NEW i \in AllocBins
      PROVE  \E G : /\ G = {f \in F : BinIndex(Size(mem, f)) = i}
                    /\ Best(mem, G, size, FirstFit(q, i, size))
  <2>1. PICK G : G = {f \in F : BinIndex(Size(mem, f)) = i}
    OBVIOUS
  <2>2. PICK h : h = FirstFit(q, i, size)
    OBVIOUS
  <2>3. Best(mem, G, size, h)
    BY <1>1, <2>1, <2>2, FirstFitIs
  <2> QED
    BY <2>1, <2>2, <2>3
<1>4. \A i \in AllocBins : \A f \in F : BinIndex(Size(mem, f)) = i =>
          \/ FirstFit(q, i, size) = NULL /\ ~(Size(mem, f) >= size)
          \/ FirstFit(q, i, size) # NULL
  BY <1>2, <1>3 DEF Best
<1>5. \A i \in AllocBins : FirstFit(q, i, size) # NULL =>
          /\ FirstFit(q, i, size) \in F
          /\ BinIndex(Size(mem, FirstFit(q, i, size))) = i
          /\ Size(mem, FirstFit(q, i, size)) >= size
          /\ \A f \in F : BinIndex(Size(mem, f)) = i /\ Size(mem, f) >= size
                             => Size(mem, FirstFit(q, i, size)) <= Size(mem, f)
  BY <1>3 DEF Best
<1>6. PICK hits : hits = {i \in NextFullBins(q, start) : FirstFit(q, i, size) # NULL}
  OBVIOUS
<1>7. p = IF hits = {} THEN NULL ELSE FirstFit(q, Min(hits), size)
  BY <1>6 DEF Search
<1>8. \A i \in AllocBins : (i \in hits <=> /\ q.bins[i] # <<>> /\ i >= start
                                           /\ FirstFit(q, i, size) # NULL)
  BY <1>6 DEF NextFullBins, Binned
<1>9. hits \in SUBSET AllocBins
  BY <1>6 DEF NextFullBins, Binned
<1>10. ASSUME NEW f \in H, Size(mem, f) >= size
       PROVE  BinIndex(Size(mem, f)) \in hits
  <2>1. PICK i : i = BinIndex(Size(mem, f))
    OBVIOUS
  <2>2. f \in F /\ i \in AllocBins /\ i >= start
    BY <1>1, <1>2, <2>1
  <2>3. FirstFit(q, i, size) # NULL
    BY <1>4, <1>10, <2>1, <2>2
  <2>4. f \in ToSet(q.bins[i])
    BY <1>1, <2>1, <2>2 DEF Binned, Bin
  <2>5. q.bins[i] # <<>>
    BY <2>4 DEF ToSet
  <2> QED
    BY <1>8, <2>1, <2>2, <2>3, <2>5
<1>11. CASE hits = {}
  BY <1>1, <1>7, <1>10, <1>11 DEF Best
<1>12. CASE hits # {}
  <2>1. hits \in SUBSET Nat
    BY <1>9 DEF AllocBins
  <2>2. PICK g : g = Min(hits)
    OBVIOUS
  <2>3. g \in hits /\ \A y \in hits : g <= y
    BY <1>12, <2>1, <2>2, MinIs
  <2>4. g \in AllocBins /\ g \in Nat /\ g >= start /\ p = FirstFit(q, g, size) /\ p # NULL
    BY <1>7, <1>8, <1>9, <1>12, <2>1, <2>2, <2>3
  <2>5. /\ p \in F /\ BinIndex(Size(mem, p)) = g /\ Size(mem, p) >= size
        /\ \A f \in F : BinIndex(Size(mem, f)) = g /\ Size(mem, f) >= size
                           => Size(mem, p) <= Size(mem, f)
    BY <1>5, <2>4
  <2>6. p \in H
    BY <1>1, <2>4, <2>5
  <2>7. ASSUME NEW f \in H, Size(mem, f) >= size
        PROVE  Size(mem, p) <= Size(mem, f)
    <3>1. PICK i : i = BinIndex(Size(mem, f))
      OBVIOUS
    <3>2. i \in hits /\ i \in Nat /\ g <= i
      BY <1>10, <2>1, <2>3, <2>7, <3>1
    <3>3. CASE i = g
      BY <2>5, <2>7, <3>1, <3>3
    <3>4. CASE i # g
      <4>1. BinIndex(Size(mem, p)) < BinIndex(Size(mem, f))
        BY <2>4, <2>5, <3>1, <3>2, <3>4
      <4>2. Size(mem, p) \in Nat /\ Size(mem, f) \in Nat
        BY <1>2, <2>5
      <4>3. Size(mem, p) < Size(mem, f)
        BY <4>1, <4>2, HigherIsLarger
      <4> QED
        BY <4>2, <4>3
    <3> QED
      BY <3>3, <3>4
  <2> QED
    BY <1>1, <2>5, <2>6, <2>7 DEF Best
<1> QED
  BY <1>11, <1>12

\* What Alloc finds is the best fit, and it finds one if there is any.
LEMMA CandidateIs ==
  ASSUME NEW q \in Pools, NEW F, Binned(q, F), NEW size \in Nat, LegalSize(size),
         Measured(q.mem, F, size), NEW p, p = Candidate(q, size)
  PROVE  Best(q.mem, F, size, p)
<1>1. PICK mem : mem = q.mem
  OBVIOUS
<1>2. PICK index : index = BinIndex(size)
  OBVIOUS
<1>3. index \in AllocBins /\ index \in Nat /\ index < 128
  BY <1>2, BinIndexInRange DEF AllocBins, kNumAllocBins
<1>4. \A f \in F : /\ Size(mem, f) \in Nat /\ LegalSize(Size(mem, f)) /\ f # NULL
                   /\ BinIndex(Size(mem, f)) \in AllocBins /\ BinIndex(Size(mem, f)) \in Nat
  <2>1. \A f \in F : Size(mem, f) \in Nat /\ LegalSize(Size(mem, f)) /\ f # NULL
    BY <1>1, AddrsAre DEF Binned
  <2>2. \A n \in Nat : BinIndex(n) \in AllocBins /\ BinIndex(n) \in Nat
    BY BinIndexInRange DEF AllocBins
  <2> QED
    BY <2>1, <2>2
<1>5. \A f \in F : Size(mem, f) >= size => BinIndex(Size(mem, f)) >= index
  <2> SUFFICES ASSUME NEW f \in F, Size(mem, f) >= size
               PROVE  BinIndex(Size(mem, f)) >= index
    OBVIOUS
  <2>1. PICK n \in Nat : n = Size(mem, f)
    BY <1>4
  <2>2. BinIndex(size) <= BinIndex(n)
    BY <2>1, BinIndexMonotone
  <2> QED
    BY <1>2, <1>3, <1>4, <2>1, <2>2
<1>6. \A i \in AllocBins : \A f : f \in ToSet(q.bins[i]) <=> f \in F /\ BinIndex(Size(mem, f)) = i
  BY <1>1 DEF Binned, Bin
<1>7. CASE index < kMaxSmallBin
  <2>1. \A f \in F : /\ BinIndex(Size(mem, f)) = index => Size(mem, f) = size
                     /\ BinIndex(Size(mem, f)) # index + 1
    <3> SUFFICES ASSUME NEW f \in F
                 PROVE  /\ BinIndex(Size(mem, f)) = index => Size(mem, f) = size
                        /\ BinIndex(Size(mem, f)) # index + 1
      OBVIOUS
    <3>1. PICK n \in Nat : n = Size(mem, f)
      BY <1>4
    <3>2. LegalSize(n)
      BY <1>4, <3>1
    <3>3. /\ BinIndex(n) = BinIndex(size) => n = size
          /\ BinIndex(n) # BinIndex(size) + 1
      BY <1>2, <1>7, <3>2, SmallBinsExact
    <3> QED
      BY <1>2, <3>1, <3>3
  <2>2. index + 1 \in AllocBins
    BY <1>3, <1>7 DEF kMaxSmallBin, kNumSmallBins, AllocBins, kNumAllocBins
  <2>3. q.bins[index + 1] = <<>>
    <3>1. PICK s : s = q.bins[index + 1]
      OBVIOUS
    <3>2. s \in Seq(Addrs) /\ ToSet(s) = {}
      BY <1>6, <2>1, <2>2, <3>1 DEF Pools
    <3>3. DOMAIN s = {}
      BY <3>2 DEF ToSet
    <3>4. Len(s) = 0
      BY <3>2, <3>3
    <3>5. s = <<>>
      BY <3>2, <3>4
    <3> QED
      BY <3>1, <3>5
  <2>4. CASE q.bins[index] # <<>>
    <3>1. PICK s : s = q.bins[index]
      OBVIOUS
    <3>2. s \in Seq(Addrs) /\ Len(s) \in DOMAIN s
      BY <1>3, <2>4, <3>1 DEF Pools
    <3>3. Last(s) \in ToSet(s)
      BY <3>2 DEF Last, ToSet
    <3>4. SmallHit(q, index) = Last(s)
      BY <2>4, <3>1 DEF SmallHit
    <3>5. Last(s) \in F /\ BinIndex(Size(mem, Last(s))) = index /\ Last(s) # NULL
      BY <1>3, <1>4, <1>6, <3>1, <3>3
    <3>6. p = Last(s)
      BY <1>2, <1>7, <3>4, <3>5 DEF Candidate
    <3>7. p \in F /\ Size(mem, p) = size
      BY <2>1, <3>5, <3>6
    <3> QED
      BY <1>1, <1>4, <3>7 DEF Best
  <2>5. CASE q.bins[index] = <<>>
    <3>1. SmallHit(q, index) = NULL
      BY <2>3, <2>5 DEF SmallHit
    <3>2. PICK start : start = index + 2
      OBVIOUS
    <3>3. p = Search(q, start, size) /\ start \in Nat
      BY <1>2, <1>3, <1>7, <3>1, <3>2 DEF Candidate
    <3>4. PICK H : H = {f \in F : BinIndex(Size(mem, f)) >= start}
      OBVIOUS
    <3>5. Best(mem, H, size, p)
      BY <1>1, <3>3, <3>4, SearchIs
    <3>6. \A f \in F : Size(mem, f) >= size => f \in H
      <4> SUFFICES ASSUME NEW f \in F, Size(mem, f) >= size
                   PROVE  f \in H
        OBVIOUS
      <4>1. PICK i : i = BinIndex(Size(mem, f))
        OBVIOUS
      <4>2. i \in Nat /\ i \in AllocBins /\ i >= index /\ i # index + 1
        BY <1>4, <1>5, <2>1, <4>1
      <4>3. f \in ToSet(q.bins[i])
        BY <1>6, <4>1, <4>2
      <4>4. i # index
        BY <2>5, <4>3 DEF ToSet
      <4> QED
        BY <1>3, <3>2, <3>4, <4>1, <4>2, <4>4
    <3> QED
      BY <1>1, <3>4, <3>5, <3>6 DEF Best
  <2> QED
    BY <2>4, <2>5
<1>8. CASE ~(index < kMaxSmallBin)
  <2>1. PICK h : h = FirstFit(q, index, size)
    OBVIOUS
  <2>2. PICK G : G = {f \in F : BinIndex(Size(mem, f)) = index}
    OBVIOUS
  <2>3. Best(mem, G, size, h)
    BY <1>1, <1>3, <2>1, <2>2, FirstFitIs
  <2>4. CASE h # NULL
    <3>1. p = h
      BY <1>2, <1>8, <2>1, <2>4 DEF Candidate
    <3>2. p \in F /\ BinIndex(Size(mem, p)) = index /\ Size(mem, p) >= size
      BY <2>2, <2>3, <2>4, <3>1 DEF Best
    <3>3. ASSUME NEW f \in F, Size(mem, f) >= size
          PROVE  Size(mem, p) <= Size(mem, f)
      <4>1. CASE BinIndex(Size(mem, f)) = index
        BY <2>2, <2>3, <2>4, <3>1, <3>3, <4>1 DEF Best
      <4>2. CASE BinIndex(Size(mem, f)) # index
        <5>1. BinIndex(Size(mem, p)) < BinIndex(Size(mem, f))
          BY <1>3, <1>4, <1>5, <3>2, <3>3, <4>2
        <5>2. Size(mem, p) \in Nat /\ Size(mem, f) \in Nat
          BY <1>4, <3>2
        <5>3. Size(mem, p) < Size(mem, f)
          BY <5>1, <5>2, HigherIsLarger
        <5> QED
          BY <5>2, <5>3
      <4> QED
        BY <4>1, <4>2
    <3> QED
      BY <1>1, <3>2, <3>3 DEF Best
  <2>5. CASE h = NULL
    <3>1. PICK start : start = index + 1
      OBVIOUS
    <3>2. p = Search(q, start, size) /\ start \in Nat
      BY <1>2, <1>3, <1>8, <2>1, <2>5, <3>1 DEF Candidate
    <3>3. PICK H : H = {f \in F : BinIndex(Size(mem, f)) >= start}
      OBVIOUS
    <3>4. Best(mem, H, size, p)
      BY <1>1, <3>2, <3>3, SearchIs
    <3>5. \A f \in F : Size(mem, f) >= size => f \in H
      <4> SUFFICES ASSUME NEW f \in F, Size(mem, f) >= size
                   PROVE  f \in H
        OBVIOUS
      <4>1. f \notin G
        <5>1. h \notin G
          BY <1>4, <2>2, <2>5
        <5> QED
          BY <2>3, <2>5, <5>1 DEF Best
      <4>2. BinIndex(Size(mem, f)) # index
        BY <2>2, <4>1
      <4> QED
        BY <1>3, <1>4, <1>5, <3>1, <3>3, <4>2
    <3> QED
      BY <1>1, <3>3, <3>4, <3>5 DEF Best
  <2> QED
    BY <2>4, <2>5
<1> QED
  BY <1>7, <1>8

\* The chunks of T from c to e, cut in another way.
Run(T, c, e) == {t \in T : c <= t /\ t < e}
Cut(T, c, e, T1, S) ==
    /\ S \in SUBSET T1 /\ c \in S /\ \A s \in S : c <= s /\ s < e
    /\ \A x : x \in T1 <=> x \in S \/ (x \in T /\ (x < c \/ e <= x))

\* What that means for the others, if the first of the new ones is not free.
LEMMA RecutSound ==
  ASSUME NEW mem, NEW T, Laid(mem, T), Merged(mem, T), NEW B, Clean(mem, T, B),
         NEW c \in T, NEW e \in T \cup {AreaSize}, NEW m, NEW T1, Laid(m, T1),
         NEW S, Cut(T, c, e, T1, S),
         SameSizesBut(mem, T, m, T1, S), SameBut(mem, m, S \cup {e}),
         InUse(m, c), \A s \in S : ~InUse(m, s) => InUse(m, NextChunk(m, s))
  PROVE  /\ Merged(m, T1) /\ Clean(m, T1, B \cup S)
         /\ FreeOf(m, T1) \ S = FreeOf(mem, T) \ Run(T, c, e)
         /\ UsedOf(m, T1) \ S = UsedOf(mem, T) \ Run(T, c, e)
         /\ \A t \in T1 \ S : t \in T /\ t \notin Run(T, c, e) /\ Untouched(mem, m, t)
<1> DEFINE R == Run(T, c, e)
<1>a. /\ S \in SUBSET T1 /\ c \in S /\ \A s \in S : c <= s /\ s < e
      /\ \A x : x \in T1 <=> x \in S \/ (x \in T /\ (x < c \/ e <= x))
  BY DEF Cut
<1>b. \A x : x \in R <=> x \in T /\ c <= x /\ x < e
  BY DEF Run
<1> HIDE DEF R
<1>1. e \in T1 \cup {AreaSize} /\ c \in Nat /\ e \in Nat /\ T1 \in SUBSET Nat /\ T \in SUBSET Nat
  <2>1. c \in Nat /\ e \in Nat /\ T1 \in SUBSET Nat /\ T \in SUBSET Nat
    BY LayoutIs
  <2> QED
    BY <1>a, <2>1
<1>c. \A t \in T1 \ S : /\ t \in T /\ Untouched(mem, m, t)
                        /\ Size(m, t) = Size(mem, t) /\ InUse(m, t) = InUse(mem, t)
                        /\ NextChunk(m, t) = NextChunk(mem, t)
                        /\ Within(m, t) = Within(mem, t)
  <2>1. S \cup {e} \in SUBSET (T1 \cup {AreaSize})
    BY <1>a, <1>1
  <2> QED
    BY <2>1, RecutKeeps
<1>2. \A t \in T1 \ S : /\ t \in T /\ Untouched(mem, m, t)
                        /\ (InUse(m, t) <=> InUse(mem, t))
                        /\ NextChunk(m, t) = NextChunk(mem, t)
  BY <1>c
<1>3. Clean(m, T1, B \cup S)
  <2>1. S \cup {e} \in SUBSET (T1 \cup {AreaSize})
    BY <1>a, <1>1
  <2> QED
    BY <2>1, RecutKeeps
<1>4. \A t \in T1 \ S : t \in T /\ t \notin R
  BY <1>a, <1>b, <1>1
<1>5. \A t \in T \ R : t \in T1 /\ t \notin S
  BY <1>a, <1>b, <1>1
<1>6. ASSUME NEW x \in T1 \cup {AreaSize}, x \notin S
      PROVE  InUse(m, x) <=> InUse(mem, x)
  <2>1. CASE x \in T1
    BY <1>2, <1>6, <2>1
  <2>2. CASE x = AreaSize
    BY <2>2, LayoutIs
  <2> QED
    BY <2>1, <2>2
<1>7. Merged(m, T1)
  <2> SUFFICES ASSUME NEW t \in T1, ~InUse(m, t)
               PROVE  InUse(m, NextChunk(m, t))
    BY DEF Merged
  <2>1. CASE t \in S
    BY <2>1
  <2>2. CASE t \notin S
    <3>1. PICK x : x = NextChunk(m, t)
      OBVIOUS
    <3>2. t \in T /\ ~InUse(mem, t) /\ x = NextChunk(mem, t)
      BY <1>2, <2>2, <3>1
    <3>3. InUse(mem, x)
      BY <3>2 DEF Merged
    <3>4. x \in T1 \cup {AreaSize}
      BY <3>1, ChunkIs
    <3>5. x \in S => x = c
      <4>1. /\ t < x /\ t \in Nat /\ x \in Nat
            /\ \A o \in T : ~(t < o /\ o < x)
        BY <1>1, <3>2, <3>4, ChunkIs, LayoutIs
      <4>2. t < c \/ e <= t
        BY <1>a, <2>2
      <4> QED
        BY <1>a, <1>1, <4>1, <4>2
    <3> QED
      BY <1>6, <3>1, <3>3, <3>4, <3>5
  <2> QED
    BY <2>1, <2>2
<1>8. FreeOf(m, T1) \ S = FreeOf(mem, T) \ R
  BY <1>4, <1>5, <1>6 DEF FreeOf
<1>9. UsedOf(m, T1) \ S = UsedOf(mem, T) \ R
  BY <1>4, <1>5, <1>6 DEF UsedOf
<1> QED
  BY <1>2, <1>3, <1>4, <1>7, <1>8, <1>9 DEF R

\* One chunk is a run of its own.
LEMMA RunOfOne ==
  ASSUME NEW mem, NEW T, Laid(mem, T), NEW p \in T, NEW e, e = NextChunk(mem, p)
  PROVE  Run(T, p, e) = {p}
<1>1. p < e /\ \A o \in T : ~(p < o /\ o < e)
  BY ChunkIs
<1>2. T \in SUBSET Nat
  BY LayoutIs
<1>3. ASSUME NEW t \in T, p <= t, t < e
      PROVE  t = p
  BY <1>1, <1>2, <1>3
<1>4. p <= p
  BY <1>2
<1> QED
  BY <1>1, <1>3, <1>4 DEF Run

\* The place where a chunk is cut.
LEMMA CutPlace ==
  ASSUME NEW p \in Addrs, NEW size \in Nat, LegalSize(size), NEW rest \in Int, rest >= 0,
         p + (size + rest) \in Addrs
  PROVE  p + size \in Addrs /\ rest % 64 = 0
BY AddrsAre DEF LegalSize, kAlign, kMinAllocSize

\* r has a block at p of this size or little more, and but for R what q has.
CutTo(q, T, R, B, p, size, r) ==
    \E T1 : /\ Sound(r, T1, B \cup {p})
            /\ UsedOf(r.mem, T1) = (UsedOf(q.mem, T) \ R) \cup {p}
            /\ \A t \in UsedOf(q.mem, T) \ R : Untouched(q.mem, r.mem, t)
            /\ Size(r.mem, p) >= size /\ Size(r.mem, p) < size + 128

\* TakeChunk makes a free chunk a block, and frees what is too much.
LEMMA TakeChunkIs ==
  ASSUME NEW q, NEW T, NEW B, Sound(q, T, B), NEW p \in FreeOf(q.mem, T),
         NEW size \in Nat, LegalSize(size), size <= IntRange, Size(q.mem, p) >= size,
         NEW r, r = TakeChunk(q, p, size)
  PROVE  CutTo(q, T, {}, B, p, size, r)
<1> SUFFICES \E T1 : /\ Sound(r, T1, B \cup {p})
                     /\ UsedOf(r.mem, T1) = UsedOf(q.mem, T) \cup {p}
                     /\ \A t \in UsedOf(q.mem, T) : Untouched(q.mem, r.mem, t)
                     /\ Size(r.mem, p) >= size /\ Size(r.mem, p) < size + 128
  <2>1. UsedOf(q.mem, T) \ {} = UsedOf(q.mem, T)
    OBVIOUS
  <2> QED
    BY <2>1 DEF CutTo
<1>1. PICK mem : mem = q.mem
  OBVIOUS
<1>2. PICK F : F = FreeOf(mem, T)
  OBVIOUS
<1>3. /\ q \in Pools /\ Laid(mem, T) /\ Merged(mem, T) /\ Clean(mem, T, B)
      /\ Binned(q, F) /\ p \in F /\ p \in T /\ ~InUse(mem, p)
  BY <1>1, <1>2 DEF Sound, FreeOf
<1>4. PICK whole : whole = Size(mem, p)
  OBVIOUS
<1>5. PICK e : e = NextChunk(mem, p)
  OBVIOUS
<1>6. /\ whole \in Nat /\ e = p + whole /\ e \in T \cup {AreaSize} /\ e \in Addrs
      /\ p \in Addrs /\ p \in Nat /\ e \in Nat /\ p < e
      /\ \A o \in T : ~(p < o /\ o < e)
  BY <1>3, <1>4, <1>5, ChunkIs, LayoutIs
<1>7. PICK rest : rest = whole - size
  OBVIOUS
<1>8. /\ rest \in Nat /\ p + (size + rest) = e /\ whole = size + rest
      /\ rest = Remainder(whole, size) /\ whole - rest = size
  <2>1. whole >= size
    BY <1>1, <1>4
  <2>2. rest \in Nat /\ whole = size + rest /\ whole - rest = size
    BY <1>6, <1>7, <2>1
  <2>3. p + (size + rest) = e
    BY <1>6, <2>2
  <2>4. whole <= AreaSize
    BY <1>6, AddrsAre
  <2> QED
    BY <1>6, <1>7, <2>2, <2>3, <2>4, RemainderIs
<1>9. PICK d : d = p + size
  OBVIOUS
<1>10. d \in Addrs /\ d \in Nat /\ rest % 64 = 0 /\ size >= 128
  <2>1. p + (size + rest) \in Addrs
    BY <1>6, <1>8
  <2>2. p + size \in Addrs /\ rest % 64 = 0
    BY <1>6, <1>8, <2>1, CutPlace
  <2> QED
    BY <1>6, <1>9, <2>2 DEF LegalSize, kMinAllocSize, kAlign
<1>11. PICK unlinked : unlinked = UnlinkFree(q, p)
  OBVIOUS
<1>12. PICK G : G = F \ {p}
  OBVIOUS
<1>13. unlinked \in Pools /\ unlinked.mem = mem /\ Binned(unlinked, G)
  BY <1>1, <1>3, <1>11, <1>12, UnlinkFreeIs
<1>14. InUse(mem, e)
  BY <1>3, <1>5 DEF Merged
<1>15. PICK R : R = Run(T, p, e)
  OBVIOUS
<1>16. R = {p}
  BY <1>3, <1>5, <1>15, RunOfOne
<1>17. PICK f1 \in BOOLEAN : f1 = TRUE
  OBVIOUS
<1>18. CASE Splits(rest)
  <2>1. PICK f2 \in BOOLEAN : f2 = FALSE
    OBVIOUS
  <2>2. PICK m1 : m1 = SetSize(mem, d, rest, f2)
    OBVIOUS
  <2>3. PICK m : m = SetSize(m1, p, size, f1)
    OBVIOUS
  <2>4. PICK T1 : T1 = {t \in T : t < p \/ e <= t} \cup {p, d}
    OBVIOUS
  <2>5. d - p >= 128 /\ e - d >= 128 /\ size = d - p /\ rest = e - d
    BY <1>6, <1>8, <1>9, <1>10, <1>18 DEF Splits, kMinAllocSize, kAlign
  <2>6. /\ m1 \in Memories /\ \A t \in Addrs \ {d} : IsHeader(mem[t]) => m1[t].size = mem[t].size
        /\ m1[d].size = Word(rest, f2)
        /\ Laid(m, T1) /\ p \in T1 /\ d \in T1 /\ e \in T1 \cup {AreaSize} /\ p < d /\ d < e
        /\ size \in Nat /\ LegalSize(size) /\ rest \in Nat /\ LegalSize(rest)
        /\ m[p].size = Word(size, f1) /\ m[d].size = Word(rest, f2)
        /\ NextChunk(m, p) = d /\ NextChunk(m, d) = e
        /\ \A t \in T1 \ {p, d} : t \in T /\ m[t].size = mem[t].size
        /\ \A a \in Addrs \ {p, d, e} : m[a] = mem[a]
    <3>1. TwoChunks(mem, T, p, d, e, size, rest, f1, f2, m1, m, T1)
      BY <2>2, <2>3, <2>4, <2>5 DEF TwoChunks
    <3>2. /\ Laid(mem, T) /\ p \in T /\ e \in T \cup {AreaSize} /\ d \in Addrs
          /\ f1 \in BOOLEAN /\ f2 \in BOOLEAN
      BY <1>3, <1>6, <1>10, <1>17, <2>1
    <3> QED
      BY <3>1, <3>2, RecutTwo
  <2>7. PICK S : S = {p, d}
    OBVIOUS
  <2>8. InUse(m, p) /\ ~InUse(m, d) /\ Size(m, p) = size /\ Size(m1, d) = rest
    BY <1>17, <2>1, <2>6 DEF InUse, Size, Word
  <2>9. InUse(m, e)
    <3>1. CASE e = AreaSize
      BY <2>6, <3>1, LayoutIs
    <3>2. CASE e # AreaSize
      <4>1. e \in T1 \ {p, d}
        BY <1>6, <2>6, <3>2
      <4> QED
        BY <1>14, <2>6, <4>1 DEF InUse
    <3> QED
      BY <3>1, <3>2
  <2>10. /\ Merged(m, T1) /\ Clean(m, T1, B \cup S)
         /\ FreeOf(m, T1) \ S = FreeOf(mem, T) \ R
         /\ UsedOf(m, T1) \ S = UsedOf(mem, T) \ R
         /\ \A t \in T1 \ S : t \in T \ R /\ Untouched(mem, m, t)
    <3>1. S \in SUBSET T1 /\ p \in S /\ \A x \in S : p <= x /\ x < e
      BY <1>6, <1>10, <2>6, <2>7
    <3>2. \A x : x \in T1 <=> x \in S \/ (x \in T /\ (x < p \/ e <= x))
      BY <2>4, <2>7
    <3>3. SameSizesBut(mem, T, m, T1, S) /\ SameBut(mem, m, S \cup {e})
      BY <2>6, <2>7 DEF SameSizesBut, SameBut
    <3>6. \A s \in S : ~InUse(m, s) => InUse(m, NextChunk(m, s))
      BY <2>6, <2>7, <2>8, <2>9
    <3>4. Laid(m, T1) /\ InUse(m, p) /\ e \in T \cup {AreaSize}
      BY <1>6, <2>6, <2>8
    <3>5. Cut(T, p, e, T1, S)
      BY <3>1, <3>2 DEF Cut
    <3>7. Laid(mem, T) /\ Merged(mem, T) /\ Clean(mem, T, B) /\ p \in T
      BY <1>3
    <3>8. /\ Merged(m, T1) /\ Clean(m, T1, B \cup S)
          /\ FreeOf(m, T1) \ S = FreeOf(mem, T) \ Run(T, p, e)
          /\ UsedOf(m, T1) \ S = UsedOf(mem, T) \ Run(T, p, e)
          /\ \A t \in T1 \ S : t \in T /\ t \notin Run(T, p, e) /\ Untouched(mem, m, t)
      BY <3>3, <3>4, <3>5, <3>6, <3>7, RecutSound
    <3> QED
      BY <1>15, <3>8
  <2>11. FreeOf(m, T1) = G \cup {d}
    <3>1. p \notin FreeOf(m, T1) /\ d \in FreeOf(m, T1)
      BY <2>6, <2>8 DEF FreeOf
    <3>2. d \notin G
      BY <1>2, <1>6, <1>12, <2>6 DEF FreeOf
    <3> QED
      BY <1>2, <1>12, <1>16, <2>7, <2>10, <3>1, <3>2
  <2>12. UsedOf(m, T1) = UsedOf(mem, T) \cup {p}
    <3>1. d \notin UsedOf(m, T1) /\ p \in UsedOf(m, T1)
      BY <2>6, <2>8 DEF UsedOf
    <3>2. d \notin UsedOf(mem, T) /\ p \notin UsedOf(mem, T)
      BY <1>3, <1>6, <2>6 DEF UsedOf
    <3> QED
      BY <1>16, <2>7, <2>10, <3>1, <3>2
  <2>13. \A t \in G : t \in T1 \ {p, d} /\ t \in Addrs /\ IsHeader(mem[t]) /\ t # d
    <3>1. d \notin T
      BY <1>6, <2>6
    <3>2. \A t \in G : t \in T /\ t # p
      BY <1>2, <1>12 DEF FreeOf
    <3>3. \A t \in T : t \in Addrs /\ IsHeader(mem[t])
      BY <1>3, LayoutIs
    <3> QED
      BY <2>6, <2>11, <3>1, <3>2, <3>3 DEF FreeOf
  <2>14. PICK w1 : w1 = WithMem(unlinked, m1)
    OBVIOUS
  <2>15. w1 \in Pools /\ w1.mem = m1 /\ Binned(w1, G)
    <3>1. \A t \in G : m1[t].size = unlinked.mem[t].size
      BY <1>13, <2>6, <2>13
    <3> QED
      BY <1>13, <2>6, <2>14, <3>1, WithMemIs
  <2>16. PICK cut : cut = LinkFree(w1, d)
    OBVIOUS
  <2>17. cut \in Pools /\ cut.mem = m1 /\ Binned(cut, G \cup {d})
    <3>1. d \in Addrs \ G
      BY <1>10, <2>13
    <3>2. Size(w1.mem, d) \in Nat /\ LegalSize(Size(w1.mem, d))
      BY <2>6, <2>8, <2>15
    <3> QED
      BY <2>15, <2>16, <3>1, <3>2, LinkFreeIs
  <2>18. r = WithMem(cut, m)
    BY <1>1, <1>4, <1>8, <1>9, <1>11, <1>13, <1>17, <1>18, <2>1, <2>2, <2>3, <2>14, <2>16, <2>17
       DEF TakeChunk
  <2>19. r \in Pools /\ r.mem = m /\ Binned(r, FreeOf(m, T1))
    <3>1. \A t \in G \cup {d} : m[t].size = cut.mem[t].size
      BY <2>6, <2>13, <2>17
    <3>2. PICK H : H = G \cup {d}
      OBVIOUS
    <3>3. m \in Memories
      BY <2>6 DEF Laid
    <3>4. r \in Pools /\ r.mem = m /\ Binned(r, H)
      BY <2>17, <2>18, <3>1, <3>2, <3>3, WithMemIs
    <3> QED
      BY <2>11, <3>2, <3>4
  <2>20. Clean(m, T1, B \cup {p})
    <3> SUFFICES ASSUME NEW t \in T1 \ (B \cup {p}), InUse(m, t)
                 PROVE  \A a \in Within(m, t) : ~IsHeader(m[a])
      BY DEF Clean
    <3>1. t # d
      BY <2>8
    <3> QED
      BY <2>7, <2>10, <3>1 DEF Clean
  <2>21. \A t \in UsedOf(mem, T) : Untouched(mem, m, t)
    <3>1. \A t \in UsedOf(mem, T) : t \in T1 \ S
      <4>1. p \notin UsedOf(mem, T)
        BY <1>3 DEF UsedOf
      <4> QED
        BY <1>16, <2>10, <4>1 DEF UsedOf
    <3> QED
      BY <2>10, <3>1
  <2>22. size >= size /\ size < size + 128
    OBVIOUS
  <2> QED
    BY <1>1, <2>6, <2>8, <2>10, <2>12, <2>19, <2>20, <2>21, <2>22 DEF Sound
<1>19. CASE ~Splits(rest)
  <2>3. PICK m : m = SetSize(mem, p, whole, f1)
    OBVIOUS
  <2>4. PICK T1 : T1 = {t \in T : t < p \/ e <= t} \cup {p}
    OBVIOUS
  <2>6. /\ Laid(m, T1) /\ p \in T1 /\ e \in T1 \cup {AreaSize}
        /\ m[p].size = Word(whole, f1) /\ NextChunk(m, p) = e
        /\ \A t \in T1 \ {p} : t \in T /\ m[t].size = mem[t].size
        /\ \A a \in Addrs \ {p, e} : m[a] = mem[a]
    <3>1. whole = e - p /\ p < e
      BY <1>6
    <3>2. OneChunk(mem, T, p, e, whole, f1, m, T1)
      BY <2>3, <2>4, <3>1 DEF OneChunk
    <3>3. Laid(mem, T) /\ p \in T /\ e \in T \cup {AreaSize} /\ f1 \in BOOLEAN
      BY <1>3, <1>6, <1>17
    <3>4. /\ Laid(m, T1) /\ p \in T1 /\ e \in T1 \cup {AreaSize}
          /\ whole \in Sizes \ {0} /\ LegalSize(whole) /\ whole \in Nat
          /\ m[p].size = Word(whole, f1) /\ NextChunk(m, p) = e
          /\ \A t \in T1 \ {p} : t \in T /\ m[t].size = mem[t].size
          /\ \A a \in Addrs \ {p, e} : m[a] = mem[a]
      BY <3>2, <3>3, RecutOne, SMTT(30)
    <3> QED
      BY <3>4
  <2>7. PICK S : S = {p}
    OBVIOUS
  <2>8. InUse(m, p) /\ Size(m, p) = whole
    BY <1>17, <2>6 DEF InUse, Size, Word
  <2>10. /\ Merged(m, T1) /\ Clean(m, T1, B \cup S)
         /\ FreeOf(m, T1) \ S = FreeOf(mem, T) \ R
         /\ UsedOf(m, T1) \ S = UsedOf(mem, T) \ R
         /\ \A t \in T1 \ S : t \in T \ R /\ Untouched(mem, m, t)
    <3>1. S \in SUBSET T1 /\ p \in S /\ \A x \in S : p <= x /\ x < e
      BY <1>6, <2>6, <2>7
    <3>2. \A x : x \in T1 <=> x \in S \/ (x \in T /\ (x < p \/ e <= x))
      BY <2>4, <2>7
    <3>3. SameSizesBut(mem, T, m, T1, S) /\ SameBut(mem, m, S \cup {e})
      BY <2>6, <2>7 DEF SameSizesBut, SameBut
    <3>6. \A s \in S : ~InUse(m, s) => InUse(m, NextChunk(m, s))
      BY <2>6, <2>7, <2>8
    <3>4. Laid(m, T1) /\ InUse(m, p) /\ e \in T \cup {AreaSize}
      BY <1>6, <2>6, <2>8
    <3>5. Cut(T, p, e, T1, S)
      BY <3>1, <3>2 DEF Cut
    <3>7. Laid(mem, T) /\ Merged(mem, T) /\ Clean(mem, T, B) /\ p \in T
      BY <1>3
    <3>8. /\ Merged(m, T1) /\ Clean(m, T1, B \cup S)
          /\ FreeOf(m, T1) \ S = FreeOf(mem, T) \ Run(T, p, e)
          /\ UsedOf(m, T1) \ S = UsedOf(mem, T) \ Run(T, p, e)
          /\ \A t \in T1 \ S : t \in T /\ t \notin Run(T, p, e) /\ Untouched(mem, m, t)
      BY <3>3, <3>4, <3>5, <3>6, <3>7, RecutSound
    <3> QED
      BY <1>15, <3>8
  <2>11. FreeOf(m, T1) = G
    <3>1. p \notin FreeOf(m, T1)
      BY <2>8 DEF FreeOf
    <3> QED
      BY <1>2, <1>12, <1>16, <2>7, <2>10, <3>1
  <2>12. UsedOf(m, T1) = UsedOf(mem, T) \cup {p}
    <3>1. p \in UsedOf(m, T1)
      BY <2>6, <2>8 DEF UsedOf
    <3> QED
      BY <1>16, <2>7, <2>10, <3>1
  <2>18. r = WithMem(unlinked, m)
    BY <1>1, <1>4, <1>8, <1>11, <1>13, <1>17, <1>19, <2>3 DEF TakeChunk
  <2>19. r \in Pools /\ r.mem = m /\ Binned(r, FreeOf(m, T1))
    <3>1. \A t \in G : m[t].size = unlinked.mem[t].size
      BY <1>12, <1>13, <2>6, <2>11 DEF FreeOf
    <3>3. m \in Memories
      BY <2>6 DEF Laid
    <3> QED
      BY <1>13, <2>11, <2>18, <3>1, <3>3, WithMemIs
  <2>21. \A t \in UsedOf(mem, T) : Untouched(mem, m, t)
    <3>1. \A t \in UsedOf(mem, T) : t \in T1 \ S
      <4>1. p \notin UsedOf(mem, T)
        BY <1>3 DEF UsedOf
      <4> QED
        BY <1>16, <2>10, <4>1 DEF UsedOf
    <3> QED
      BY <2>10, <3>1
  <2>22. whole >= size /\ whole < size + 128
    BY <1>8, <1>19 DEF Splits, kMinAllocSize, kAlign
  <2> QED
    BY <1>1, <2>6, <2>7, <2>8, <2>10, <2>12, <2>19, <2>21, <2>22 DEF Sound
<1> QED
  BY <1>18, <1>19

-----------------------------------------------------------------------------
(* Realloc *)

\* What two steps leave alone both leave alone together.
LEMMA UntouchedTwice ==
  ASSUME NEW m1, NEW m2, NEW m3, NEW t, Untouched(m1, m2, t), Untouched(m2, m3, t)
  PROVE  Untouched(m1, m3, t)
<1>1. m2[t].size = m1[t].size /\ m3[t].size = m2[t].size
  BY DEF Untouched
<1>2. Within(m2, t) = Within(m1, t)
  BY <1>1 DEF Within, NextChunk, Size
<1> QED
  BY <1>1, <1>2 DEF Untouched

\* What has been made one chunk is cut to the size asked for.
LEMMA SplitOffIs ==
  ASSUME NEW q \in Pools, NEW T, Laid(q.mem, T), Merged(q.mem, T), NEW B, Clean(q.mem, T, B),
         NEW p \in T, NEW e \in T \cup {AreaSize}, p < e,
         Binned(q, FreeOf(q.mem, T) \ Run(T, p, e)),
         NEW whole, whole = e - p, NEW size \in Nat, LegalSize(size), size <= whole,
         NEW r, r = SplitOff(q, p, whole, size)
  PROVE  CutTo(q, T, Run(T, p, e), B, p, size, r)
<1> SUFFICES \E T1 : /\ Sound(r, T1, B \cup {p})
                     /\ UsedOf(r.mem, T1) = (UsedOf(q.mem, T) \ Run(T, p, e)) \cup {p}
                     /\ \A t \in UsedOf(q.mem, T) \ Run(T, p, e) : Untouched(q.mem, r.mem, t)
                     /\ Size(r.mem, p) >= size /\ Size(r.mem, p) < size + 128
  BY DEF CutTo
<1>1. PICK mem : mem = q.mem
  OBVIOUS
<1>2. PICK R : R = Run(T, p, e)
  OBVIOUS
<1>3. PICK G : G = FreeOf(mem, T) \ R
  OBVIOUS
<1>4. /\ Laid(mem, T) /\ Merged(mem, T) /\ Clean(mem, T, B) /\ Binned(q, G)
  BY <1>1, <1>2, <1>3
<1>5. p \in Addrs /\ e \in Addrs /\ p \in Nat /\ e \in Nat /\ T \in SUBSET Addrs
  BY <1>4, LayoutIs
<1>6. whole \in Nat /\ p + whole = e
  BY <1>5
<1>7. p \in R
  BY <1>2, <1>5 DEF Run
<1>8. PICK flag \in BOOLEAN : flag = TRUE
  OBVIOUS
<1>9. PICK rest : rest = whole - size
  OBVIOUS
<1>10. rest \in Nat /\ size + rest = whole
  BY <1>6, <1>9
<1>11. PICK d : d = p + size
  OBVIOUS
<1>12. d \in Addrs /\ d \in Nat /\ size >= 128
  <2>1. p + (size + rest) \in Addrs
    BY <1>5, <1>6, <1>10
  <2>2. p + size \in Addrs
    BY <1>5, <1>10, <2>1, CutPlace
  <2> QED
    BY <1>5, <1>11, <2>2 DEF LegalSize, kMinAllocSize, kAlign
<1>13. CASE Splits(rest)
  <2>1. PICK m1 : m1 = SetSize(mem, d, rest, flag)
    OBVIOUS
  <2>2. PICK m : m = SetSize(m1, p, size, flag)
    OBVIOUS
  <2>3. PICK T1 : T1 = {t \in T : t < p \/ e <= t} \cup {p, d}
    OBVIOUS
  <2>4. d - p >= 128 /\ e - d >= 128 /\ size = d - p /\ rest = e - d
    BY <1>5, <1>6, <1>10, <1>11, <1>12, <1>13 DEF Splits, kMinAllocSize, kAlign
  <2>5. /\ Laid(m, T1) /\ p \in T1 /\ d \in T1 /\ p < d /\ d < e
        /\ m[p].size = Word(size, flag) /\ m[d].size = Word(rest, flag)
        /\ \A t \in T1 \ {p, d} : t \in T /\ m[t].size = mem[t].size
        /\ \A a \in Addrs \ {p, d, e} : m[a] = mem[a]
    <3>1. TwoChunks(mem, T, p, d, e, size, rest, flag, flag, m1, m, T1)
      BY <2>1, <2>2, <2>3, <2>4 DEF TwoChunks
    <3>2. /\ Laid(mem, T) /\ p \in T /\ e \in T \cup {AreaSize} /\ d \in Addrs /\ flag \in BOOLEAN
      BY <1>4, <1>8, <1>12
    <3> QED
      BY <3>1, <3>2, RecutTwo
  <2>6. PICK S : S = {p, d}
    OBVIOUS
  <2>7. InUse(m, p) /\ InUse(m, d) /\ Size(m, p) = size
    BY <1>8, <2>5 DEF InUse, Size, Word
  <2>8. /\ Merged(m, T1) /\ Clean(m, T1, B \cup S)
        /\ FreeOf(m, T1) \ S = FreeOf(mem, T) \ Run(T, p, e)
        /\ UsedOf(m, T1) \ S = UsedOf(mem, T) \ Run(T, p, e)
        /\ \A t \in T1 \ S : t \in T /\ t \notin Run(T, p, e) /\ Untouched(mem, m, t)
    <3>1. S \in SUBSET T1 /\ p \in S /\ \A x \in S : p <= x /\ x < e
      BY <1>5, <1>12, <2>5, <2>6
    <3>2. \A x : x \in T1 <=> x \in S \/ (x \in T /\ (x < p \/ e <= x))
      BY <2>3, <2>6
    <3>3. SameSizesBut(mem, T, m, T1, S) /\ SameBut(mem, m, S \cup {e})
      BY <2>5, <2>6 DEF SameSizesBut, SameBut
    <3>4. \A s \in S : ~InUse(m, s) => InUse(m, NextChunk(m, s))
      BY <2>6, <2>7
    <3>5. Cut(T, p, e, T1, S)
      BY <3>1, <3>2 DEF Cut
    <3>6. Laid(m, T1) /\ InUse(m, p) /\ e \in T \cup {AreaSize}
      BY <2>5, <2>7
    <3> QED
      BY <1>4, <3>3, <3>4, <3>5, <3>6, RecutSound
  <2>9. FreeOf(m, T1) = G
    <3>1. p \notin FreeOf(m, T1) /\ d \notin FreeOf(m, T1)
      BY <2>7 DEF FreeOf
    <3> QED
      BY <1>2, <1>3, <2>6, <2>8, <3>1
  <2>10. PICK cut : cut = WithMem(q, m)
    OBVIOUS
  <2>11. cut \in Pools /\ cut.mem = m /\ Binned(cut, G)
    <3>1. \A t \in G : t \in T1 \ {p, d}
      <4>1. p \notin FreeOf(m, T1) /\ d \notin FreeOf(m, T1)
        BY <2>7 DEF FreeOf
      <4> QED
        BY <2>9, <4>1 DEF FreeOf
    <3>2. \A t \in G : m[t].size = q.mem[t].size
      BY <1>1, <2>5, <3>1
    <3>3. m \in Memories
      BY <2>5 DEF Laid
    <3> QED
      BY <1>4, <2>10, <3>2, <3>3, WithMemIs
  <2>12. r = FreeChunk(cut, d)
    BY <1>1, <1>8, <1>9, <1>11, <1>13, <2>1, <2>2, <2>10 DEF SplitOff
  <2>13. PICK C : C = B \cup {p}
    OBVIOUS
  <2>14. Sound(cut, T1, C \cup {d})
    <3>1. B \cup S = C \cup {d}
      BY <2>6, <2>13
    <3> QED
      BY <2>5, <2>8, <2>9, <2>11, <3>1 DEF Sound
  <2>15. d \in T1 /\ InUse(cut.mem, d)
    BY <2>5, <2>7, <2>11
  <2>16. PICK T2 : /\ Sound(r, T2, C)
                   /\ UsedOf(r.mem, T2) = UsedOf(cut.mem, T1) \ {d}
                   /\ \A t \in UsedOf(cut.mem, T1) \ {d} : Untouched(cut.mem, r.mem, t)
    <3>1. GivenBack(cut, T1, C, d, r)
      BY <2>12, <2>14, <2>15, FreeChunkIs
    <3> QED
      BY <3>1 DEF GivenBack
  <2>17. UsedOf(m, T1) \ {d} = (UsedOf(mem, T) \ R) \cup {p}
    <3>1. p \in UsedOf(m, T1) /\ p # d
      BY <1>5, <2>5, <2>7 DEF UsedOf
    <3>2. d \notin UsedOf(mem, T) \ R
      <4>1. d \in T => d \in R
        BY <1>2, <1>5, <1>12, <2>5 DEF Run
      <4> QED
        BY <4>1 DEF UsedOf
    <3> QED
      BY <1>2, <2>6, <2>8, <3>1, <3>2
  <2>18. \A t \in UsedOf(mem, T) \ R : Untouched(mem, r.mem, t)
    <3> SUFFICES ASSUME NEW t \in UsedOf(mem, T) \ R
                 PROVE  Untouched(mem, r.mem, t)
      OBVIOUS
    <3>1. Untouched(m, r.mem, t)
      BY <2>11, <2>16, <2>17
    <3>2. t \in UsedOf(m, T1) \ S
      BY <1>2, <2>8
    <3>3. Untouched(mem, m, t)
      BY <2>8, <3>2 DEF UsedOf
    <3> QED
      BY <3>1, <3>3, UntouchedTwice
  <2>19. Size(r.mem, p) = size
    <3>1. Untouched(m, r.mem, p)
      BY <2>11, <2>16, <2>17
    <3> QED
      BY <2>7, <3>1 DEF Untouched, Size
  <2> QED
    BY <1>1, <1>2, <2>11, <2>13, <2>16, <2>17, <2>18, <2>19
<1>14. CASE ~Splits(rest)
  <2>2. PICK m : m = SetSize(mem, p, whole, flag)
    OBVIOUS
  <2>3. PICK T1 : T1 = {t \in T : t < p \/ e <= t} \cup {p}
    OBVIOUS
  <2>5. /\ Laid(m, T1) /\ p \in T1
        /\ m[p].size = Word(whole, flag)
        /\ \A t \in T1 \ {p} : t \in T /\ m[t].size = mem[t].size
        /\ \A a \in Addrs \ {p, e} : m[a] = mem[a]
    <3>1. OneChunk(mem, T, p, e, whole, flag, m, T1)
      BY <2>2, <2>3 DEF OneChunk
    <3>2. Laid(mem, T) /\ p \in T /\ e \in T \cup {AreaSize} /\ flag \in BOOLEAN
      BY <1>4, <1>8
    <3> QED
      BY <3>1, <3>2, RecutOne
  <2>6. PICK S : S = {p}
    OBVIOUS
  <2>7. InUse(m, p) /\ Size(m, p) = whole
    BY <1>8, <2>5 DEF InUse, Size, Word
  <2>8. /\ Merged(m, T1) /\ Clean(m, T1, B \cup S)
        /\ FreeOf(m, T1) \ S = FreeOf(mem, T) \ Run(T, p, e)
        /\ UsedOf(m, T1) \ S = UsedOf(mem, T) \ Run(T, p, e)
        /\ \A t \in T1 \ S : t \in T /\ t \notin Run(T, p, e) /\ Untouched(mem, m, t)
    <3>1. S \in SUBSET T1 /\ p \in S /\ \A x \in S : p <= x /\ x < e
      BY <1>5, <2>5, <2>6
    <3>2. \A x : x \in T1 <=> x \in S \/ (x \in T /\ (x < p \/ e <= x))
      BY <2>3, <2>6
    <3>3. SameSizesBut(mem, T, m, T1, S) /\ SameBut(mem, m, S \cup {e})
      BY <2>5, <2>6 DEF SameSizesBut, SameBut
    <3>4. \A s \in S : ~InUse(m, s) => InUse(m, NextChunk(m, s))
      BY <2>6, <2>7
    <3>5. Cut(T, p, e, T1, S)
      BY <3>1, <3>2 DEF Cut
    <3>6. Laid(m, T1) /\ InUse(m, p) /\ e \in T \cup {AreaSize}
      BY <2>5, <2>7
    <3> QED
      BY <1>4, <3>3, <3>4, <3>5, <3>6, RecutSound
  <2>9. FreeOf(m, T1) = G
    <3>1. p \notin FreeOf(m, T1)
      BY <2>7 DEF FreeOf
    <3> QED
      BY <1>2, <1>3, <2>6, <2>8, <3>1
  <2>10. r = WithMem(q, m)
    BY <1>1, <1>8, <1>9, <1>14, <2>2 DEF SplitOff
  <2>11. r \in Pools /\ r.mem = m /\ Binned(r, G)
    <3>1. \A t \in G : t \in T1 \ {p}
      BY <2>7, <2>9 DEF FreeOf
    <3>2. \A t \in G : m[t].size = q.mem[t].size
      BY <1>1, <2>5, <3>1
    <3>3. m \in Memories
      BY <2>5 DEF Laid
    <3> QED
      BY <1>4, <2>10, <3>2, <3>3, WithMemIs
  <2>12. Sound(r, T1, B \cup {p})
    BY <2>5, <2>6, <2>8, <2>9, <2>11 DEF Sound
  <2>17. UsedOf(m, T1) = (UsedOf(mem, T) \ R) \cup {p}
    <3>1. p \in UsedOf(m, T1)
      BY <2>5, <2>7 DEF UsedOf
    <3> QED
      BY <1>2, <2>6, <2>8, <3>1
  <2>18. \A t \in UsedOf(mem, T) \ R : Untouched(mem, m, t)
    <3>1. \A t \in UsedOf(mem, T) \ R : t \in T1 \ S
      BY <1>2, <2>8 DEF UsedOf
    <3> QED
      BY <2>8, <3>1
  <2>19. whole >= size /\ whole < size + 128
    BY <1>10, <1>14 DEF Splits, kMinAllocSize, kAlign
  <2> QED
    BY <1>1, <1>2, <2>7, <2>11, <2>12, <2>17, <2>18, <2>19
<1> QED
  BY <1>13, <1>14

\* Only what is inside chunks is written.
LEMMA InsideOnly ==
  ASSUME NEW mem, NEW T, Laid(mem, T), NEW m \in Memories,
         \A x \in T \cup {AreaSize} : m[x] = mem[x]
  PROVE  /\ Laid(m, T) /\ FreeOf(m, T) = FreeOf(mem, T) /\ UsedOf(m, T) = UsedOf(mem, T)
         /\ Merged(mem, T) => Merged(m, T)
         /\ \A t \in T : /\ Size(m, t) = Size(mem, t) /\ NextChunk(m, t) = NextChunk(mem, t)
                         /\ Within(m, t) = Within(mem, t)
                         /\ (InUse(m, t) <=> InUse(mem, t))
<1>1. /\ T \in SUBSET Addrs /\ 0 \in T /\ AreaSize \in Addrs
      /\ \A t \in T : 0 <= t /\ t < AreaSize
      /\ \A x \in T \cup {AreaSize} : IsHeader(mem[x])
      /\ \A t \in T : Follows(mem, T, AreaSize, t)
      /\ \A x \in (T \cup {AreaSize}) \ {0} : \E o \in T : NextChunk(mem, o) = x
  BY DEF Laid, Tiled
<1>2. ASSUME NEW x \in T \cup {AreaSize}
      PROVE  /\ Size(m, x) = Size(mem, x) /\ NextChunk(m, x) = NextChunk(mem, x)
             /\ (InUse(m, x) <=> InUse(mem, x))
  BY DEF Size, NextChunk, InUse
<1>3. ASSUME NEW t \in T
      PROVE  Follows(m, T, AreaSize, t)
  BY <1>1, <1>2 DEF Follows
<1>4. Laid(m, T)
  <2>1. m[0].prev = Word(0, TRUE) /\ m[AreaSize].size = Word(0, TRUE)
    BY <1>1 DEF Laid
  <2>2. \A x \in (T \cup {AreaSize}) \ {0} : \E o \in T : NextChunk(m, o) = x
    BY <1>1, <1>2
  <2>3. \A x \in T \cup {AreaSize} : IsHeader(m[x])
    BY <1>1
  <2> QED
    BY <1>1, <1>3, <2>1, <2>2, <2>3 DEF Laid, Tiled
<1>5. FreeOf(m, T) = FreeOf(mem, T) /\ UsedOf(m, T) = UsedOf(mem, T)
  BY <1>2 DEF FreeOf, UsedOf
<1>6. Merged(mem, T) => Merged(m, T)
  <2> SUFFICES ASSUME Merged(mem, T), NEW t \in T, ~InUse(m, t)
               PROVE  InUse(m, NextChunk(m, t))
    BY DEF Merged
  <2>1. PICK n : n = NextChunk(mem, t)
    OBVIOUS
  <2>2. n \in T \cup {AreaSize} /\ InUse(mem, n) /\ n = NextChunk(m, t)
    BY <1>1, <1>2, <2>1 DEF Merged, Follows
  <2> QED
    BY <1>2, <2>2
<1>7. \A t \in T : Within(m, t) = Within(mem, t)
  BY <1>2 DEF Within
<1> QED
  BY <1>2, <1>4, <1>5, <1>6, <1>7

\* Chunks do not overlap.
LEMMA InsideOne ==
  ASSUME NEW mem, NEW T, Laid(mem, T), NEW t \in T, NEW a \in Within(mem, t)
  PROVE  /\ a \in Addrs /\ a \notin T \cup {AreaSize}
         /\ \A o \in T : a \in Within(mem, o) => o = t
<1>1. a \in Addrs /\ t < a /\ a < NextChunk(mem, t) /\ Addrs \in SUBSET Nat
  BY AddrsAre DEF Within
<1>2. /\ t \in Nat /\ NextChunk(mem, t) \in Addrs /\ NextChunk(mem, t) <= AreaSize
      /\ \A o \in T : ~(t < o /\ o < NextChunk(mem, t))
  BY ChunkIs, AddrsAre
<1>3. a \notin T \cup {AreaSize}
  BY <1>1, <1>2, AddrsAre
<1>4. ASSUME NEW o \in T, a \in Within(mem, o)
      PROVE  o = t
  <2>1. o < a /\ a < NextChunk(mem, o)
    BY <1>4 DEF Within
  <2>2. /\ o \in Nat /\ NextChunk(mem, o) \in Addrs
        /\ \A x \in T : ~(o < x /\ x < NextChunk(mem, o))
    BY ChunkIs
  <2>a. a \in Nat /\ NextChunk(mem, t) \in Nat /\ NextChunk(mem, o) \in Nat
    BY <1>1, <1>2, <2>2
  <2>3. ~(t < o)
    <3>1. t < o => o < NextChunk(mem, t)
      BY <1>1, <2>1, <2>2, <2>a
    <3> QED
      BY <1>2, <3>1
  <2>4. ~(o < t)
    <3>1. o < t => t < NextChunk(mem, o)
      BY <1>1, <1>2, <2>1, <2>a
    <3> QED
      BY <2>2, <3>1
  <2> QED
    BY <1>2, <2>2, <2>3, <2>4
<1> QED
  BY <1>1, <1>3, <1>4

\* Every cell is a header of the layout or inside a chunk.
LEMMA InsideSome ==
  ASSUME NEW mem, NEW T, Laid(mem, T), NEW a \in Addrs, a \notin T \cup {AreaSize}
  PROVE  \E t \in T : a \in Within(mem, t)
<1>1. /\ a \in Nat /\ a < AreaSize /\ 0 \in T /\ T \in SUBSET Nat /\ 0 < a
  BY LayoutIs, AddrsAre
<1>2. PICK D : D = {a - t : t \in {t \in T : t < a}}
  OBVIOUS
<1>3. D \in SUBSET Nat /\ D # {}
  <2>1. \A t \in {t \in T : t < a} : a - t \in Nat
    BY <1>1
  <2>2. 0 \in {t \in T : t < a}
    BY <1>1
  <2> QED
    BY <1>2, <2>1, <2>2
<1>4. PICK x \in D : \A y \in D : x <= y
  BY <1>3, LeastOf
<1>5. PICK t \in T : t < a /\ x = a - t
  BY <1>2
<1>6. PICK n : n = NextChunk(mem, t)
  OBVIOUS
<1>7. n \in T \cup {AreaSize} /\ t < n
  BY <1>6, ChunkIs
<1>8. ~(n < a)
  <2> SUFFICES ASSUME n < a
               PROVE  FALSE
    OBVIOUS
  <2>1. n \in T
    BY <1>1, <1>7, AddrsAre
  <2>2. a - n \in D
    BY <1>2, <2>1
  <2>3. x <= a - n
    BY <1>4, <2>2
  <2> QED
    BY <1>1, <1>5, <1>7, <2>1, <2>3
<1>9. n # a
  BY <1>7
<1>10. n \in Nat
  BY <1>1, <1>7, AddrsAre
<1>11. a < n
  BY <1>1, <1>8, <1>9, <1>10
<1> QED
  BY <1>5, <1>6, <1>11 DEF Within

\* Moving what is in a block into the chunk at `to`.
LEMMA MovedIs ==
  ASSUME NEW q, NEW T, NEW B, Sound(q, T, B), NEW to \in T, to \in B,
         NEW from \in Addrs, NEW size \in Nat, size <= Size(q.mem, to),
         from + size <= AreaSize, size % 64 = 0,
         NEW m, m = Moved(q.mem, from, to, size), NEW r, r = WithMem(q, m)
  PROVE  /\ Sound(r, T, B) /\ r.mem = m
         /\ UsedOf(m, T) = UsedOf(q.mem, T) /\ Size(m, to) = Size(q.mem, to)
         /\ \A t \in UsedOf(q.mem, T) \ {to} : Untouched(q.mem, m, t)
<1>1. PICK mem : mem = q.mem
  OBVIOUS
<1>2. /\ q \in Pools /\ Laid(mem, T) /\ Merged(mem, T) /\ Clean(mem, T, B)
      /\ Binned(q, FreeOf(mem, T)) /\ mem \in Memories
  BY <1>1 DEF Sound, Laid
<1>3. /\ to \in Addrs /\ to \in Nat /\ Size(mem, to) \in Nat
      /\ NextChunk(mem, to) = to + Size(mem, to) /\ Addrs \in SUBSET Nat
      /\ from \in Nat /\ AreaSize \in Nat
  BY <1>2, ChunkIs, AddrsAre
<1>4. m = [a \in Addrs |-> IF a > to /\ a - to < size
                           THEN IF IsHeader(mem[from + (a - to)]) THEN Junk
                                ELSE mem[from + (a - to)]
                           ELSE mem[a]]
  BY <1>1 DEF Moved
<1>5. ASSUME NEW a \in Addrs, a > to /\ a - to < size
      PROVE  /\ a \in Within(mem, to)
             /\ m[a] \in Pieces
  <2>1. a \in Nat /\ to < a /\ a < NextChunk(mem, to)
    BY <1>1, <1>3, <1>5
  <2>2. a \in Within(mem, to)
    BY <2>1 DEF Within
  <2>3. a - to \in Int /\ (a - to) % kAlign = 0
    BY <1>3, Distance
  <2>4. from + (a - to) \in Addrs
    BY <1>3, <1>5, <2>1, <2>3, Reach
  <2>5. mem[from + (a - to)] \in Headers \cup Pieces
    BY <1>2, <2>4 DEF Memories
  <2>6. m[a] = IF IsHeader(mem[from + (a - to)]) THEN Junk ELSE mem[from + (a - to)]
    BY <1>4, <1>5
  <2> QED
    BY <2>2, <2>5, <2>6, HeaderIs
<1>6. \A a \in Addrs : a \notin Within(mem, to) => m[a] = mem[a]
  BY <1>4, <1>5
<1>7. m \in Memories
  <2>1. \A a \in Addrs : m[a] \in Headers \cup Pieces
    <3> SUFFICES ASSUME NEW a \in Addrs
                 PROVE  m[a] \in Headers \cup Pieces
      OBVIOUS
    <3>1. CASE a > to /\ a - to < size
      BY <1>5, <3>1
    <3>2. CASE ~(a > to /\ a - to < size)
      BY <1>2, <1>4, <3>2 DEF Memories
    <3> QED
      BY <3>1, <3>2
  <2> QED
    BY <1>4, <2>1 DEF Memories
<1>8. \A x \in T \cup {AreaSize} : m[x] = mem[x]
  <2>1. \A x \in T \cup {AreaSize} : x \in Addrs /\ x \notin Within(mem, to)
    BY <1>2, InsideOne, LayoutIs
  <2> QED
    BY <1>6, <2>1
<1>9. /\ Laid(m, T) /\ FreeOf(m, T) = FreeOf(mem, T) /\ UsedOf(m, T) = UsedOf(mem, T)
      /\ Merged(m, T)
      /\ \A t \in T : /\ Size(m, t) = Size(mem, t) /\ NextChunk(m, t) = NextChunk(mem, t)
                      /\ Within(m, t) = Within(mem, t)
                      /\ (InUse(m, t) <=> InUse(mem, t))
  BY <1>2, <1>7, <1>8, InsideOnly
<1>10. ASSUME NEW t \in T, t # to, NEW a \in Within(mem, t)
       PROVE  m[a] = mem[a]
  <2>1. a \in Addrs /\ a \notin Within(mem, to)
    BY <1>2, <1>10, InsideOne
  <2> QED
    BY <1>6, <2>1
<1>11. Clean(m, T, B)
  <2> SUFFICES ASSUME NEW t \in T \ B, InUse(m, t), NEW a \in Within(m, t)
               PROVE  ~IsHeader(m[a])
    BY DEF Clean
  <2>1. InUse(mem, t) /\ a \in Within(mem, t) /\ t # to
    BY <1>9
  <2>2. ~IsHeader(mem[a])
    BY <1>2, <2>1 DEF Clean
  <2> QED
    BY <1>10, <2>1, <2>2
<1>12. r \in Pools /\ r.mem = m /\ Binned(r, FreeOf(mem, T))
  <2>1. PICK F : F = FreeOf(mem, T)
    OBVIOUS
  <2>2. \A t \in F : m[t].size = q.mem[t].size
    BY <1>1, <1>8, <2>1 DEF FreeOf
  <2> QED
    BY <1>2, <1>7, <2>1, <2>2, WithMemIs
<1>13. \A t \in UsedOf(mem, T) \ {to} : Untouched(mem, m, t)
  BY <1>8, <1>10 DEF UsedOf, Untouched
<1> QED
  BY <1>1, <1>9, <1>11, <1>12, <1>13 DEF Sound

\* After a call its owner writes to the block, and no one reads free chunks.
LEMMA SettledIs ==
  ASSUME NEW q, NEW T, NEW B, Sound(q, T, B), NEW p,
         \/ p = NULL /\ B = {}
         \/ p \in UsedOf(q.mem, T) /\ B = {p},
         NEW r, r = Settled(q, p)
  PROVE  /\ Sound(r, T, {}) /\ Chunks(r.mem) = T
         /\ UsedOf(r.mem, T) = UsedOf(q.mem, T)
         /\ \A t \in T : Size(r.mem, t) = Size(q.mem, t)
         /\ \A t \in UsedOf(q.mem, T) \ {p} : Untouched(q.mem, r.mem, t)
<1>1. PICK mem : mem = q.mem
  OBVIOUS
<1>2. /\ q \in Pools /\ Laid(mem, T) /\ Merged(mem, T) /\ Clean(mem, T, B)
      /\ Binned(q, FreeOf(mem, T)) /\ mem \in Memories /\ T \in SUBSET Addrs
  <2>1. Laid(mem, T)
    BY <1>1 DEF Sound
  <2> QED
    BY <1>1, <2>1, LayoutIs DEF Sound
<1>3. UNION {ToSet(q.bins[i]) : i \in AllocBins} = FreeOf(mem, T)
  <2>1. \A i \in AllocBins : \A t : t \in ToSet(q.bins[i]) <=> t \in FreeOf(mem, T) /\ BinIndex(Size(mem, t)) = i
    BY <1>1, <1>2 DEF Binned, Bin
  <2>2. \A t \in FreeOf(mem, T) : BinIndex(Size(mem, t)) \in AllocBins
    BY <1>1, <1>2, BinIndexInRange DEF Binned
  <2> QED
    BY <2>1, <2>2
<1>4. PICK m : m = [a \in Addrs |->
            IF p # NULL /\ p < a /\ a < p + Size(mem, p) THEN Piece((a - p) \div kAlign)
            ELSE IF \E c \in FreeOf(mem, T) : c < a /\ a < c + Size(mem, c) THEN Junk
            ELSE mem[a]]
  OBVIOUS
<1>5. r = WithMem(q, m)
  BY <1>1, <1>3, <1>4 DEF Settled
<1>6. p # NULL => /\ p \in T /\ p \in UsedOf(mem, T) /\ B = {p} /\ p \in Addrs
                  /\ NextChunk(mem, p) = p + Size(mem, p)
  BY <1>1, <1>2 DEF UsedOf, NextChunk
<1>7. p = NULL => B = {}
  BY AddrsAre, <1>1, <1>2 DEF UsedOf
<1>8. ASSUME NEW a \in Addrs
      PROVE  m[a] = IF p # NULL /\ a \in Within(mem, p) THEN Piece((a - p) \div kAlign)
                    ELSE IF \E c \in FreeOf(mem, T) : a \in Within(mem, c) THEN Junk
                    ELSE mem[a]
  BY <1>4 DEF Within, NextChunk
<1>9. ASSUME NEW a \in Addrs, p # NULL, a \in Within(mem, p)
      PROVE  Piece((a - p) \div kAlign) \in Pieces
  <2>1. a \in Nat /\ p \in Nat /\ p < a /\ a <= AreaSize /\ AreaSize \in Nat
    BY <1>6, <1>9, AddrsAre DEF Within
  <2>2. (a - p) \div 64 \in 0 .. AreaSize \div 64
    BY <2>1
  <2> QED
    BY <2>2 DEF Piece, Pieces, kAlign
<1>10. m \in Memories
  <2>1. \A a \in Addrs : m[a] \in Headers \cup Pieces
    BY <1>2, <1>8, <1>9, HeaderIs DEF Memories
  <2> QED
    BY <1>4, <2>1 DEF Memories
<1>11. \A x \in T \cup {AreaSize} : m[x] = mem[x]
  <2> SUFFICES ASSUME NEW x \in T \cup {AreaSize}
               PROVE  m[x] = mem[x]
    OBVIOUS
  <2>1. x \in Addrs /\ \A t \in T : x \notin Within(mem, t)
    BY <1>2, InsideOne, LayoutIs
  <2>2. (p # NULL => x \notin Within(mem, p)) /\ \A c \in FreeOf(mem, T) : x \notin Within(mem, c)
    BY <1>6, <2>1 DEF FreeOf
  <2> QED
    BY <1>8, <2>1, <2>2
<1>12. /\ Laid(m, T) /\ FreeOf(m, T) = FreeOf(mem, T) /\ UsedOf(m, T) = UsedOf(mem, T)
       /\ Merged(m, T)
       /\ \A t \in T : /\ Size(m, t) = Size(mem, t) /\ NextChunk(m, t) = NextChunk(mem, t)
                       /\ Within(m, t) = Within(mem, t)
                       /\ (InUse(m, t) <=> InUse(mem, t))
  BY <1>2, <1>10, <1>11, InsideOnly
<1>13. ASSUME NEW t \in UsedOf(mem, T) \ {p}, NEW a \in Within(mem, t)
       PROVE  m[a] = mem[a] /\ ~IsHeader(m[a])
  <2>1. t \in T /\ InUse(mem, t) /\ t \notin B
    BY <1>6, <1>7 DEF UsedOf
  <2>2. a \in Addrs /\ \A o \in T : a \in Within(mem, o) => o = t
    BY <1>2, <2>1, InsideOne
  <2>3. p # NULL => a \notin Within(mem, p)
    BY <1>6, <2>2
  <2>4. \A c \in FreeOf(mem, T) : a \notin Within(mem, c)
    BY <2>1, <2>2 DEF FreeOf
  <2>5. ~IsHeader(mem[a])
    BY <1>2, <2>1 DEF Clean
  <2> QED
    BY <1>8, <2>2, <2>3, <2>4, <2>5
<1>14. ASSUME NEW t \in T, NEW a \in Within(mem, t)
       PROVE  ~IsHeader(m[a])
  <2>1. a \in Addrs
    BY DEF Within
  <2>2. CASE t = p
    <3>1. p # NULL
      BY <1>2, <2>2, AddrsAre
    <3>2. m[a] \in Pieces
      BY <1>8, <1>9, <2>1, <2>2, <3>1
    <3> QED
      BY <3>2, HeaderIs
  <2>3. CASE t # p /\ InUse(mem, t)
    BY <1>13, <2>3 DEF UsedOf
  <2>4. CASE t # p /\ ~InUse(mem, t)
    <3>1. t \in FreeOf(mem, T)
      BY <2>4 DEF FreeOf
    <3>2. \A o \in T : a \in Within(mem, o) => o = t
      BY <1>2, InsideOne
    <3>3. p # NULL => a \notin Within(mem, p)
      BY <1>6, <2>4, <3>2
    <3>4. m[a] = Junk
      BY <1>8, <2>1, <3>1, <3>3
    <3> QED
      BY <3>4, HeaderIs
  <2> QED
    BY <2>2, <2>3, <2>4
<1>15. Chunks(m) = T
  <2>1. \A a \in Addrs \ {AreaSize} : IsHeader(m[a]) => a \in T
    <3> SUFFICES ASSUME NEW a \in Addrs \ {AreaSize}, a \notin T
                 PROVE  ~IsHeader(m[a])
      OBVIOUS
    <3>1. PICK t \in T : a \in Within(mem, t)
      BY <1>2, InsideSome
    <3> QED
      BY <1>14, <3>1
  <2>2. \A t \in T : t \in Addrs \ {AreaSize} /\ IsHeader(m[t])
    BY <1>12, LayoutIs
  <2> QED
    BY <2>1, <2>2 DEF Chunks
<1>16. Clean(m, T, {})
  BY <1>12, <1>14 DEF Clean
<1>17. r \in Pools /\ r.mem = m /\ Binned(r, FreeOf(mem, T))
  <2>1. PICK F : F = FreeOf(mem, T)
    OBVIOUS
  <2>2. \A t \in F : m[t].size = q.mem[t].size
    BY <1>1, <1>11, <2>1 DEF FreeOf
  <2> QED
    BY <1>2, <1>5, <1>10, <2>1, <2>2, WithMemIs
<1>18. \A t \in UsedOf(mem, T) \ {p} : Untouched(mem, m, t)
  BY <1>11, <1>13 DEF UsedOf, Untouched
<1> QED
  BY <1>1, <1>12, <1>15, <1>16, <1>17, <1>18 DEF Sound

\* r is q after a call that gave up the block p and returned one at `to`, of
\* which only the owner still has to write.
Served(q, T, p, to, size, r) ==
    \E T1 : /\ Sound(r, T1, {to})
            /\ UsedOf(r.mem, T1) = (UsedOf(q.mem, T) \ {p}) \cup {to}
            /\ to \notin UsedOf(q.mem, T) \ {p}
            /\ \A t \in UsedOf(q.mem, T) \ {p} : Untouched(q.mem, r.mem, t)
            /\ Size(r.mem, to) >= size /\ Size(r.mem, to) < size + 128

\* A run is its first chunk, and the run from the next on.
LEMMA RunNext ==
  ASSUME NEW mem, NEW T, Laid(mem, T), NEW c \in T, NEW n, n = NextChunk(mem, c),
         NEW e \in T \cup {AreaSize}, n <= e
  PROVE  c < e /\ Run(T, c, e) = {c} \cup Run(T, n, e)
<1>1. /\ c < n /\ \A o \in T : ~(c < o /\ o < n)
      /\ n \in T \cup {AreaSize}
  BY ChunkIs
<1>2. T \in SUBSET Nat /\ c \in Nat /\ n \in Nat /\ e \in Nat
  BY <1>1, LayoutIs
<1>3. c < e
  BY <1>1, <1>2
<1>4. ASSUME NEW t \in T
      PROVE  (c <= t /\ t < e) <=> (t = c \/ (n <= t /\ t < e))
  <2>1. t \in Nat /\ ~(c < t /\ t < n)
    BY <1>1, <1>2
  <2> QED
    BY <1>1, <1>2, <1>3, <2>1
<1> QED
  BY <1>3, <1>4 DEF Run

\* No chunk is between an address and itself.
LEMMA RunEmpty ==
  ASSUME NEW T \in SUBSET Nat, NEW e \in Nat
  PROVE  Run(T, e, e) = {}
<1>1. \A t \in T : ~(e <= t /\ t < e)
  OBVIOUS
<1> QED
  BY <1>1 DEF Run

\* The block is large enough already.
LEMMA FitsIs ==
  ASSUME NEW q, NEW T, Sound(q, T, {}), NEW p \in UsedOf(q.mem, T),
         NEW size \in Nat, LegalSize(size), size <= Size(q.mem, p),
         NEW r, r = SplitOff(q, p, Size(q.mem, p), size)
  PROVE  Served(q, T, p, p, size, r)
<1>1. PICK mem : mem = q.mem
  OBVIOUS
<1>2. /\ q \in Pools /\ Laid(mem, T) /\ Merged(mem, T) /\ Clean(mem, T, {})
      /\ Binned(q, FreeOf(mem, T)) /\ p \in T /\ InUse(mem, p)
  BY <1>1 DEF Sound, UsedOf
<1>3. PICK e : e = NextChunk(mem, p)
  OBVIOUS
<1>4. PICK whole : whole = Size(mem, p)
  OBVIOUS
<1>5. e \in T \cup {AreaSize} /\ e = p + whole /\ p < e /\ p \in Nat /\ whole \in Nat
  BY <1>2, <1>3, <1>4, ChunkIs
<1>a. whole = e - p
  BY <1>5
<1>6. Run(T, p, e) = {p} /\ whole = e - p
  BY <1>2, <1>3, <1>a, RunOfOne
<1>7. Binned(q, FreeOf(mem, T) \ Run(T, p, e))
  <2>1. FreeOf(mem, T) \ {p} = FreeOf(mem, T)
    BY <1>2 DEF FreeOf
  <2> QED
    BY <1>2, <1>6, <2>1
<1>8. PICK B : B = {}
  OBVIOUS
<1>9. CutTo(q, T, Run(T, p, e), B, p, size, r)
  <2>1. Laid(q.mem, T) /\ Merged(q.mem, T) /\ Clean(q.mem, T, B) /\ p \in T
    BY <1>1, <1>2, <1>8
  <2>2. Binned(q, FreeOf(q.mem, T) \ Run(T, p, e))
    BY <1>1, <1>7
  <2>3. r = SplitOff(q, p, whole, size) /\ size <= whole
    BY <1>1, <1>4
  <2>4. e \in T \cup {AreaSize} /\ p < e /\ whole = e - p
    BY <1>5, <1>6
  <2> QED
    BY <1>2, <2>1, <2>2, <2>3, <2>4, SplitOffIs
<1>10. B \cup {p} = {p}
  BY <1>8
<1> QED
  BY <1>6, <1>9, <1>10 DEF Served, CutTo

\* The block grows into the free chunk behind it.
LEMMA ForwardIs ==
  ASSUME NEW q, NEW T, Sound(q, T, {}), NEW p \in UsedOf(q.mem, T),
         NEW n, n = NextChunk(q.mem, p), ~InUse(q.mem, n),
         NEW size \in Nat, LegalSize(size), NEW whole, whole = Size(q.mem, p) + Size(q.mem, n),
         size <= whole, NEW r, r = SplitOff(UnlinkFree(q, n), p, whole, size)
  PROVE  Served(q, T, p, p, size, r)
<1>1. PICK mem : mem = q.mem
  OBVIOUS
<1>2. /\ q \in Pools /\ Laid(mem, T) /\ Merged(mem, T) /\ Clean(mem, T, {})
      /\ Binned(q, FreeOf(mem, T)) /\ p \in T /\ InUse(mem, p)
  BY <1>1 DEF Sound, UsedOf
<1>3. n = NextChunk(mem, p) /\ ~InUse(mem, n)
  BY <1>1
<1>4. n \in T \cup {AreaSize} /\ n # AreaSize
  BY <1>2, <1>3, ChunkIs, LayoutIs
<1>5. PICK e : e = NextChunk(mem, n)
  OBVIOUS
<1>6. n \in T /\ n \in FreeOf(mem, T)
  BY <1>3, <1>4 DEF FreeOf
<1>7. /\ n = p + Size(mem, p) /\ e = n + Size(mem, n) /\ e \in T \cup {AreaSize}
      /\ Size(mem, p) \in Nat /\ Size(mem, n) \in Nat /\ p \in Nat /\ n < e
      /\ n \in Nat /\ e \in Nat
  BY <1>2, <1>3, <1>5, <1>6, ChunkIs, LayoutIs
<1>8. whole = e - p /\ n <= e
  BY <1>1, <1>7
<1>9. p < e /\ Run(T, p, e) = {p, n}
  <2>1. Run(T, n, e) = {n}
    BY <1>2, <1>5, <1>6, RunOfOne
  <2>2. p < e /\ Run(T, p, e) = {p} \cup Run(T, n, e)
    <3>1. e \in T \cup {AreaSize} /\ n <= e
      BY <1>7, <1>8
    <3> QED
      BY <1>2, <1>3, <3>1, RunNext
  <2> QED
    BY <2>1, <2>2
<1>10. PICK u : u = UnlinkFree(q, n)
  OBVIOUS
<1>11. u \in Pools /\ u.mem = mem /\ Binned(u, FreeOf(mem, T) \ Run(T, p, e))
  <2>1. PICK F : F = FreeOf(mem, T)
    OBVIOUS
  <2>2. u \in Pools /\ u.mem = q.mem /\ Binned(u, F \ {n})
    BY <1>2, <1>6, <1>10, <2>1, UnlinkFreeIs
  <2>3. F \ {n} = FreeOf(mem, T) \ Run(T, p, e)
    BY <1>2, <1>9, <2>1 DEF FreeOf
  <2> QED
    BY <1>1, <2>2, <2>3
<1>12. PICK B : B = {}
  OBVIOUS
<1>w. PICK w : w = whole
  OBVIOUS
<1>13. CutTo(u, T, Run(T, p, e), B, p, size, r)
  <2>1. Laid(u.mem, T) /\ Merged(u.mem, T) /\ Clean(u.mem, T, B) /\ p \in T
    BY <1>2, <1>11, <1>12
  <2>2. Binned(u, FreeOf(u.mem, T) \ Run(T, p, e))
    BY <1>11
  <2>3. r = SplitOff(u, p, w, size) /\ size <= w
    BY <1>10, <1>w
  <2>4. e \in T \cup {AreaSize} /\ p < e /\ w = e - p
    BY <1>7, <1>8, <1>9, <1>w
  <2> QED
    BY <1>11, <2>1, <2>2, <2>3, <2>4, SplitOffIs
<1>14. B \cup {p} = {p}
  BY <1>12
<1>15. UsedOf(mem, T) \ Run(T, p, e) = UsedOf(mem, T) \ {p}
  BY <1>3, <1>9 DEF UsedOf
<1>16. u.mem = q.mem
  BY <1>1, <1>11
<1> QED
  BY <1>1, <1>13, <1>14, <1>15, <1>16 DEF Served, CutTo

\* The block is moved into the free chunk before it.
LEMMA BackwardIs ==
  ASSUME NEW q \in Pools, NEW T, Laid(q.mem, T), Merged(q.mem, T), Clean(q.mem, T, {}),
         NEW p \in UsedOf(q.mem, T), NEW prev \in FreeOf(q.mem, T),
         prev = PrevChunk(q.mem, p), NextChunk(q.mem, prev) = p,
         NEW e \in T \cup {AreaSize}, NextChunk(q.mem, p) <= e,
         Run(T, p, e) \cap UsedOf(q.mem, T) = {p},
         Binned(q, FreeOf(q.mem, T) \ Run(T, p, e)),
         NEW size \in Nat, LegalSize(size), NEW whole, whole = e - prev, size <= whole,
         Size(q.mem, p) < size,
         NEW r, r = Backward(q, p, whole, size)
  PROVE  Served(q, T, p, prev, size, r)
<1>1. PICK mem : mem = q.mem
  OBVIOUS
<1>2. PICK old : old = Size(mem, p)
  OBVIOUS
<1>3. PICK n : n = NextChunk(mem, p)
  OBVIOUS
<1>4. /\ Laid(mem, T) /\ Merged(mem, T) /\ Clean(mem, T, {}) /\ p \in T /\ prev \in T
      /\ ~InUse(mem, prev) /\ NextChunk(mem, prev) = p
  BY <1>1 DEF UsedOf, FreeOf
<1>5. /\ p \in Addrs /\ p \in Nat /\ old \in Nat /\ n = p + old /\ p < n /\ n \in Addrs
      /\ LegalSize(old) /\ prev < p /\ prev \in Nat
  BY <1>2, <1>3, <1>4, ChunkIs
<1>6. e \in Nat /\ e <= AreaSize /\ n \in Nat /\ AreaSize \in Nat /\ n <= e /\ p <= e
  <2>1. e \in Nat /\ n \in Nat /\ e \in Addrs
    BY <1>4, <1>5, LayoutIs, AddrsAre
  <2> QED
    BY <1>1, <1>3, <1>5, <2>1, AddrsAre
<1>7. prev < e /\ Run(T, prev, e) = {prev} \cup Run(T, p, e)
  BY <1>4, <1>6, RunNext
<1>8. PICK F : F = FreeOf(mem, T) \ Run(T, p, e)
  OBVIOUS
<1>9. prev \in F /\ prev \notin Run(T, p, e)
  <2>1. prev \notin Run(T, p, e)
    BY <1>5 DEF Run
  <2> QED
    BY <1>1, <1>8, <2>1
<1>10. PICK u : u = UnlinkFree(q, prev)
  OBVIOUS
<1>11. u \in Pools /\ u.mem = mem /\ Binned(u, FreeOf(mem, T) \ Run(T, prev, e))
  <2>1. Binned(q, F)
    BY <1>1, <1>8
  <2>2. u \in Pools /\ u.mem = q.mem /\ Binned(u, F \ {prev})
    BY <1>9, <1>10, <2>1, UnlinkFreeIs
  <2>3. F \ {prev} = FreeOf(mem, T) \ Run(T, prev, e)
    BY <1>7, <1>8
  <2> QED
    BY <1>1, <2>2, <2>3
<1>12. PICK B : B = {}
  OBVIOUS
<1>w. PICK w : w = whole
  OBVIOUS
<1>13. PICK split : split = SplitOff(u, prev, w, size)
  OBVIOUS
<1>14. PICK T1 : /\ Sound(split, T1, B \cup {prev})
                 /\ UsedOf(split.mem, T1) = (UsedOf(u.mem, T) \ Run(T, prev, e)) \cup {prev}
                 /\ \A t \in UsedOf(u.mem, T) \ Run(T, prev, e) : Untouched(u.mem, split.mem, t)
                 /\ Size(split.mem, prev) >= size /\ Size(split.mem, prev) < size + 128
  <2>1. Laid(u.mem, T) /\ Merged(u.mem, T) /\ Clean(u.mem, T, B) /\ prev \in T
    BY <1>4, <1>11, <1>12
  <2>2. Binned(u, FreeOf(u.mem, T) \ Run(T, prev, e))
    BY <1>11
  <2>3. e \in T \cup {AreaSize} /\ prev < e /\ w = e - prev /\ size <= w
    BY <1>7, <1>w
  <2>4. u \in Pools
    BY <1>11
  <2>5. CutTo(u, T, Run(T, prev, e), B, prev, size, split)
    BY <1>13, <2>1, <2>2, <2>3, <2>4, SplitOffIs
  <2> QED
    BY <2>5 DEF CutTo
<1>15. UsedOf(u.mem, T) \ Run(T, prev, e) = UsedOf(mem, T) \ {p}
  <2>1. prev \notin UsedOf(mem, T)
    BY <1>4 DEF UsedOf
  <2>2. Run(T, p, e) \cap UsedOf(mem, T) = {p}
    BY <1>1
  <2> QED
    BY <1>7, <1>11, <2>1, <2>2
<1>16. Sound(split, T1, {prev})
  <2>1. B \cup {prev} = {prev}
    BY <1>12
  <2> QED
    BY <1>14, <2>1
<1>17. prev \in T1
  BY <1>14 DEF UsedOf
<1>18. PICK m : m = Moved(split.mem, p, prev, old)
  OBVIOUS
<1>19. r = WithMem(split, m)
  BY <1>1, <1>2, <1>10, <1>11, <1>w, <1>13, <1>18 DEF Backward
<1>20. PICK C : C = {prev}
  OBVIOUS
<1>21. /\ Sound(r, T1, C) /\ r.mem = m
       /\ UsedOf(m, T1) = UsedOf(split.mem, T1) /\ Size(m, prev) = Size(split.mem, prev)
       /\ \A t \in UsedOf(split.mem, T1) \ {prev} : Untouched(split.mem, m, t)
  <2>1. old <= Size(split.mem, prev)
    <3>1. Size(split.mem, prev) \in Nat
      BY <1>16, <1>17, ChunkIs DEF Sound
    <3>2. old < size
      BY <1>1, <1>2
    <3> QED
      BY <1>5, <1>14, <3>1, <3>2
  <2>2. p + old <= AreaSize /\ old % 64 = 0
    <3>1. p + old <= AreaSize
      BY <1>5, <1>6
    <3> QED
      BY <1>5, <3>1 DEF LegalSize, kAlign
  <2>3. Sound(split, T1, C) /\ prev \in C
    BY <1>16, <1>20
  <2> QED
    BY <1>5, <1>17, <1>18, <1>19, <2>1, <2>2, <2>3, MovedIs
<1>22. prev \notin UsedOf(mem, T) \ {p}
  BY <1>4 DEF UsedOf
<1>23. \A t \in UsedOf(mem, T) \ {p} : Untouched(mem, m, t)
  <2> SUFFICES ASSUME NEW t \in UsedOf(mem, T) \ {p}
               PROVE  Untouched(mem, m, t)
    OBVIOUS
  <2>1. Untouched(mem, split.mem, t)
    BY <1>11, <1>14, <1>15
  <2>2. Untouched(split.mem, m, t)
    BY <1>14, <1>15, <1>21, <1>22
  <2> QED
    BY <2>1, <2>2, UntouchedTwice
<1> QED
  BY <1>1, <1>14, <1>15, <1>20, <1>21, <1>22, <1>23 DEF Served

\* Alloc serves its caller.
LEMMA TakenIs ==
  ASSUME NEW q, NEW T, Sound(q, T, {}), NEW p \in FreeOf(q.mem, T),
         NEW size \in Nat, LegalSize(size), size <= IntRange, Size(q.mem, p) >= size,
         NEW r, r = TakeChunk(q, p, size)
  PROVE  Served(q, T, NULL, p, size, r)
<1>1. PICK B : B = {}
  OBVIOUS
<1>2. Sound(q, T, B)
  BY <1>1
<1>b. CutTo(q, T, {}, B, p, size, r)
  BY <1>2, TakeChunkIs
<1>4. B \cup {p} = {p}
  BY <1>1
<1>5. NULL \notin UsedOf(q.mem, T)
  <2>1. Laid(q.mem, T)
    BY DEF Sound
  <2> QED
    BY <2>1, LayoutIs, AddrsAre DEF UsedOf
<1>6. UsedOf(q.mem, T) \ {NULL} = UsedOf(q.mem, T) \ {} /\ p \notin UsedOf(q.mem, T)
  BY <1>5 DEF UsedOf, FreeOf
<1> QED
  BY <1>b, <1>4, <1>6 DEF Served, CutTo

\* The block is moved to a chunk far away, and its own is freed.
LEMMA ElsewhereIs ==
  ASSUME NEW q, NEW T, Sound(q, T, {}), NEW p \in UsedOf(q.mem, T),
         NEW size \in Nat, LegalSize(size), size <= IntRange, Size(q.mem, p) < size,
         NEW to \in FreeOf(q.mem, T), Size(q.mem, to) >= size,
         NEW r, r = Elsewhere(q, p, to, size)
  PROVE  Served(q, T, p, to, size, r)
<1>1. PICK mem : mem = q.mem
  OBVIOUS
<1>2. PICK old : old = Size(mem, p)
  OBVIOUS
<1>3. Laid(mem, T) /\ p \in T /\ InUse(mem, p)
  BY <1>1 DEF Sound, UsedOf
<1>4. /\ p \in Addrs /\ p \in Nat /\ old \in Nat /\ LegalSize(old) /\ p + old <= AreaSize
  <2>1. /\ p \in Addrs /\ p \in Nat /\ old \in Nat /\ LegalSize(old)
        /\ NextChunk(mem, p) = p + old /\ NextChunk(mem, p) \in Addrs
    BY <1>2, <1>3, ChunkIs
  <2> QED
    BY <2>1, AddrsAre
<1>5. PICK taken : taken = TakeChunk(q, to, size)
  OBVIOUS
<1>6. PICK B : B = {}
  OBVIOUS
<1>7. PICK C : C = {to}
  OBVIOUS
<1>8. PICK T1 : /\ Sound(taken, T1, C)
                /\ UsedOf(taken.mem, T1) = UsedOf(mem, T) \cup {to}
                /\ \A t \in UsedOf(mem, T) : Untouched(mem, taken.mem, t)
                /\ Size(taken.mem, to) >= size /\ Size(taken.mem, to) < size + 128
  <2>1. Sound(q, T, B)
    BY <1>6
  <2>2. CutTo(q, T, {}, B, to, size, taken)
    BY <1>5, <2>1, TakeChunkIs
  <2>3. B \cup {to} = C /\ UsedOf(q.mem, T) \ {} = UsedOf(mem, T)
    BY <1>1, <1>6, <1>7
  <2> QED
    BY <1>1, <2>2, <2>3 DEF CutTo
<1>9. to \in T1 /\ to \in C /\ to \notin UsedOf(mem, T) /\ to # p
  BY <1>1, <1>3, <1>7, <1>8 DEF UsedOf, FreeOf
<1>10. PICK m : m = Moved(taken.mem, p, to, old)
  OBVIOUS
<1>11. PICK w : w = WithMem(taken, m)
  OBVIOUS
<1>12. /\ Sound(w, T1, C) /\ w.mem = m
       /\ UsedOf(m, T1) = UsedOf(taken.mem, T1) /\ Size(m, to) = Size(taken.mem, to)
       /\ \A t \in UsedOf(taken.mem, T1) \ {to} : Untouched(taken.mem, m, t)
  <2>1. old <= Size(taken.mem, to)
    <3>1. Size(taken.mem, to) \in Nat
      BY <1>8, <1>9, ChunkIs DEF Sound
    <3>2. old < size
      BY <1>1, <1>2
    <3> QED
      BY <1>4, <1>8, <3>1, <3>2
  <2>2. p + old <= AreaSize /\ old % 64 = 0
    BY <1>4 DEF LegalSize, kAlign
  <2> QED
    BY <1>4, <1>8, <1>9, <1>10, <1>11, <2>1, <2>2, MovedIs
<1>13. r = FreeChunk(w, p)
  BY <1>1, <1>2, <1>5, <1>10, <1>11 DEF Elsewhere
<1>14. p \in T1 /\ InUse(w.mem, p)
  <2>1. p \in UsedOf(m, T1)
    BY <1>1, <1>8, <1>12
  <2> QED
    BY <1>12, <2>1 DEF UsedOf
<1>15. Sound(w, T1, C \cup {p})
  BY <1>12 DEF Sound, Clean
<1>16. PICK T2 : /\ Sound(r, T2, C)
                 /\ UsedOf(r.mem, T2) = UsedOf(w.mem, T1) \ {p}
                 /\ \A t \in UsedOf(w.mem, T1) \ {p} : Untouched(w.mem, r.mem, t)
  <2>1. GivenBack(w, T1, C, p, r)
    BY <1>13, <1>14, <1>15, FreeChunkIs
  <2> QED
    BY <2>1 DEF GivenBack
<1>17. UsedOf(w.mem, T1) \ {p} = (UsedOf(mem, T) \ {p}) \cup {to}
  BY <1>8, <1>9, <1>12
<1>18. \A t \in UsedOf(mem, T) \ {p} : Untouched(mem, r.mem, t)
  <2> SUFFICES ASSUME NEW t \in UsedOf(mem, T) \ {p}
               PROVE  Untouched(mem, r.mem, t)
    OBVIOUS
  <2>1. Untouched(mem, taken.mem, t)
    BY <1>8
  <2>2. Untouched(taken.mem, m, t)
    BY <1>8, <1>9, <1>12
  <2>3. Untouched(m, r.mem, t)
    BY <1>12, <1>16, <1>17
  <2>4. Untouched(mem, m, t)
    BY <2>1, <2>2, UntouchedTwice
  <2> QED
    BY <2>3, <2>4, UntouchedTwice
<1>19. Size(r.mem, to) = Size(taken.mem, to)
  <2>1. Untouched(m, r.mem, to)
    BY <1>9, <1>12, <1>16, <1>17
  <2> QED
    BY <1>12, <2>1 DEF Untouched, Size
<1> QED
  BY <1>1, <1>7, <1>8, <1>9, <1>16, <1>17, <1>18, <1>19 DEF Served

\* A chunk with a free one before it.
LEMMA PrevIs ==
  ASSUME NEW mem, NEW T, Laid(mem, T), NEW p \in T, InUse(mem, p),
         NEW prev, prev = PrevChunk(mem, p), ~InUse(mem, prev)
  PROVE  /\ prev \in FreeOf(mem, T) /\ prev \in Nat /\ NextChunk(mem, prev) = p
         /\ PrevSize(mem, p) \in Nat /\ p = prev + PrevSize(mem, p)
<1>1. p \in Nat /\ p \in Addrs /\ mem[0].prev = Word(0, TRUE)
  BY ChunkIs DEF Laid
<1>2. p # 0
  <2> SUFFICES ASSUME p = 0
               PROVE  FALSE
    OBVIOUS
  <2>1. PrevSize(mem, p) = 0
    BY <1>1 DEF PrevSize, Word
  <2>2. prev = p
    BY <2>1 DEF PrevChunk
  <2> QED
    BY <2>2
<1>3. PICK o \in T : NextChunk(mem, o) = p
  BY <1>2, LayoutIs
<1>4. PICK s : s = Size(mem, o)
  OBVIOUS
<1>5. /\ o \in Nat /\ s \in Nat /\ p = o + s /\ mem[p].prev = mem[o].size
      /\ (o \in FreeOf(mem, T) <=> ~InUse(mem, o))
  BY <1>3, <1>4, ChunkIs
<1>6. PrevSize(mem, p) = s
  BY <1>4, <1>5 DEF PrevSize, Size
<1>7. prev = o
  <2>1. prev = p - s
    BY <1>6 DEF PrevChunk
  <2> QED
    BY <1>5, <2>1
<1> QED
  BY <1>3, <1>5, <1>6, <1>7

\* The ways and what each has found out.
WayFound(mem, way, size, old, n, prev) ==
    \/ way = "fits" /\ old >= size
    \/ way = "forward" /\ old < size /\ ~InUse(mem, n) /\ old + Size(mem, n) >= size
    \/ /\ way = "both" /\ old < size /\ ~InUse(mem, n) /\ ~InUse(mem, prev)
       /\ Size(mem, prev) + old + Size(mem, n) >= size
    \/ way = "backward" /\ old < size /\ ~InUse(mem, prev) /\ Size(mem, prev) + old >= size
    \/ way = "elsewhere" /\ old < size

\* ReallocWay tells one of them.
LEMMA WayIs ==
  ASSUME NEW q, NEW p, NEW size \in Nat, NEW old \in Nat, old = Size(q.mem, p),
         NEW n, n = NextChunk(q.mem, p), NEW prev, prev = PrevChunk(q.mem, p)
  PROVE  WayFound(q.mem, ReallocWay(q, p, size), size, old, n, prev)
<1>1. PICK nextFree : nextFree = IF InUse(q.mem, n) THEN 0 ELSE Size(q.mem, n)
  OBVIOUS
<1>2. PICK prevFree : prevFree = IF InUse(q.mem, prev) THEN 0 ELSE Size(q.mem, prev)
  OBVIOUS
<1>3. ReallocWay(q, p, size) =
        IF old >= size THEN "fits"
        ELSE IF nextFree > 0 /\ old + nextFree >= size THEN "forward"
        ELSE IF nextFree > 0 /\ prevFree > 0 /\ prevFree + old + nextFree >= size THEN "both"
        ELSE IF prevFree > 0 /\ prevFree + old >= size THEN "backward"
        ELSE "elsewhere"
  BY <1>1, <1>2 DEF ReallocWay
<1>4. nextFree > 0 => ~InUse(q.mem, n) /\ nextFree = Size(q.mem, n)
  BY <1>1
<1>5. prevFree > 0 => ~InUse(q.mem, prev) /\ prevFree = Size(q.mem, prev)
  BY <1>2
<1> QED
  BY <1>3, <1>4, <1>5 DEF WayFound

\* Whatever way Realloc goes, it serves its caller and leaves the others alone.
LEMMA ReallocatedIs ==
  ASSUME NEW q, NEW T, Sound(q, T, {}), NEW p \in UsedOf(q.mem, T),
         NEW size \in Nat, LegalSize(size), size <= IntRange,
         NEW to, to = ReallocTo(q, p, size), to # NULL,
         NEW r, r = Reallocated(q, p, size)
  PROVE  Served(q, T, p, to, size, r)
<1>1. PICK mem : mem = q.mem
  OBVIOUS
<1>2. PICK old : old = Size(mem, p)
  OBVIOUS
<1>3. PICK n : n = NextChunk(mem, p)
  OBVIOUS
<1>4. PICK prev : prev = PrevChunk(mem, p)
  OBVIOUS
<1>5. /\ q \in Pools /\ Laid(mem, T) /\ Merged(mem, T) /\ Clean(mem, T, {})
      /\ Binned(q, FreeOf(mem, T)) /\ p \in T /\ InUse(mem, p)
  BY <1>1 DEF Sound, UsedOf
<1>6. /\ old \in Nat /\ p \in Nat /\ n = p + old /\ n \in Nat /\ p < n
      /\ n \in T \cup {AreaSize}
  BY <1>2, <1>3, <1>5, ChunkIs, LayoutIs
<1>7. CASE ReallocWay(q, p, size) = "fits" /\ old >= size
  <2>1. to = p /\ r = SplitOff(q, p, Size(q.mem, p), size)
    BY <1>7 DEF ReallocTo, Reallocated
  <2>2. size <= Size(q.mem, p)
    BY <1>1, <1>2, <1>7
  <2> QED
    BY <2>1, <2>2, FitsIs
<1>8. CASE /\ ReallocWay(q, p, size) = "forward" /\ old < size
           /\ ~InUse(mem, n) /\ old + Size(mem, n) >= size
  <2>1. PICK whole : whole = old + Size(mem, n)
    OBVIOUS
  <2>2. to = p /\ r = SplitOff(UnlinkFree(q, n), p, whole, size)
    BY <1>1, <1>2, <1>3, <1>8, <2>1 DEF ReallocTo, Reallocated
  <2>3. whole = Size(q.mem, p) + Size(q.mem, n) /\ n = NextChunk(q.mem, p) /\ ~InUse(q.mem, n)
    BY <1>1, <1>2, <1>3, <1>8, <2>1
  <2>4. size <= whole
    <3>1. n \in T
      BY <1>5, <1>6, <1>8, LayoutIs
    <3>2. Size(mem, n) \in Nat
      BY <1>5, <3>1, ChunkIs
    <3> QED
      BY <1>6, <1>8, <2>1, <3>2
  <2> QED
    BY <2>2, <2>3, <2>4, ForwardIs
<1>9. CASE /\ ReallocWay(q, p, size) = "both" /\ old < size
           /\ ~InUse(mem, n) /\ ~InUse(mem, prev)
           /\ Size(mem, prev) + old + Size(mem, n) >= size
  <2>1. PICK ps : ps = PrevSize(mem, p)
    OBVIOUS
  <2>2. PICK u : u = UnlinkFree(q, n)
    OBVIOUS
  <2>3. PICK e : e = NextChunk(mem, n)
    OBVIOUS
  <2>4. PICK whole : whole = ps + old + Size(mem, n)
    OBVIOUS
  <2>5. to = prev /\ r = Backward(u, p, whole, size)
    BY <1>1, <1>2, <1>3, <1>4, <1>9, <2>1, <2>2, <2>4 DEF ReallocTo, Reallocated
  <2>6. /\ prev \in FreeOf(mem, T) /\ prev \in Nat /\ NextChunk(mem, prev) = p
        /\ ps \in Nat /\ p = prev + ps
    BY <1>4, <1>5, <1>9, <2>1, PrevIs
  <2>7. n \in T /\ n \in FreeOf(mem, T)
    BY <1>5, <1>6, <1>9, LayoutIs DEF FreeOf
  <2>8. /\ e \in T \cup {AreaSize} /\ Size(mem, n) \in Nat /\ e = n + Size(mem, n) /\ n < e
    BY <1>5, <2>3, <2>7, ChunkIs
  <2>9. whole = e - prev /\ n <= e
    BY <1>6, <2>4, <2>6, <2>8
  <2>10. size <= whole
    <3>1. Size(mem, prev) = ps
      <4>1. prev \in T
        BY <2>6 DEF FreeOf
      <4>2. Size(mem, prev) \in Nat /\ p = prev + Size(mem, prev)
        BY <1>5, <2>6, <4>1, ChunkIs
      <4> QED
        BY <2>6, <4>2
    <3> QED
      BY <1>6, <1>9, <2>4, <2>6, <2>8, <3>1
  <2>11. Run(T, p, e) = {p, n}
    <3>1. Run(T, n, e) = {n}
      BY <1>5, <2>3, <2>7, RunOfOne
    <3>2. p < e /\ Run(T, p, e) = {p} \cup Run(T, n, e)
      BY <1>3, <1>5, <2>8, <2>9, RunNext
    <3> QED
      BY <3>1, <3>2
  <2>12. u \in Pools /\ u.mem = mem /\ Binned(u, FreeOf(mem, T) \ Run(T, p, e))
    <3>1. PICK F : F = FreeOf(mem, T)
      OBVIOUS
    <3>2. u \in Pools /\ u.mem = q.mem /\ Binned(u, F \ {n})
      BY <1>5, <2>2, <2>7, <3>1, UnlinkFreeIs
    <3>3. F \ {n} = FreeOf(mem, T) \ Run(T, p, e)
      BY <1>5, <2>11, <3>1 DEF FreeOf
    <3> QED
      BY <1>1, <3>2, <3>3
  <2>13. Run(T, p, e) \cap UsedOf(u.mem, T) = {p}
    BY <1>5, <1>9, <2>11, <2>12 DEF UsedOf
  <2>14. Served(u, T, p, prev, size, r)
    <3>1. Laid(u.mem, T) /\ Merged(u.mem, T) /\ Clean(u.mem, T, {})
      BY <1>5, <2>12
    <3>2. /\ p \in UsedOf(u.mem, T) /\ prev \in FreeOf(u.mem, T) /\ prev = PrevChunk(u.mem, p)
          /\ NextChunk(u.mem, prev) = p /\ NextChunk(u.mem, p) <= e /\ Size(u.mem, p) < size
      BY <1>1, <1>2, <1>3, <1>4, <1>9, <2>6, <2>9, <2>12
    <3>3. Binned(u, FreeOf(u.mem, T) \ Run(T, p, e)) /\ u \in Pools
      BY <2>12
    <3> QED
      BY <2>5, <2>8, <2>9, <2>10, <2>13, <3>1, <3>2, <3>3, BackwardIs
  <2> QED
    BY <1>1, <2>5, <2>12, <2>14 DEF Served
<1>10. CASE /\ ReallocWay(q, p, size) = "backward" /\ old < size
            /\ ~InUse(mem, prev) /\ Size(mem, prev) + old >= size
  <2>1. PICK ps : ps = PrevSize(mem, p)
    OBVIOUS
  <2>2. PICK whole : whole = ps + old
    OBVIOUS
  <2>3. to = prev /\ r = Backward(q, p, whole, size)
    BY <1>1, <1>2, <1>4, <1>10, <2>1, <2>2 DEF ReallocTo, Reallocated
  <2>4. /\ prev \in FreeOf(mem, T) /\ prev \in Nat /\ NextChunk(mem, prev) = p
        /\ ps \in Nat /\ p = prev + ps
    BY <1>4, <1>5, <1>10, <2>1, PrevIs
  <2>5. whole = n - prev
    BY <1>6, <2>2, <2>4
  <2>6. size <= whole
    <3>1. Size(mem, prev) = ps
      <4>1. prev \in T
        BY <2>4 DEF FreeOf
      <4>2. Size(mem, prev) \in Nat /\ p = prev + Size(mem, prev)
        BY <1>5, <2>4, <4>1, ChunkIs
      <4> QED
        BY <2>4, <4>2
    <3> QED
      BY <1>6, <1>10, <2>2, <2>4, <3>1
  <2>7. Run(T, p, n) = {p}
    BY <1>3, <1>5, RunOfOne
  <2>8. Binned(q, FreeOf(q.mem, T) \ Run(T, p, n))
    <3>1. FreeOf(mem, T) \ Run(T, p, n) = FreeOf(mem, T)
      BY <1>5, <2>7 DEF FreeOf
    <3> QED
      BY <1>1, <1>5, <3>1
  <2>9. Run(T, p, n) \cap UsedOf(q.mem, T) = {p}
    BY <2>7
  <2>10. Served(q, T, p, prev, size, r)
    <3>1. Laid(q.mem, T) /\ Merged(q.mem, T) /\ Clean(q.mem, T, {}) /\ q \in Pools
      BY <1>1, <1>5
    <3>2. /\ prev \in FreeOf(q.mem, T) /\ prev = PrevChunk(q.mem, p)
          /\ NextChunk(q.mem, prev) = p /\ NextChunk(q.mem, p) <= n /\ Size(q.mem, p) < size
      BY <1>1, <1>2, <1>3, <1>4, <1>6, <1>10, <2>4
    <3> QED
      BY <1>6, <2>3, <2>5, <2>6, <2>8, <2>9, <3>1, <3>2, BackwardIs
  <2> QED
    BY <2>3, <2>10
<1>11. CASE ReallocWay(q, p, size) = "elsewhere" /\ old < size
  <2>1. to = Candidate(q, size) /\ r = Elsewhere(q, p, to, size)
    BY <1>11 DEF ReallocTo, Reallocated
  <2>2. PICK F : F = FreeOf(q.mem, T)
    OBVIOUS
  <2>3. Best(q.mem, F, size, to)
    <3>1. Measured(q.mem, F, size)
      BY <1>1, <1>5, <2>2, FreeMeasured
    <3> QED
      BY <1>1, <1>5, <2>1, <2>2, <3>1, CandidateIs
  <2>4. to \in FreeOf(q.mem, T) /\ Size(q.mem, to) >= size
    BY <2>2, <2>3 DEF Best
  <2>5. Size(q.mem, p) < size
    BY <1>1, <1>2, <1>11
  <2> QED
    BY <2>1, <2>4, <2>5, ElsewhereIs
<1>12. WayFound(q.mem, ReallocWay(q, p, size), size, old, n, prev)
  <2>1. /\ old \in Nat /\ old = Size(q.mem, p) /\ n = NextChunk(q.mem, p)
        /\ prev = PrevChunk(q.mem, p)
    BY <1>1, <1>2, <1>3, <1>4, <1>6
  <2> QED
    BY <2>1, WayIs
<1> QED
  BY <1>1, <1>7, <1>8, <1>9, <1>10, <1>11, <1>12 DEF WayFound

-----------------------------------------------------------------------------
(* One call *)

\* The pool between two calls.
Whole(q) == Sound(q, Chunks(q.mem), {})

\* s is q after a call that gave up the block p and returned one at `to`.
Answered(q, p, to, size, s) ==
    /\ Whole(s)
    /\ Blocks(s.mem) = (Blocks(q.mem) \ {p}) \cup {to} /\ to \notin Blocks(q.mem) \ {p}
    /\ \A t \in Blocks(q.mem) \ {p} : Untouched(q.mem, s.mem, t)
    /\ Size(s.mem, to) >= size /\ Size(s.mem, to) < size + 128

\* s is q after a call that gave up the block p.
Returned(q, p, s) ==
    /\ Whole(s)
    /\ Blocks(s.mem) = Blocks(q.mem) \ {p}
    /\ \A t \in Blocks(q.mem) \ {p} : Untouched(q.mem, s.mem, t)

\* Blocks and free chunks are those of the layout that the headers show.
LEMMA ChunksAre ==
  ASSUME NEW mem
  PROVE  UsedOf(mem, Chunks(mem)) = Blocks(mem) /\ FreeOf(mem, Chunks(mem)) = FreeChunks(mem)
BY DEF UsedOf, FreeOf, Blocks, FreeChunks

\* The owner writes to its block, and the pool is whole.
LEMMA SettledServed ==
  ASSUME NEW q, NEW p, NEW to, NEW size, NEW r, Served(q, Chunks(q.mem), p, to, size, r),
         NEW s, s = Settled(r, to)
  PROVE  Answered(q, p, to, size, s)
<1>1. UsedOf(q.mem, Chunks(q.mem)) = Blocks(q.mem)
  BY ChunksAre
<1>2. PICK D : D = Blocks(q.mem) \ {p}
  OBVIOUS
<1>3. PICK T1 : /\ Sound(r, T1, {to})
                /\ UsedOf(r.mem, T1) = D \cup {to} /\ to \notin D
                /\ \A t \in D : Untouched(q.mem, r.mem, t)
                /\ Size(r.mem, to) >= size /\ Size(r.mem, to) < size + 128
  BY <1>1, <1>2 DEF Served
<1>4. PICK B : B = {to}
  OBVIOUS
<1>5. to \in UsedOf(r.mem, T1) /\ to \in T1
  BY <1>3 DEF UsedOf
<1>6. /\ Sound(s, T1, {}) /\ Chunks(s.mem) = T1
      /\ UsedOf(s.mem, T1) = UsedOf(r.mem, T1)
      /\ \A t \in T1 : Size(s.mem, t) = Size(r.mem, t)
      /\ \A t \in UsedOf(r.mem, T1) \ {to} : Untouched(r.mem, s.mem, t)
  <2>1. Sound(r, T1, B)
    BY <1>3, <1>4
  <2> QED
    BY <1>4, <1>5, <2>1, SettledIs
<1>7. Whole(s) /\ Blocks(s.mem) = D \cup {to}
  BY <1>3, <1>6, ChunksAre DEF Whole
<1>8. ASSUME NEW t \in D
      PROVE  Untouched(q.mem, s.mem, t)
  <2>1. Untouched(q.mem, r.mem, t)
    BY <1>3
  <2>2. Untouched(r.mem, s.mem, t)
    BY <1>3, <1>6
  <2> QED
    BY <2>1, <2>2, UntouchedTwice
<1> QED
  BY <1>2, <1>3, <1>5, <1>6, <1>7, <1>8 DEF Answered

\* The size for a request.
LEMMA RequestIs ==
  ASSUME NEW req \in Requests
  PROVE  /\ req \in Nat /\ RequestToSize(req) \in Nat /\ LegalSize(RequestToSize(req))
         /\ RequestToSize(req) >= req + HeaderSize /\ RequestToSize(req) > 0
         /\ RequestToSize(req) <= IntRange
<1>1. req \in Nat
  BY RequestsAssumption
<1>2. /\ RequestToSize(req) >= req + HeaderSize /\ LegalSize(RequestToSize(req))
  BY <1>1, RequestFits
<1>3. RequestToSize(req) \in Nat /\ RequestToSize(req) > 0
  BY <1>1 DEF RequestToSize, HeaderSize, kAlign, kMinAllocSize
<1> QED
  BY <1>1, <1>2, <1>3, RequestsAssumption

\* Alloc as a whole.
LEMMA AllocServes ==
  ASSUME Whole(pool), NEW req \in Requests, Alloc(req)
  PROVE  \E size, p : /\ size = RequestToSize(req) /\ p = reply'.ptr /\ reply' = Reply(req, p)
                      /\ Best(pool.mem, FreeChunks(pool.mem), size, p)
                      /\ p = NULL => pool' = pool
                      /\ p # NULL => Answered(pool, NULL, p, size, pool')
<1>1. PICK size : size = RequestToSize(req)
  OBVIOUS
<1>2. size \in Nat /\ LegalSize(size) /\ size <= IntRange
  BY <1>1, RequestIs
<1>3. PICK p : p = Candidate(pool, size)
  OBVIOUS
<1>4. /\ reply' = Reply(req, p)
      /\ pool' = IF p = NULL THEN pool ELSE Settled(TakeChunk(pool, p, size), p)
  BY <1>1, <1>3 DEF Alloc
<1>5. p = reply'.ptr
  BY <1>4 DEF Reply
<1>6. PICK F : F = FreeChunks(pool.mem)
  OBVIOUS
<1>7. PICK T : T = Chunks(pool.mem)
  OBVIOUS
<1>8. F = FreeOf(pool.mem, T) /\ Sound(pool, T, {}) /\ pool \in Pools /\ Binned(pool, F)
  BY <1>6, <1>7, ChunksAre DEF Whole, Sound
<1>9. Best(pool.mem, F, size, p)
  <2>1. Measured(pool.mem, F, size)
    <3>1. Laid(pool.mem, T)
      BY <1>8 DEF Sound
    <3> QED
      BY <1>2, <1>8, <3>1, FreeMeasured
  <2> QED
    BY <1>2, <1>3, <1>8, <2>1, CandidateIs
<1>10. CASE p # NULL
  <2>1. p \in FreeOf(pool.mem, T) /\ Size(pool.mem, p) >= size
    BY <1>8, <1>9, <1>10 DEF Best
  <2>2. PICK r : r = TakeChunk(pool, p, size)
    OBVIOUS
  <2>3. Served(pool, T, NULL, p, size, r)
    BY <1>2, <1>8, <2>1, <2>2, TakenIs
  <2>4. Answered(pool, NULL, p, size, pool')
    BY <1>4, <1>7, <1>10, <2>2, <2>3, SettledServed
  <2> QED
    BY <1>1, <1>4, <1>5, <1>6, <1>9, <1>10, <2>4
<1> QED
  BY <1>1, <1>4, <1>5, <1>6, <1>9, <1>10

\* Free as a whole.
LEMMA FreeReturns ==
  ASSUME Whole(pool), NEW p \in Addrs, Free(p)
  PROVE  p \in Blocks(pool.mem) /\ reply' = NoReply /\ Returned(pool, p, pool')
<1>1. /\ p \in Blocks(pool.mem) /\ reply' = NoReply
      /\ pool' = Settled(FreeChunk(pool, p), NULL)
  BY DEF Free
<1>2. PICK T : T = Chunks(pool.mem)
  OBVIOUS
<1>3. UsedOf(pool.mem, T) = Blocks(pool.mem) /\ p \in T /\ InUse(pool.mem, p)
  BY <1>1, <1>2, ChunksAre DEF Blocks
<1>4. PICK B : B = {}
  OBVIOUS
<1>5. Sound(pool, T, B \cup {p})
  <2>1. Sound(pool, T, {})
    BY <1>2 DEF Whole
  <2> QED
    BY <2>1 DEF Sound, Clean
<1>6. PICK r : r = FreeChunk(pool, p)
  OBVIOUS
<1>7. PICK T1 : /\ Sound(r, T1, B)
                /\ UsedOf(r.mem, T1) = UsedOf(pool.mem, T) \ {p}
                /\ \A t \in UsedOf(pool.mem, T) \ {p} : Untouched(pool.mem, r.mem, t)
  <2>1. GivenBack(pool, T, B, p, r)
    BY <1>3, <1>5, <1>6, FreeChunkIs
  <2> QED
    BY <2>1 DEF GivenBack
<1>8. PICK s : s = Settled(r, NULL)
  OBVIOUS
<1>9. PICK null : null = NULL
  OBVIOUS
<1>10. /\ Sound(s, T1, {}) /\ Chunks(s.mem) = T1
       /\ UsedOf(s.mem, T1) = UsedOf(r.mem, T1)
       /\ \A t \in UsedOf(r.mem, T1) \ {null} : Untouched(r.mem, s.mem, t)
  BY <1>4, <1>7, <1>8, <1>9, SettledIs
<1>11. null \notin UsedOf(r.mem, T1)
  <2>1. Laid(r.mem, T1)
    BY <1>7 DEF Sound
  <2> QED
    BY <1>9, <2>1, LayoutIs, AddrsAre DEF UsedOf
<1>12. ASSUME NEW t \in Blocks(pool.mem) \ {p}
       PROVE  Untouched(pool.mem, s.mem, t)
  <2>1. Untouched(pool.mem, r.mem, t)
    BY <1>3, <1>7
  <2>2. Untouched(r.mem, s.mem, t)
    BY <1>3, <1>7, <1>10, <1>11
  <2> QED
    BY <2>1, <2>2, UntouchedTwice
<1>13. Whole(s) /\ Blocks(s.mem) = Blocks(pool.mem) \ {p}
  BY <1>3, <1>7, <1>10, ChunksAre DEF Whole
<1> QED
  BY <1>1, <1>6, <1>8, <1>12, <1>13 DEF Returned

\* Realloc as a whole.
LEMMA ReallocServes ==
  ASSUME Whole(pool), NEW p \in Addrs, NEW req \in Requests, Realloc(p, req)
  PROVE  \E size, to : /\ size = RequestToSize(req) /\ to = ReallocTo(pool, p, size)
                       /\ reply' = Reply(req, to) /\ p \in Blocks(pool.mem)
                       /\ to = NULL => pool' = pool
                       /\ to # NULL => Answered(pool, p, to, size, pool')
<1>1. PICK size : size = RequestToSize(req)
  OBVIOUS
<1>2. size \in Nat /\ LegalSize(size) /\ size <= IntRange
  BY <1>1, RequestIs
<1>3. PICK to : to = ReallocTo(pool, p, size)
  OBVIOUS
<1>4. PICK r : r = Reallocated(pool, p, size)
  OBVIOUS
<1>5. /\ reply' = Reply(req, to) /\ p \in Blocks(pool.mem)
      /\ pool' = IF to = NULL THEN pool ELSE Settled(r, to)
  BY <1>1, <1>3, <1>4 DEF Realloc
<1>6. PICK T : T = Chunks(pool.mem)
  OBVIOUS
<1>7. Sound(pool, T, {}) /\ p \in UsedOf(pool.mem, T)
  BY <1>5, <1>6, ChunksAre DEF Whole
<1>8. CASE to # NULL
  <2>1. Served(pool, T, p, to, size, r)
    BY <1>2, <1>3, <1>4, <1>7, <1>8, ReallocatedIs
  <2>2. Answered(pool, p, to, size, pool')
    BY <1>5, <1>6, <1>8, <2>1, SettledServed
  <2> QED
    BY <1>1, <1>3, <1>5, <1>8, <2>2
<1> QED
  BY <1>1, <1>3, <1>5, <1>8

-----------------------------------------------------------------------------
(* The inductive invariant *)

PoolInv ==
    /\ Whole(pool)
    /\ reply \in [req : Requests \cup {0}, ptr : Addrs \cup {NULL}]
    /\ kept \in BOOLEAN

\* The area as it is when it is new: one free chunk, in no bin yet.
LEMMA EmptyIs ==
  /\ EmptyPool \in Pools /\ Binned(EmptyPool, {})
  /\ Laid(EmptyPool.mem, {0}) /\ Chunks(EmptyPool.mem) = {0}
  /\ ~InUse(EmptyPool.mem, 0) /\ InUse(EmptyPool.mem, AreaSize)
  /\ Size(EmptyPool.mem, 0) = AreaSize /\ NextChunk(EmptyPool.mem, 0) = AreaSize
<1>1. PICK T : T = {0}
  OBVIOUS
<1>2. PICK mem : mem = EmptyPool.mem
  OBVIOUS
<1>3. /\ mem = [a \in Addrs |->
                  IF a = 0 THEN Header(Word(0, TRUE), Word(AreaSize, FALSE))
                  ELSE IF a = AreaSize THEN Header(Word(AreaSize, FALSE), Word(0, TRUE))
                  ELSE Junk]
      /\ EmptyPool.bins = [i \in AllocBins |-> <<>>] /\ EmptyPool.marked = {}
  BY <1>2 DEF EmptyPool
<1>4. AreaSize # 0 /\ 0 \in Addrs /\ AreaSize \in Addrs /\ AreaSize \in Nat
      /\ AreaSize > 0 /\ LegalSize(AreaSize) /\ AreaSize \in Sizes /\ 0 \in Sizes
  BY AddrsAre, SizesAre, AreaSizeAssumption
<1>5. /\ Header(Word(0, TRUE), Word(AreaSize, FALSE)) \in Headers
      /\ Header(Word(AreaSize, FALSE), Word(0, TRUE)) \in Headers
  BY <1>4 DEF Headers, Header, Word, Words
<1>6. mem \in Memories
  BY <1>3, <1>5, HeaderIs DEF Memories
<1>7. /\ mem[0] = Header(Word(0, TRUE), Word(AreaSize, FALSE))
      /\ mem[AreaSize] = Header(Word(AreaSize, FALSE), Word(0, TRUE))
      /\ \A a \in Addrs \ {0, AreaSize} : mem[a] = Junk
  BY <1>3, <1>4
<1>8. /\ IsHeader(mem[0]) /\ IsHeader(mem[AreaSize])
      /\ \A a \in Addrs \ {0, AreaSize} : ~IsHeader(mem[a])
  BY <1>5, <1>7, HeaderIs
<1>9. /\ Size(mem, 0) = AreaSize /\ ~InUse(mem, 0) /\ InUse(mem, AreaSize)
      /\ mem[0].prev = Word(0, TRUE) /\ mem[AreaSize].size = Word(0, TRUE)
      /\ mem[AreaSize].prev = mem[0].size
  BY <1>7 DEF Size, InUse, Word, Header
<1>10. NextChunk(mem, 0) = AreaSize
  BY <1>4, <1>9 DEF NextChunk
<1>11. Chunks(mem) = T
  BY <1>1, <1>4, <1>8 DEF Chunks
<1>12. Follows(mem, T, AreaSize, 0)
  BY <1>1, <1>4, <1>9, <1>10 DEF Follows
<1>13. Tiled(mem, T, 0, AreaSize)
  BY <1>1, <1>4, <1>8, <1>10, <1>12 DEF Tiled
<1>14. Laid(mem, T)
  BY <1>6, <1>9, <1>13 DEF Laid
<1>15. EmptyPool \in Pools
  BY <1>2, <1>3, <1>6 DEF Pools, EmptyPool
<1>16. PICK F : F = {}
  OBVIOUS
<1>17. ASSUME NEW i \in AllocBins
       PROVE  Bin(EmptyPool, F, i)
  <2>1. PICK s : s = EmptyPool.bins[i]
    OBVIOUS
  <2>2. s = <<>> /\ DOMAIN s = {}
    BY <1>3, <2>1
  <2>3. ToSet(s) = {}
    BY <2>2 DEF ToSet
  <2>4. Distinct(s) /\ Sorted(EmptyPool.mem, s)
    BY <2>2 DEF Distinct, Sorted
  <2> QED
    BY <1>16, <2>1, <2>3, <2>4 DEF Bin
<1>18. Binned(EmptyPool, F)
  <2>1. {i \in AllocBins : EmptyPool.bins[i] # <<>>} = {}
    BY <1>3
  <2> QED
    BY <1>3, <1>16, <1>17, <2>1 DEF Binned
<1> QED
  BY <1>1, <1>2, <1>9, <1>10, <1>11, <1>14, <1>15, <1>16, <1>18

\* The invariant holds of a new area.
LEMMA InitIs ==
  ASSUME Init
  PROVE  PoolInv /\ Blocks(pool.mem) = {}
<1>1. pool = LinkFree(EmptyPool, 0) /\ reply = NoReply /\ kept = TRUE
  BY DEF Init
<1>2. PICK q : q = EmptyPool
  OBVIOUS
<1>3. PICK F : F = {}
  OBVIOUS
<1>4. PICK T : T = {0}
  OBVIOUS
<1>5. /\ q \in Pools /\ Binned(q, F) /\ Laid(q.mem, T) /\ Chunks(q.mem) = T
      /\ ~InUse(q.mem, 0) /\ InUse(q.mem, AreaSize)
      /\ Size(q.mem, 0) = AreaSize /\ NextChunk(q.mem, 0) = AreaSize
  BY <1>2, <1>3, <1>4, EmptyIs
<1>6. pool \in Pools /\ pool.mem = q.mem /\ Binned(pool, F \cup {0})
  <2>1. 0 \in Addrs \ F /\ Size(q.mem, 0) \in Nat /\ LegalSize(Size(q.mem, 0))
    BY <1>3, <1>5, AddrsAre, AreaSizeAssumption
  <2> QED
    BY <1>1, <1>2, <1>5, <2>1, LinkFreeIs
<1>7. FreeOf(q.mem, T) = F \cup {0} /\ UsedOf(q.mem, T) = {}
  BY <1>3, <1>4, <1>5 DEF FreeOf, UsedOf
<1>8. Merged(q.mem, T) /\ Clean(q.mem, T, {})
  BY <1>4, <1>5 DEF Merged, Clean
<1>9. Whole(pool)
  BY <1>5, <1>6, <1>7, <1>8 DEF Whole, Sound
<1>10. Blocks(pool.mem) = {}
  BY <1>5, <1>6, <1>7, ChunksAre
<1>11. reply \in [req : Requests \cup {0}, ptr : Addrs \cup {NULL}] /\ kept \in BOOLEAN
  BY <1>1 DEF NoReply
<1> QED
  BY <1>9, <1>10, <1>11 DEF PoolInv

\* What a call returns is a block.
LEMMA AnsweredIs ==
  ASSUME NEW q, NEW p, NEW to, NEW size, NEW s, Answered(q, p, to, size, s)
  PROVE  to \in Blocks(s.mem) /\ to \in Addrs
<1>1. to \in Blocks(s.mem)
  BY DEF Answered
<1> QED
  BY <1>1 DEF Blocks, Chunks

\* What each kind of step does, for all that follows.
LEMMA StepIs ==
  ASSUME PoolInv, [Next]_vars
  PROVE  \/ \E req \in Requests : \E p :
              /\ reply' = Reply(req, p)
              /\ Best(pool.mem, FreeChunks(pool.mem), RequestToSize(req), p)
              /\ \/ p = NULL /\ pool' = pool
                 \/ p # NULL /\ Answered(pool, NULL, p, RequestToSize(req), pool')
         \/ \E p \in Blocks(pool.mem) : reply' = NoReply /\ Returned(pool, p, pool')
         \/ \E req \in Requests, p \in Blocks(pool.mem) : \E to :
              /\ reply' = Reply(req, to) /\ to = ReallocTo(pool, p, RequestToSize(req))
              /\ \/ to = NULL /\ pool' = pool
                 \/ to # NULL /\ Answered(pool, p, to, RequestToSize(req), pool')
         \/ UNCHANGED vars
<1>1. Whole(pool)
  BY DEF PoolInv
<1>2. ASSUME NEW req \in Requests, Alloc(req)
      PROVE  \E p : /\ reply' = Reply(req, p)
                    /\ Best(pool.mem, FreeChunks(pool.mem), RequestToSize(req), p)
                    /\ \/ p = NULL /\ pool' = pool
                       \/ p # NULL /\ Answered(pool, NULL, p, RequestToSize(req), pool')
  BY <1>1, <1>2, AllocServes
<1>3. ASSUME NEW p \in Addrs, Free(p)
      PROVE  p \in Blocks(pool.mem) /\ reply' = NoReply /\ Returned(pool, p, pool')
  BY <1>1, <1>3, FreeReturns
<1>4. ASSUME NEW p \in Addrs, NEW req \in Requests, Realloc(p, req)
      PROVE  \E to : /\ p \in Blocks(pool.mem)
                     /\ reply' = Reply(req, to) /\ to = ReallocTo(pool, p, RequestToSize(req))
                     /\ \/ to = NULL /\ pool' = pool
                        \/ to # NULL /\ Answered(pool, p, to, RequestToSize(req), pool')
  BY <1>1, <1>4, ReallocServes
<1> QED
  BY <1>2, <1>3, <1>4 DEF Next

\* Every step keeps the invariant.
LEMMA PoolInvStep ==
  ASSUME PoolInv, [Next]_vars
  PROVE  PoolInv'
<1>1. Whole(pool)
  BY DEF PoolInv
<1>2. kept' \in BOOLEAN
  <2>1. kept \in BOOLEAN
    BY DEF PoolInv
  <2> QED
    BY <2>1 DEF Next, Alloc, Free, Realloc, vars
<1>3. CASE UNCHANGED vars
  BY <1>3 DEF PoolInv, Whole, vars
<1>4. ASSUME NEW req \in Requests, NEW p, NEW b, reply' = Reply(req, p),
             \/ p = NULL /\ pool' = pool
             \/ p # NULL /\ Answered(pool, b, p, RequestToSize(req), pool')
      PROVE  PoolInv'
  <2>1. p \in Addrs \cup {NULL} /\ Whole(pool')
    BY <1>1, <1>4, AnsweredIs DEF Answered
  <2>2. reply' \in [req : Requests \cup {0}, ptr : Addrs \cup {NULL}]
    BY <1>4, <2>1 DEF Reply
  <2> QED
    BY <1>2, <2>1, <2>2 DEF PoolInv, Whole
<1>5. ASSUME NEW p \in Blocks(pool.mem), reply' = NoReply, Returned(pool, p, pool')
      PROVE  PoolInv'
  <2>1. reply' \in [req : Requests \cup {0}, ptr : Addrs \cup {NULL}]
    BY <1>5 DEF NoReply
  <2> QED
    BY <1>2, <1>5, <2>1 DEF PoolInv, Whole, Returned
<1> QED
  BY <1>3, <1>4, <1>5, StepIs

\* Whatever callers do, in whatever order, the area is cut into chunks with
\* the same tag behind as in front, none free beside a free one, no header
\* within a block, and the free ones are in their bins: what DoCheckPool
\* asserts, of an area of every size and requests up to the range of an int.
THEOREM PoolInvariance == Spec => []PoolInv
<1>1. Init => PoolInv
  BY InitIs
<1>2. PoolInv /\ [Next]_vars => PoolInv'
  BY PoolInvStep
<1> QED
  BY <1>1, <1>2, PTL DEF Spec

\* Every cell is a header with legal sizes or a piece of a block, and every
\* answer a block or the null pointer, for all requests that, header included,
\* are no larger than 2^31 bytes: the remainder of a chunk is kept in an int
\* (SC_AllocPoolSafe.cpp:393, 410).
THEOREM PoolTypeCorrect == Spec => []TypeOK
<1>1. PoolInv => TypeOK
  <2> SUFFICES ASSUME PoolInv PROVE TypeOK
    OBVIOUS
  <2>1. pool \in Pools
    BY DEF PoolInv, Whole, Sound
  <2> QED
    BY <2>1 DEF PoolInv, TypeOK, Pools, Memories, Headers, Pieces
<1> QED
  BY <1>1, PoolInvariance, PTL

\* Each chunk ends where the next begins, with the tag it has in front, after
\* every split, merge and move.
THEOREM PoolChunksTile == Spec => []ChunksTile
<1>1. PoolInv => ChunksTile
  <2> SUFFICES ASSUME PoolInv PROVE ChunksTile
    OBVIOUS
  <2>1. Laid(pool.mem, Chunks(pool.mem))
    BY DEF PoolInv, Whole, Sound
  <2> QED
    BY <2>1, ChunkIs DEF ChunksTile
<1> QED
  BY <1>1, PoolInvariance, PTL

\* Free never leaves two free chunks side by side, and neither does a split
\* or a move.
THEOREM PoolFullyConsolidated == Spec => []FullyConsolidated
<1>1. PoolInv => FullyConsolidated
  <2> SUFFICES ASSUME PoolInv, NEW p \in FreeChunks(pool.mem)
               PROVE  PrevInUse(pool.mem, p) /\ InUse(pool.mem, NextChunk(pool.mem, p))
    BY DEF FullyConsolidated
  <2>1. PICK mem : mem = pool.mem
    OBVIOUS
  <2>2. PICK T : T = Chunks(mem)
    OBVIOUS
  <2>3. Laid(mem, T) /\ Merged(mem, T) /\ p \in T /\ ~InUse(mem, p)
    BY <2>1, <2>2 DEF PoolInv, Whole, Sound, FreeChunks
  <2>4. InUse(mem, NextChunk(mem, p))
    BY <2>3 DEF Merged
  <2>5. PrevInUse(mem, p)
    <3>1. CASE p = 0
      BY <2>3, <3>1 DEF Laid, PrevInUse, Word
    <3>2. CASE p # 0
      <4>1. PICK o \in T : NextChunk(mem, o) = p
        BY <2>3, <3>2, LayoutIs
      <4>2. mem[p].prev = mem[o].size /\ InUse(mem, o)
        BY <2>3, <4>1, ChunkIs DEF Merged
      <4> QED
        BY <4>2 DEF PrevInUse, InUse
    <3> QED
      BY <3>1, <3>2
  <2> QED
    BY <2>1, <2>4, <2>5
<1> QED
  BY <1>1, PoolInvariance, PTL

\* The bins and the bitmap tell all free chunks and no other, each once and
\* in the bin where Alloc looks for its size.
THEOREM PoolBinsHoldFreeChunks == Spec => []BinsHoldFreeChunks
<1>1. PoolInv => BinsHoldFreeChunks
  <2> SUFFICES ASSUME PoolInv PROVE BinsHoldFreeChunks
    OBVIOUS
  <2>1. PICK F : F = FreeChunks(pool.mem)
    OBVIOUS
  <2>2. pool \in Pools /\ Binned(pool, F)
    BY <2>1, ChunksAre DEF PoolInv, Whole, Sound
  <2>3. ASSUME NEW i \in AllocBins, NEW k \in DOMAIN pool.bins[i]
        PROVE  /\ pool.bins[i][k] \in F
               /\ BinIndex2(Size(pool.mem, pool.bins[i][k])) = i
    <3>1. PICK p : p = pool.bins[i][k]
      OBVIOUS
    <3>2. p \in F /\ BinIndex(Size(pool.mem, p)) = i
      BY <2>2, <3>1 DEF Binned, Bin, ToSet
    <3>3. Size(pool.mem, p) \in Nat
      BY <2>2, <3>2 DEF Binned
    <3> QED
      BY <3>1, <3>2, <3>3, BinIndexIsTable
  <2>4. ASSUME NEW p \in F
        PROVE  Cardinality({k \in DOMAIN pool.bins[BinIndex(Size(pool.mem, p))] :
                              pool.bins[BinIndex(Size(pool.mem, p))][k] = p}) = 1
    <3>1. PICK i : i = BinIndex(Size(pool.mem, p))
      OBVIOUS
    <3>2. PICK s : s = pool.bins[i]
      OBVIOUS
    <3>3. i \in AllocBins /\ p \in ToSet(s) /\ Distinct(s)
      BY <2>2, <3>1, <3>2, BinOfIs DEF Binned, Bin
    <3>4. PICK k \in DOMAIN s : s[k] = p
      BY <3>3 DEF ToSet
    <3>5. {j \in DOMAIN s : s[j] = p} = {k}
      BY <3>3, <3>4 DEF Distinct
    <3>6. Cardinality({k}) = 1
      BY FS_Singleton
    <3> QED
      BY <3>1, <3>2, <3>5, <3>6
  <2>5. pool.marked = {i \in AllocBins : pool.bins[i] # <<>>}
    BY <2>2 DEF Binned
  <2> QED
    BY <2>1, <2>3, <2>4, <2>5 DEF BinsHoldFreeChunks
<1> QED
  BY <1>1, PoolInvariance, PTL

-----------------------------------------------------------------------------
(* What a call does to the blocks *)

\* The owner of a block that a call leaves alone sees it as before.
LEMMA UntouchedBlock ==
  ASSUME NEW mem, NEW m, NEW t \in Blocks(mem) \cap Blocks(m), Laid(mem, Chunks(mem)),
         Untouched(mem, m, t)
  PROVE  Block(m, t) = Block(mem, t)
<1>1. PICK size : size = Size(mem, t)
  OBVIOUS
<1>2. /\ t \in Addrs /\ t \in Nat /\ size \in Nat /\ NextChunk(mem, t) = t + size
      /\ t + size \in Addrs /\ LegalSize(size)
  BY <1>1, ChunkIs DEF Blocks
<1>3. Size(m, t) = size
  BY <1>1 DEF Untouched, Size
<1>4. ASSUME NEW i \in Cells(size)
      PROVE  m[t + kAlign * i] = mem[t + kAlign * i]
  <2>1. i \in Nat /\ 1 <= i /\ 64 * i < size /\ size % 64 = 0
    BY <1>2 DEF Cells, kAlign, LegalSize
  <2>2. t < t + 64 * i /\ t + 64 * i < t + size
    BY <1>2, <2>1
  <2>3. t + 64 * i \in Addrs
    BY <1>2, <2>1, <2>2, AddrsAre DEF kAlign
  <2>4. t + 64 * i \in Within(mem, t)
    BY <1>2, <2>2, <2>3 DEF Within
  <2> QED
    BY <2>4 DEF Untouched, kAlign
<1> QED
  BY <1>1, <1>3, <1>4 DEF Block

\* So at most one block changes.
LEMMA OneChanged ==
  ASSUME NEW mem, NEW m, Laid(mem, Chunks(mem)), NEW p,
         \A t \in Blocks(mem) \ {p} : t \in Blocks(m) /\ Untouched(mem, m, t)
  PROVE  Cardinality({t \in Blocks(mem) : Block(mem, t) # Block(m, t)}) <= 1
<1>1. PICK C : C = {t \in Blocks(mem) : Block(mem, t) # Block(m, t)}
  OBVIOUS
<1>2. C \subseteq {p}
  <2>1. \A t \in Blocks(mem) \ {p} : Block(m, t) = Block(mem, t)
    BY UntouchedBlock
  <2> QED
    BY <1>1, <2>1
<1>3. C = {} \/ C = {p}
  BY <1>2
<1>4. Cardinality({}) = 0 /\ Cardinality({p}) = 1
  BY FS_EmptySet, FS_Singleton
<1>5. Cardinality(C) = 0 \/ Cardinality(C) = 1
  BY <1>3, <1>4
<1> QED
  BY <1>1, <1>5

\* Splitting, merging and moving never write into, move or drop a block that
\* another call returned.
THEOREM PoolOneBlockPerCall == Spec => OneBlockPerCall
<1>1. PoolInv /\ [Next]_vars =>
        [Cardinality({p \in Blocks(pool.mem) : Block(pool.mem, p) # Block(pool.mem', p)}) <= 1]_vars
  <2> SUFFICES ASSUME PoolInv, [Next]_vars, ~UNCHANGED vars
               PROVE  Cardinality({p \in Blocks(pool.mem) :
                                      Block(pool.mem, p) # Block(pool.mem', p)}) <= 1
    OBVIOUS
  <2>1. Laid(pool.mem, Chunks(pool.mem))
    BY DEF PoolInv, Whole, Sound
  <2>2. CASE pool' = pool
    <3>1. \A t \in Blocks(pool.mem) \ {NULL} :
             t \in Blocks(pool.mem') /\ Untouched(pool.mem, pool.mem', t)
      BY <2>2 DEF Untouched
    <3> QED
      BY <2>1, <3>1, OneChanged
  <2>3. ASSUME NEW p, NEW to, NEW size, Answered(pool, p, to, size, pool')
        PROVE  Cardinality({t \in Blocks(pool.mem) :
                              Block(pool.mem, t) # Block(pool.mem', t)}) <= 1
    <3>1. \A t \in Blocks(pool.mem) \ {p} :
             t \in Blocks(pool.mem') /\ Untouched(pool.mem, pool.mem', t)
      BY <2>3 DEF Answered
    <3> QED
      BY <2>1, <3>1, OneChanged
  <2>4. ASSUME NEW p, Returned(pool, p, pool')
        PROVE  Cardinality({t \in Blocks(pool.mem) :
                              Block(pool.mem, t) # Block(pool.mem', t)}) <= 1
    <3>1. \A t \in Blocks(pool.mem) \ {p} :
             t \in Blocks(pool.mem') /\ Untouched(pool.mem, pool.mem', t)
      BY <2>4 DEF Returned
    <3> QED
      BY <2>1, <3>1, OneChanged
  <2> QED
    BY <2>2, <2>3, <2>4, StepIs
<1> QED
  BY <1>1, PoolInvariance, PTL DEF Spec, OneBlockPerCall

\* Alloc takes the smallest free chunk that is large enough, wherever its
\* search finds it.
THEOREM PoolAllocBestFit == Spec => AllocBestFit
<1>1. PoolInv /\ [Next]_vars =>
        [\A p \in FreeChunks(pool.mem) :
            Blocks(pool.mem') = Blocks(pool.mem) \cup {p} =>
              \A f \in FreeChunks(pool.mem) :
                  Size(pool.mem, f) >= RequestToSize(reply'.req) =>
                      Size(pool.mem, p) <= Size(pool.mem, f)]_vars
  <2> SUFFICES ASSUME PoolInv, [Next]_vars, ~UNCHANGED vars, NEW p \in FreeChunks(pool.mem),
                      Blocks(pool.mem') = Blocks(pool.mem) \cup {p},
                      NEW f \in FreeChunks(pool.mem),
                      Size(pool.mem, f) >= RequestToSize(reply'.req)
               PROVE  Size(pool.mem, p) <= Size(pool.mem, f)
    OBVIOUS
  <2>1. p \notin Blocks(pool.mem) /\ p \in Addrs
    BY DEF FreeChunks, Blocks, Chunks
  <2>2. pool' # pool
    BY <2>1
  <2>3. ASSUME NEW b \in Blocks(pool.mem), Returned(pool, b, pool')
        PROVE  FALSE
    BY <2>1, <2>3 DEF Returned
  <2>4. ASSUME NEW b \in Blocks(pool.mem), NEW to, NEW size, Answered(pool, b, to, size, pool')
        PROVE  FALSE
    BY <2>1, <2>4 DEF Answered
  <2>5. ASSUME NEW req \in Requests, NEW to, reply' = Reply(req, to),
               Best(pool.mem, FreeChunks(pool.mem), RequestToSize(req), to), to # NULL,
               Answered(pool, NULL, to, RequestToSize(req), pool')
        PROVE  Size(pool.mem, p) <= Size(pool.mem, f)
    <3>1. NULL \notin Blocks(pool.mem)
      BY AddrsAre DEF Blocks, Chunks
    <3>2. Blocks(pool.mem') = Blocks(pool.mem) \cup {to}
      BY <2>5, <3>1 DEF Answered
    <3>3. to = p
      BY <2>1, <3>2
    <3>4. reply'.req = req
      BY <2>5 DEF Reply
    <3> QED
      BY <2>5, <3>3, <3>4 DEF Best
  <2> QED
    BY <2>2, <2>3, <2>4, <2>5, StepIs
<1> QED
  BY <1>1, PoolInvariance, PTL DEF Spec, AllocBestFit

-----------------------------------------------------------------------------
(* The pool is an allocator *)

\* An end of a gap: a block but for `hole`, or the end of the area.
LEMMA GapEnds ==
  ASSUME NEW mem, NEW T, Laid(mem, T), NEW x \in Nat, NEW size \in Nat,
         x + size <= AreaSize, NEW hole,
         \A o \in UsedOf(mem, T) \ {hole} : o + Size(mem, o) <= x \/ x + size <= o,
         NEW e \in T \cup {AreaSize}, InUse(mem, e), e # hole, x < e
  PROVE  x + size <= e
<1>1. CASE e = AreaSize
  BY <1>1
<1>2. CASE e \in T
  <2>1. e \in UsedOf(mem, T) \ {hole} /\ e \in Nat /\ Size(mem, e) \in Nat
    BY <1>2, ChunkIs DEF UsedOf
  <2> QED
    BY <2>1
<1> QED
  BY <1>1, <1>2

\* An address is in one of the chunks, and no block that must be left alone.
LEMMA GapBegins ==
  ASSUME NEW mem, NEW T, Laid(mem, T), NEW x \in Addrs, NEW size \in Nat, size > 0,
         x + size <= AreaSize, NEW hole,
         \A o \in UsedOf(mem, T) \ {hole} : o + Size(mem, o) <= x \/ x + size <= o
  PROVE  \E t \in T : /\ t <= x /\ x < NextChunk(mem, t)
                      /\ t \in FreeOf(mem, T) \/ t = hole
<1>1. x \in Nat /\ x < AreaSize /\ AreaSize \in Nat
  BY AddrsAre
<1>2. PICK t \in T : t <= x /\ x < NextChunk(mem, t)
  <2>1. CASE x \in T
    <3>1. x < NextChunk(mem, x) /\ x <= x
      BY <1>1, <2>1, ChunkIs
    <3> QED
      BY <2>1, <3>1
  <2>2. CASE x \notin T
    <3>1. PICK t \in T : x \in Within(mem, t)
      BY <1>1, <2>2, InsideSome
    <3>2. t < x /\ x < NextChunk(mem, t) /\ t \in Nat
      BY <3>1, ChunkIs DEF Within
    <3>3. t <= x
      BY <1>1, <3>2
    <3> QED
      BY <3>2, <3>3
  <2> QED
    BY <2>1, <2>2
<1>3. t \in Nat /\ Size(mem, t) \in Nat /\ NextChunk(mem, t) = t + Size(mem, t)
  BY ChunkIs
<1>4. t \notin UsedOf(mem, T) \ {hole}
  <2>1. ~(t + Size(mem, t) <= x)
    BY <1>1, <1>2, <1>3
  <2>2. ~(x + size <= t)
    BY <1>1, <1>2, <1>3
  <2> QED
    BY <2>1, <2>2
<1>5. t \in FreeOf(mem, T) \/ t = hole
  BY <1>4 DEF FreeOf, UsedOf
<1> QED
  BY <1>2, <1>5

\* A free chunk is as large as the gap it is in, but for one beside the hole.
LEMMA GapOfFree ==
  ASSUME NEW mem, NEW T, Laid(mem, T), Merged(mem, T), NEW x \in Addrs, NEW size \in Nat, size > 0,
         x + size <= AreaSize, NEW hole,
         \A o \in UsedOf(mem, T) \ {hole} : o + Size(mem, o) <= x \/ x + size <= o,
         NEW t \in FreeOf(mem, T), t <= x, x < NextChunk(mem, t), NextChunk(mem, t) # hole
  PROVE  size <= Size(mem, t)
<1>1. PICK n : n = NextChunk(mem, t)
  OBVIOUS
<1>2. /\ t \in T /\ t \in Nat /\ x \in Nat /\ Size(mem, t) \in Nat /\ n = t + Size(mem, t)
      /\ n \in T \cup {AreaSize} /\ InUse(mem, n)
  BY <1>1, ChunkIs, AddrsAre DEF FreeOf, Merged
<1>3. x < n /\ n # hole
  BY <1>1
<1>4. x + size <= n
  BY <1>2, <1>3, GapEnds
<1> QED
  BY <1>2, <1>4

\* Alloc finds nothing: there is no room.
LEMMA AllocNoRoom ==
  ASSUME NEW mem, NEW T, Laid(mem, T), Merged(mem, T), NEW size \in Nat, size > 0,
         \A f \in FreeOf(mem, T) : ~(Size(mem, f) >= size),
         NEW x \in Addrs, x + size <= AreaSize,
         \A o \in UsedOf(mem, T) : o + Size(mem, o) <= x \/ x + size <= o
  PROVE  FALSE
<1>1. PICK hole : hole = NULL
  OBVIOUS
<1>2. \A o \in UsedOf(mem, T) \ {hole} : o + Size(mem, o) <= x \/ x + size <= o
  OBVIOUS
<1>3. PICK t \in T : t <= x /\ x < NextChunk(mem, t) /\ (t \in FreeOf(mem, T) \/ t = hole)
  BY <1>2, GapBegins
<1>4. /\ t # hole /\ NextChunk(mem, t) # hole /\ t \in Nat /\ Size(mem, t) \in Nat
  BY <1>1, ChunkIs, AddrsAre
<1>5. t \in FreeOf(mem, T) /\ x < NextChunk(mem, t)
  BY <1>3, <1>4
<1>6. size <= Size(mem, t)
  BY <1>2, <1>3, <1>4, <1>5, GapOfFree
<1> QED
  BY <1>4, <1>5, <1>6

\* Realloc finds nothing: there is no room, its own place and its free
\* neighbours included.
LEMMA ReallocNoRoom ==
  ASSUME NEW q, NEW T, Sound(q, T, {}), NEW p \in UsedOf(q.mem, T),
         NEW size \in Nat, LegalSize(size), size > 0, size <= IntRange,
         ReallocTo(q, p, size) = NULL,
         NEW x \in Addrs, x + size <= AreaSize,
         \A o \in UsedOf(q.mem, T) \ {p} : o + Size(q.mem, o) <= x \/ x + size <= o
  PROVE  FALSE
<1>1. PICK mem : mem = q.mem
  OBVIOUS
<1>2. /\ q \in Pools /\ Laid(mem, T) /\ Merged(mem, T) /\ Binned(q, FreeOf(mem, T))
      /\ p \in T /\ InUse(mem, p) /\ x \in Nat
  BY <1>1, AddrsAre DEF Sound, UsedOf
<1>3. \A o \in UsedOf(mem, T) \ {p} : o + Size(mem, o) <= x \/ x + size <= o
  BY <1>1
<1>4. PICK old : old = Size(mem, p)
  OBVIOUS
<1>5. PICK n : n = NextChunk(mem, p)
  OBVIOUS
<1>6. PICK prev : prev = PrevChunk(mem, p)
  OBVIOUS
<1>7. /\ old \in Nat /\ p \in Nat /\ n = p + old /\ n \in Nat /\ p < n
      /\ n \in T \cup {AreaSize} /\ p \in Addrs
  BY <1>2, <1>4, <1>5, ChunkIs, LayoutIs
<1>8. PICK nextFree : nextFree = IF InUse(mem, n) THEN 0 ELSE Size(mem, n)
  OBVIOUS
<1>9. PICK prevFree : prevFree = IF InUse(mem, prev) THEN 0 ELSE Size(mem, prev)
  OBVIOUS
\* What lies in front and behind.
<1>10. PICK e : /\ e \in T \cup {AreaSize} /\ InUse(mem, e) /\ e = n + nextFree /\ nextFree \in Nat
                /\ e \in Nat /\ (nextFree = 0 => e = n)
                /\ (~InUse(mem, n) => n \in FreeOf(mem, T) /\ NextChunk(mem, n) = e)
  <2>1. CASE InUse(mem, n)
    BY <1>7, <1>8, <2>1
  <2>2. CASE ~InUse(mem, n)
    <3>1. n \in T /\ n \in FreeOf(mem, T)
      BY <1>2, <1>7, <2>2, LayoutIs DEF FreeOf
    <3>2. /\ Size(mem, n) \in Nat /\ NextChunk(mem, n) = n + Size(mem, n)
          /\ NextChunk(mem, n) \in T \cup {AreaSize} /\ Size(mem, n) # 0
      BY <1>2, <3>1, ChunkIs
    <3>3. InUse(mem, NextChunk(mem, n))
      BY <1>2, <2>2, <3>1 DEF Merged
    <3> QED
      BY <1>7, <1>8, <2>2, <3>1, <3>2, <3>3
  <2> QED
    BY <2>1, <2>2
<1>11. PICK c \in Nat : /\ p = c + prevFree /\ prevFree \in Nat
                        /\ \A t \in FreeOf(mem, T) : NextChunk(mem, t) = p => t = c
  <2>1. ASSUME NEW t \in FreeOf(mem, T), NextChunk(mem, t) = p
        PROVE  t = prev /\ ~InUse(mem, prev)
    <3>1. t \in T /\ ~InUse(mem, t)
      BY DEF FreeOf
    <3>2. /\ t \in Nat /\ Size(mem, t) \in Nat /\ p = t + Size(mem, t)
          /\ mem[p].prev = mem[t].size
      BY <1>2, <2>1, <3>1, ChunkIs
    <3>3. prev = p - Size(mem, t)
      BY <1>6, <3>2 DEF PrevChunk, PrevSize, Size
    <3>4. prev = t
      BY <3>2, <3>3
    <3> QED
      BY <3>1, <3>4
  <2>2. CASE InUse(mem, prev)
    <3>1. prevFree = 0 /\ p = p + prevFree
      BY <1>7, <1>9, <2>2
    <3>2. \A t \in FreeOf(mem, T) : NextChunk(mem, t) = p => t = p
      BY <2>1, <2>2
    <3> QED
      BY <1>7, <3>1, <3>2
  <2>3. CASE ~InUse(mem, prev)
    <3>1. prev \in FreeOf(mem, T) /\ prev \in Nat /\ NextChunk(mem, prev) = p
      BY <1>2, <1>6, <2>3, PrevIs
    <3>2. prev \in T
      BY <3>1 DEF FreeOf
    <3>3. Size(mem, prev) \in Nat /\ p = prev + Size(mem, prev)
      BY <1>2, <3>1, <3>2, ChunkIs
    <3>4. prevFree = Size(mem, prev)
      BY <1>9, <2>3
    <3> QED
      BY <2>1, <3>1, <3>3, <3>4
  <2> QED
    BY <2>2, <2>3
\* No way has been found.
<1>12. ReallocWay(q, p, size) =
         IF old >= size THEN "fits"
         ELSE IF nextFree > 0 /\ old + nextFree >= size THEN "forward"
         ELSE IF nextFree > 0 /\ prevFree > 0 /\ prevFree + old + nextFree >= size THEN "both"
         ELSE IF prevFree > 0 /\ prevFree + old >= size THEN "backward"
         ELSE "elsewhere"
  BY <1>1, <1>4, <1>5, <1>6, <1>8, <1>9 DEF ReallocWay
<1>13. ReallocWay(q, p, size) = "elsewhere" /\ Candidate(q, size) = NULL
  <2>1. p # NULL
    BY <1>7, AddrsAre
  <2>2. ReallocWay(q, p, size) \in {"both", "backward"} => prev # NULL
    <3> SUFFICES ASSUME ReallocWay(q, p, size) \in {"both", "backward"}
                 PROVE  prev # NULL
      OBVIOUS
    <3>1. prevFree > 0
      BY <1>12
    <3>2. ~InUse(mem, prev)
      BY <1>9, <3>1
    <3>3. prev \in Nat
      BY <1>2, <1>6, <3>2, PrevIs
    <3> QED
      BY <3>3 DEF NULL
  <2>3. ReallocWay(q, p, size) \notin {"fits", "forward"}
    BY <2>1 DEF ReallocTo
  <2>4. ReallocWay(q, p, size) \notin {"both", "backward"}
    BY <1>1, <1>6, <2>2 DEF ReallocTo
  <2>5. Candidate(q, size) = NULL
    BY <2>3, <2>4 DEF ReallocTo
  <2> QED
    BY <1>12, <2>3, <2>4, <2>5
<1>14. prevFree + old + nextFree < size
  BY <1>7, <1>10, <1>11, <1>12, <1>13
<1>15. \A f \in FreeOf(mem, T) : ~(Size(mem, f) >= size)
  <2>1. PICK F : F = FreeOf(q.mem, T)
    OBVIOUS
  <2>2. PICK to : to = Candidate(q, size)
    OBVIOUS
  <2>3. Best(q.mem, F, size, to)
    <3>1. Measured(q.mem, F, size)
      BY <1>1, <1>2, <2>1, FreeMeasured
    <3> QED
      BY <1>1, <1>2, <2>1, <2>2, <3>1, CandidateIs
  <2>4. to = NULL /\ to \notin F
    <3>1. F \in SUBSET Addrs
      BY <1>1, <1>2, <2>1 DEF Binned
    <3> QED
      BY <1>13, <2>2, <3>1, AddrsAre
  <2> QED
    BY <1>1, <2>1, <2>3, <2>4 DEF Best
<1>16. PICK t \in T : t <= x /\ x < NextChunk(mem, t) /\ (t \in FreeOf(mem, T) \/ t = p)
  BY <1>2, <1>3, GapBegins
<1>17. t \in Nat /\ Size(mem, t) \in Nat /\ NextChunk(mem, t) = t + Size(mem, t)
  BY <1>2, ChunkIs
\* From c to e.
<1>18. ASSUME c <= x, x < e
       PROVE  FALSE
  <2>1. e # p
    BY <1>7, <1>10
  <2>2. x + size <= e
    BY <1>2, <1>3, <1>10, <1>18, <2>1, GapEnds
  <2> QED
    BY <1>2, <1>7, <1>10, <1>11, <1>14, <1>18, <2>2
<1>19. CASE t = p
  <2>1. p <= x /\ x < n
    BY <1>5, <1>16, <1>19
  <2>2. c <= x /\ x < e
    BY <1>2, <1>7, <1>10, <1>11, <2>1
  <2> QED
    BY <1>18, <2>2
<1>20. CASE t \in FreeOf(mem, T) /\ NextChunk(mem, t) = p
  <2>1. t = c
    BY <1>11, <1>20
  <2> QED
    BY <1>2, <1>7, <1>10, <1>16, <1>18, <1>20, <2>1
<1>21. CASE t \in FreeOf(mem, T) /\ NextChunk(mem, t) # p
  <2>1. size <= Size(mem, t)
    <3>1. t <= x /\ x < NextChunk(mem, t)
      BY <1>16
    <3> QED
      BY <1>2, <1>3, <1>21, <3>1, GapOfFree
  <2> QED
    BY <1>15, <1>17, <1>21, <2>1
<1> QED
  BY <1>16, <1>19, <1>20, <1>21

\* The blocks as the allocator has them, but for b.
Others(mem, b) == [o \in Blocks(mem) \ {b} |-> Size(mem, o)]

\* The definitions that the two specifications share.
LEMMA AbstractIs ==
  ASSUME NEW req \in Requests
  PROVE  /\ Abstract!Addrs = Addrs /\ Abstract!NULL = NULL /\ Abstract!NoReply = NoReply
         /\ \A p : Abstract!Reply(req, p) = Reply(req, p)
         /\ Abstract!RequestToSize(req) = RequestToSize(req)
         /\ Abstract!LargeEnough(req) =
              {size \in Addrs : size >= req + HeaderSize /\ size < RequestToSize(req) + 128}
BY DEF Abstract!Addrs, Addrs, Abstract!NULL, NULL, Abstract!NoReply, NoReply, Abstract!Reply, Reply,
       Abstract!RequestToSize, RequestToSize, Abstract!LargeEnough, Abstract!HeaderSize, HeaderSize,
       Abstract!kMinAllocSize, kMinAllocSize, Abstract!kAlign, kAlign

\* A block that a call returned does not overlap another.
LEMMA RoomIs ==
  ASSUME NEW mem, NEW T, Laid(mem, T), NEW p \in UsedOf(mem, T), NEW o \in UsedOf(mem, T), o # p
  PROVE  o + Size(mem, o) <= p \/ p + Size(mem, p) <= o
<1>1. /\ p \in T /\ o \in T /\ p \in Nat /\ o \in Nat
      /\ NextChunk(mem, p) = p + Size(mem, p) /\ Size(mem, p) \in Nat
      /\ NextChunk(mem, o) = o + Size(mem, o) /\ Size(mem, o) \in Nat
      /\ ~(p < o /\ o < NextChunk(mem, p)) /\ ~(o < p /\ p < NextChunk(mem, o))
  BY ChunkIs DEF UsedOf
<1> QED
  BY <1>1

\* A call that returns a block does what the allocator allows.
LEMMA PlaceIs ==
  ASSUME PoolInv, NEW b, NEW req \in Requests, NEW p, reply' = Reply(req, p),
         Answered(pool, b, p, RequestToSize(req), pool')
  PROVE  Abstract!Place(Others(pool.mem, b), req)
<1>1. PICK others : others = Others(pool.mem, b)
  OBVIOUS
<1>2. PICK D : D = Blocks(pool.mem) \ {b}
  OBVIOUS
<1>3. DOMAIN others = D /\ \A o \in D : others[o] = Size(pool.mem, o)
  BY <1>1, <1>2 DEF Others
<1>4. /\ Whole(pool') /\ Blocks(pool'.mem) = D \cup {p} /\ p \notin D
      /\ \A t \in D : Untouched(pool.mem, pool'.mem, t)
      /\ Size(pool'.mem, p) >= RequestToSize(req)
      /\ Size(pool'.mem, p) < RequestToSize(req) + 128
  BY <1>2 DEF Answered
<1>5. PICK m : m = pool'.mem
  OBVIOUS
<1>6. PICK T : T = Chunks(m)
  OBVIOUS
<1>7. Laid(m, T) /\ UsedOf(m, T) = D \cup {p}
  BY <1>4, <1>5, <1>6, ChunksAre DEF Whole, Sound
<1>8. \A o \in D : Size(m, o) = Size(pool.mem, o)
  BY <1>4, <1>5 DEF Untouched, Size
<1>9. PICK size : size = Size(m, p)
  OBVIOUS
<1>10. /\ p \in T /\ p \in Addrs /\ p \in Nat /\ size \in Nat /\ size \in Addrs
       /\ p + size <= AreaSize
  <2>1. p \in T
    BY <1>7 DEF UsedOf
  <2>2. /\ p \in Addrs /\ p \in Nat /\ size \in Nat /\ size \in Sizes /\ size >= 128
        /\ NextChunk(m, p) = p + size /\ NextChunk(m, p) \in Addrs
    BY <1>7, <1>9, <2>1, ChunkIs
  <2> QED
    BY <2>1, <2>2, AddrsAre DEF Sizes
<1>11. size \in Abstract!LargeEnough(req)
  <2>1. RequestToSize(req) \in Nat /\ RequestToSize(req) >= req + HeaderSize /\ req \in Nat
    BY RequestIs
  <2>2. size >= req + HeaderSize
    BY <1>4, <1>5, <1>9, <1>10, <2>1 DEF HeaderSize
  <2> QED
    BY <1>4, <1>5, <1>9, <1>10, <2>2, AbstractIs
<1>12. Abstract!Room(others, p, size)
  <2>1. ASSUME NEW o \in D
        PROVE  o + others[o] <= p \/ p + size <= o
    <3>1. o \in UsedOf(m, T) /\ p \in UsedOf(m, T) /\ o # p
      BY <1>4, <1>7
    <3>2. o + Size(m, o) <= p \/ p + Size(m, p) <= o
      BY <1>7, <3>1, RoomIs
    <3> QED
      BY <1>3, <1>8, <1>9, <3>2
  <2> QED
    BY <1>3, <1>10, <2>1 DEF Abstract!Room
<1>13. [o \in Blocks(m) |-> Size(m, o)]
         = [o \in DOMAIN others \cup {p} |-> IF o = p THEN size ELSE others[o]]
  <2>1. Blocks(m) = DOMAIN others \cup {p}
    BY <1>3, <1>4, <1>5
  <2>2. ASSUME NEW o \in Blocks(m)
        PROVE  Size(m, o) = IF o = p THEN size ELSE others[o]
    BY <1>3, <1>8, <1>9, <2>1
  <2> QED
    BY <2>1, <2>2
<1>14. p \in Abstract!Addrs \ DOMAIN others /\ reply' = Abstract!Reply(req, p)
  BY <1>3, <1>4, <1>10, AbstractIs
<1> QED
  BY <1>1, <1>5, <1>11, <1>12, <1>13, <1>14 DEF Abstract!Place

\* So does one that returns none for want of room.
LEMMA NoPlaceIs ==
  ASSUME NEW others, NEW req \in Requests, reply' = Reply(req, NULL), pool' = pool,
         \A x \in Addrs : ~Abstract!Room(others, x, RequestToSize(req))
  PROVE  Abstract!Place(others, req)
<1>1. \A x \in Abstract!Addrs : ~Abstract!Room(others, x, Abstract!RequestToSize(req))
  BY AbstractIs
<1>2. reply' = Abstract!Reply(req, Abstract!NULL)
  BY AbstractIs
<1> QED
  BY <1>1, <1>2 DEF Abstract!Place

\* Alloc is an Alloc of the allocator.
LEMMA AbstractAlloc ==
  ASSUME PoolInv, NEW req \in Requests, NEW p, reply' = Reply(req, p),
         Best(pool.mem, FreeChunks(pool.mem), RequestToSize(req), p),
         \/ p = NULL /\ pool' = pool
         \/ p # NULL /\ Answered(pool, NULL, p, RequestToSize(req), pool')
  PROVE  Abstract!Alloc(req)
<1>1. PICK T : T = Chunks(pool.mem)
  OBVIOUS
<1>2. /\ Laid(pool.mem, T) /\ Merged(pool.mem, T)
      /\ FreeChunks(pool.mem) = FreeOf(pool.mem, T) /\ Blocks(pool.mem) = UsedOf(pool.mem, T)
  BY <1>1, ChunksAre DEF PoolInv, Whole, Sound
<1>3. Others(pool.mem, NULL) = [o \in Blocks(pool.mem) |-> Size(pool.mem, o)]
  <2>1. Blocks(pool.mem) \ {NULL} = Blocks(pool.mem)
    BY AddrsAre DEF Blocks, Chunks
  <2> QED
    BY <2>1 DEF Others
<1>4. PICK size : size = RequestToSize(req)
  OBVIOUS
<1>5. size \in Nat /\ size > 0
  BY <1>4, RequestIs
<1>6. CASE p = NULL
  <2>1. \A f \in FreeOf(pool.mem, T) : ~(Size(pool.mem, f) >= size)
    <3>1. NULL \notin FreeOf(pool.mem, T)
      BY <1>2, LayoutIs, AddrsAre DEF FreeOf
    <3> QED
      BY <1>2, <1>4, <1>6, <3>1 DEF Best
  <2>2. ASSUME NEW x \in Addrs, Abstract!Room(Others(pool.mem, NULL), x, size)
        PROVE  FALSE
    <3>1. /\ x + size <= AreaSize
          /\ \A o \in UsedOf(pool.mem, T) : o + Size(pool.mem, o) <= x \/ x + size <= o
      BY <1>2, <1>3, <2>2 DEF Abstract!Room
    <3> QED
      BY <1>2, <1>5, <2>1, <3>1, AllocNoRoom
  <2>3. Abstract!Place(Others(pool.mem, NULL), req)
    BY <1>4, <1>6, <2>2, NoPlaceIs, AddrsAre
  <2> QED
    BY <1>3, <2>3 DEF Abstract!Alloc
<1>7. CASE p # NULL
  <2>1. Abstract!Place(Others(pool.mem, NULL), req)
    BY <1>7, PlaceIs
  <2> QED
    BY <1>3, <2>1 DEF Abstract!Alloc
<1> QED
  BY <1>6, <1>7

\* Realloc is a Realloc of the allocator.
LEMMA AbstractRealloc ==
  ASSUME PoolInv, NEW req \in Requests, NEW p \in Blocks(pool.mem), NEW to,
         reply' = Reply(req, to), to = ReallocTo(pool, p, RequestToSize(req)),
         \/ to = NULL /\ pool' = pool
         \/ to # NULL /\ Answered(pool, p, to, RequestToSize(req), pool')
  PROVE  Abstract!Realloc(p, req)
<1>1. PICK T : T = Chunks(pool.mem)
  OBVIOUS
<1>2. Sound(pool, T, {}) /\ Blocks(pool.mem) = UsedOf(pool.mem, T)
  BY <1>1, ChunksAre DEF PoolInv, Whole
<1>3. Others(pool.mem, p) = Abstract!Without(p)
  BY DEF Others, Abstract!Without
<1>4. PICK size : size = RequestToSize(req)
  OBVIOUS
<1>5. size \in Nat /\ size > 0 /\ LegalSize(size) /\ size <= IntRange
  BY <1>4, RequestIs
<1>6. CASE to = NULL
  <2>1. ASSUME NEW x \in Addrs, Abstract!Room(Others(pool.mem, p), x, size)
        PROVE  FALSE
    <3>1. /\ x + size <= AreaSize
          /\ \A o \in UsedOf(pool.mem, T) \ {p} : o + Size(pool.mem, o) <= x \/ x + size <= o
      BY <1>2, <2>1 DEF Abstract!Room, Others
    <3>2. ReallocTo(pool, p, size) = NULL /\ p \in UsedOf(pool.mem, T)
      BY <1>2, <1>4, <1>6
    <3> QED
      BY <1>2, <1>5, <3>1, <3>2, ReallocNoRoom
  <2>2. Abstract!Place(Others(pool.mem, p), req)
    BY <1>4, <1>6, <2>1, NoPlaceIs
  <2> QED
    BY <1>3, <2>2 DEF Abstract!Realloc
<1>7. CASE to # NULL
  <2>1. Abstract!Place(Others(pool.mem, p), req)
    BY <1>7, PlaceIs
  <2> QED
    BY <1>3, <2>1 DEF Abstract!Realloc
<1> QED
  BY <1>6, <1>7

\* Free is a Free of the allocator.
LEMMA AbstractFree ==
  ASSUME PoolInv, NEW p \in Blocks(pool.mem), reply' = NoReply, Returned(pool, p, pool')
  PROVE  Abstract!Free(p)
<1>1. PICK m : m = pool'.mem
  OBVIOUS
<1>2. /\ Blocks(m) = Blocks(pool.mem) \ {p}
      /\ \A t \in Blocks(pool.mem) \ {p} : Size(m, t) = Size(pool.mem, t)
  BY <1>1 DEF Returned, Untouched, Size
<1>3. [o \in Blocks(m) |-> Size(m, o)] = Abstract!Without(p)
  BY <1>2 DEF Abstract!Without
<1>4. reply' = Abstract!NoReply
  BY DEF NoReply, Abstract!NoReply, NULL, Abstract!NULL
<1> QED
  BY <1>1, <1>3, <1>4 DEF Abstract!Free

\* The pool is an allocator: whatever was allocated, freed and moved before,
\* a block that a call returns is as large as asked for and overlaps no other,
\* and a call fails only if nowhere in the area is room; for all requests that,
\* header included, are no larger than 2^31 bytes.
THEOREM PoolImplementsAllocator == Spec => ImplementsAllocator
<1>1. Init => Abstract!Init
  <2> SUFFICES ASSUME Init PROVE Abstract!Init
    OBVIOUS
  <2>1. Blocks(pool.mem) = {} /\ reply = NoReply
    BY InitIs DEF Init
  <2>2. [p \in Blocks(pool.mem) |-> Size(pool.mem, p)] = <<>>
    BY <2>1
  <2> QED
    BY <2>1, <2>2 DEF Abstract!Init, NoReply, Abstract!NoReply, NULL, Abstract!NULL
<1>2. PoolInv /\ [Next]_vars => [Abstract!Next]_(Abstract!vars)
  <2> SUFFICES ASSUME PoolInv, [Next]_vars
               PROVE  [Abstract!Next]_(Abstract!vars)
    OBVIOUS
  <2>1. CASE UNCHANGED vars
    BY <2>1 DEF vars, Abstract!vars
  <2>2. ASSUME NEW req \in Requests, Abstract!Alloc(req)
        PROVE  Abstract!Next
    BY <2>2 DEF Abstract!Next
  <2>3. ASSUME NEW p \in Blocks(pool.mem),
               Abstract!Free(p) \/ \E req \in Requests : Abstract!Realloc(p, req)
        PROVE  Abstract!Next
    BY <2>3 DEF Abstract!Next
  <2> QED
    BY <2>1, <2>2, <2>3, StepIs, AbstractAlloc, AbstractFree, AbstractRealloc
<1> QED
  BY <1>1, <1>2, PoolInvariance, PTL DEF Spec, Abstract!Spec, ImplementsAllocator
=============================================================================
