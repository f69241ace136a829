------------------------------ MODULE AllocBins ------------------------------
(***************************************************************************)
(* The arithmetic of SC_AllocPoolSafe.h: the size of the chunk that serves *)
(* a request, the bin that holds free chunks of a size.  No state here.    *)
(***************************************************************************)
EXTENDS Integers

kNumAllocBins == 128
kNumSmallBins == 64
kMaxSmallBin == kNumSmallBins - 1
kAlign == 64
kMinAllocSize == 2 * kAlign

\* sizeof(AllocChunk): two links and two sizes of eight bytes each.
HeaderSize == 32

AllocBins == 0 .. kNumAllocBins - 1

\* Mutant of RequestToSize: the header is not paid for.
RequestToSizeBare(inReqSize) ==
    IF inReqSize <= kMinAllocSize THEN kMinAllocSize
    ELSE ((inReqSize + kAlign - 1) \div kAlign) * kAlign

RequestToSize(inReqSize) ==
    LET sizePlusOverhead == inReqSize + HeaderSize
    IN  IF sizePlusOverhead <= kMinAllocSize THEN kMinAllocSize
        ELSE ((sizePlusOverhead + kAlign - 1) \div kAlign) * kAlign

\* Chunk sizes are multiples of kAlign from kMinAllocSize on.
LegalSize(size) == size >= kMinAllocSize /\ size % kAlign = 0

-----------------------------------------------------------------------------
(* Bins: one for every 16 bytes below 1024, then eight for every power of  *)
(* two, the last for all that is larger.                                   *)

\* Pow2[b] = 2^b.
Pow2 == <<2, 4, 8, 16, 32, 64, 128, 256, 512, 1024, 2048, 4096, 8192, 16384, 32768, 65536,
          131072, 262144>>

\* 31 - CLZ(size): the place of the highest bit of a size from 1024 to 262143.
HighBit(size) == CHOOSE b \in 10 .. 17 : Pow2[b] <= size /\ size < Pow2[b + 1]

\* bits is 28 - CLZ(inSize).
BinIndex(inSize) ==
    IF inSize < 1024 THEN inSize \div 16
    ELSE IF inSize >= 262144 THEN 127
    ELSE LET bits == HighBit(inSize) - 3
         IN  bits * 8 + inSize \div Pow2[bits]

\* The table that BinIndex computes without comparing.
BinIndex2(inSize) ==
    IF inSize < 1024 THEN inSize \div 16
    ELSE IF inSize < 2048 THEN 56 + inSize \div 128
    ELSE IF inSize < 4096 THEN 64 + inSize \div 256
    ELSE IF inSize < 8192 THEN 72 + inSize \div 512
    ELSE IF inSize < 16384 THEN 80 + inSize \div 1024
    ELSE IF inSize < 32768 THEN 88 + inSize \div 2048
    ELSE IF inSize < 65536 THEN 96 + inSize \div 4096
    ELSE IF inSize < 131072 THEN 104 + inSize \div 8192
    ELSE IF inSize < 262144 THEN 112 + inSize \div 16384
    ELSE 127
=============================================================================
