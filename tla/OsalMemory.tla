----------------------------- MODULE OsalMemory -----------------------------
(***************************************************************************)
(* OSAL's heap (OSAL_Memory.c): blocks behind one another, each with a     *)
(* header of its length, in a bucket for small requests and, behind a      *)
(* header that is always in use, the wilderness.  A request takes the      *)
(* first place that fits; on its way it joins free neighbours, and it      *)
(* splits off what it does not need.  Every call is one critical section.  *)
(***************************************************************************)
EXTENDS Integers, FiniteSets, Functions

CONSTANTS
  HDRSZ,             \* OSALMEM_HDRSZ
  SMALL_BLKSZ,       \* OSALMEM_SMALL_BLKSZ
  SMALLBLK_BUCKET,   \* OSALMEM_SMALLBLK_BUCKET
  MAXMEMHEAP,
  Request            \* the numbers of bytes asked for

NULL == -1
MIN_BLKSZ == 2 * HDRSZ
Guard == SMALLBLK_BUCKET               \* the header between bucket and wilderness
BIGBLK == SMALLBLK_BUCKET + HDRSZ      \* OSALMEM_BIGBLK_IDX
Last == MAXMEMHEAP - HDRSZ             \* OSALMEM_LASTBLK_IDX

VARIABLES
  len,      \* of the headers, the lengths of their blocks
  inUse,    \* the blocks in use
  ff1,      \* where small requests start to look
  kicked,   \* osalMemStat
  blkCnt, blkFree, memAlo,   \* OSALMEM_METRICS
  ret       \* what the last osal_mem_alloc returned: the header's place

memVars == <<len, inUse, ff1, kicked, blkCnt, blkFree, memAlo, ret>>

Bytes(b) == b .. b + len[b] - 1
Bucket == 0 .. SMALLBLK_BUCKET - 1
Wilderness == BIGBLK .. Last - 1

\* Both regions have room for a block (a heap of 2048 or more bytes, OnBoard.h:215,
\* of which the bucket takes a few hundred), and no request is for nothing, which
\* osal_msg_allocate refuses: the smallest block would be one that osal_mem_kick,
\* which asks for a byte, passes over.
ASSUME HeapAssumption ==
  /\ HDRSZ \in Nat \ {0} /\ SMALL_BLKSZ \in Nat
  /\ SMALLBLK_BUCKET \in Nat /\ SMALLBLK_BUCKET > HDRSZ
  /\ MAXMEMHEAP \in Nat /\ MAXMEMHEAP > SMALLBLK_BUCKET + 3 * HDRSZ
  /\ Request \subseteq Nat \ {0}

MemInit ==
  /\ len = [b \in {0, Guard, BIGBLK, Last} |->
             CASE b = 0 -> SMALLBLK_BUCKET
               [] b = Guard -> HDRSZ
               [] b = BIGBLK -> MAXMEMHEAP - SMALLBLK_BUCKET - 2 * HDRSZ
               [] b = Last -> 0]
  /\ inUse = {Guard}
  /\ ff1 = 0
  /\ kicked = FALSE
  /\ blkCnt = 2 /\ blkFree = 2 /\ memAlo = 0
  /\ ret = NULL

\* Mutant: a block that is joined to another keeps its length.
JoinedShort(l, prev, h) == Restrict(l, DOMAIN l \ {h})

\* The lengths with block h joined to the block prev before it.
Joined(l, prev, h) ==
  [b \in DOMAIN l \ {h} |-> IF b = prev THEN l[prev] + l[h] ELSE l[b]]

\* One round of the walk at header h, prev being a free block before it with coal
\* set: len are the headers left so far, hdr the block that was found.
Round(w, size) ==
  LET next == w.h + w.len[w.h]
      block == IF w.prev = NULL THEN w.h ELSE w.prev
      l == IF w.prev = NULL THEN w.len ELSE Joined(w.len, w.prev, w.h)
  IN IF w.hdr # NULL \/ w.h = Last THEN w
     ELSE IF w.h \in inUse THEN [w EXCEPT !.prev = NULL, !.h = next]
     ELSE [len |-> l, prev |-> block, h |-> next,
           hdr |-> IF l[block] >= size THEN block ELSE NULL]

\* The walk from first on: it passes a byte or more in each round.
Search(first, size) ==
  LET walk[k \in 0 .. MAXMEMHEAP] ==
        IF k = 0 THEN [len |-> len, prev |-> NULL, h |-> first, hdr |-> NULL]
        ELSE Round(walk[k - 1], size)
  IN walk[MAXMEMHEAP]

FirstPlace(size) == IF ~kicked \/ size <= SMALL_BLKSZ THEN ff1 ELSE BIGBLK

Splits(l, h, size) == l[h] - size >= MIN_BLKSZ
Split(l, h, size) ==
  [b \in DOMAIN l \cup {h + size} |->
     CASE b = h -> size [] b = h + size -> l[h] - size [] OTHER -> l[b]]

\* How many free blocks the walk joined to others.
Merged(l) == Cardinality(DOMAIN len) - Cardinality(DOMAIN l)

\* osal_mem_alloc: the heap l it leaves with block h taken.
Taken(l, h, size) == IF Splits(l, h, size) THEN Split(l, h, size) ELSE l
NextFf1(l, h) == IF kicked /\ ff1 = h THEN h + l[h] ELSE ff1

Granted(l, h, size) ==
  /\ len' = Taken(l, h, size)
  /\ inUse' = inUse \cup {h}
  /\ ff1' = NextFf1(len', h)
  /\ blkCnt' = blkCnt - Merged(l) + (IF Splits(l, h, size) THEN 1 ELSE 0)
  /\ blkFree' = blkFree - Merged(l) - (IF Splits(l, h, size) THEN 0 ELSE 1)
  /\ memAlo' = memAlo + (IF Splits(l, h, size) THEN size ELSE l[h])
  /\ ret' = h
  /\ UNCHANGED kicked

Refused(l) ==
  /\ len' = l
  /\ blkCnt' = blkCnt - Merged(l)
  /\ blkFree' = blkFree - Merged(l)
  /\ ret' = NULL
  /\ UNCHANGED <<inUse, ff1, kicked, memAlo>>

osal_mem_alloc(n) ==
  LET w == Search(FirstPlace(n + HDRSZ), n + HDRSZ) IN
  \/ w.hdr # NULL /\ Granted(w.len, w.hdr, n + HDRSZ)
  \/ w.hdr = NULL /\ Refused(w.len)

\* Mutant: ff1 only moves up.
LowerFf1Not(h) == ff1

LowerFf1(h) == IF ff1 > h THEN h ELSE ff1

osal_mem_free(h) ==
  /\ inUse' = inUse \ {h}
  /\ ff1' = LowerFf1(h)
  /\ blkFree' = blkFree + 1
  /\ memAlo' = memAlo - len[h]
  /\ UNCHANGED <<len, kicked, blkCnt, ret>>

\* The block of one byte that osal_mem_kick takes and frees: what is left is
\* the split, and ff1 at its place.
osal_mem_kick ==
  LET w == Search(ff1, 1 + HDRSZ)
      s == Splits(w.len, w.hdr, 1 + HDRSZ) IN
  /\ ~kicked
  /\ w.hdr # NULL      \* HAL_ASSERT(tmp != NULL)
  /\ len' = Taken(w.len, w.hdr, 1 + HDRSZ)
  /\ ff1' = w.hdr
  /\ kicked' = TRUE
  /\ blkCnt' = blkCnt - Merged(w.len) + (IF s THEN 1 ELSE 0)
  /\ blkFree' = blkFree - Merged(w.len) + (IF s THEN 1 ELSE 0)
  /\ UNCHANGED <<inUse, memAlo, ret>>

MemNext ==
  \/ \E n \in Request : osal_mem_alloc(n)
  \/ \E h \in inUse \ {Guard} : osal_mem_free(h)
  \/ osal_mem_kick

MemSpec == MemInit /\ [][MemNext]_memVars

-----------------------------------------------------------------------------
\* The blocks lie behind one another from the first byte to the last header,
\* whatever was split and joined (the length arithmetic of osal_mem_alloc),
\* and bucket and wilderness stay apart.
MemTypeOK ==
  /\ DOMAIN len \subseteq 0 .. Last
  /\ \A b \in DOMAIN len \ {Last} :
       /\ len[b] >= HDRSZ /\ b + len[b] \in DOMAIN len
       /\ \A c \in DOMAIN len : c <= b \/ b + len[b] <= c
  /\ {0, Guard, BIGBLK, Last} \subseteq DOMAIN len /\ len[Guard] = HDRSZ
  /\ Guard \in inUse /\ inUse \subseteq DOMAIN len \ {Last}
  /\ ff1 \in DOMAIN len
  /\ kicked \in BOOLEAN /\ ret \in {NULL} \cup Bucket \cup Wilderness

\* The metrics, which are kept up with every split, join, take and free, tell
\* the blocks, the free blocks and the bytes allocated (osal_heap_block_cnt,
\* osal_heap_block_free, osal_heap_mem_used).
Counted ==
  /\ blkCnt = Cardinality(DOMAIN len \ {Guard, Last})
  /\ blkFree = Cardinality(DOMAIN len \ (inUse \cup {Last}))
  /\ memAlo = SumFunction(Restrict(len, inUse \ {Guard}))

-----------------------------------------------------------------------------
Sizes == {n + HDRSZ : n \in Request}

AllowedPlace == [n \in Sizes |-> [k \in BOOLEAN |->
  IF ~k \/ n <= SMALL_BLKSZ THEN Bucket \cup Wilderness ELSE Wilderness]]

Heap == INSTANCE HeapStore WITH
  Size <- Sizes,
  Place <- AllowedPlace,
  Waste <- MIN_BLKSZ - 1,
  held <- {Bytes(b) : b \in inUse \ {Guard}}

\* osal_mem_alloc never gives out a byte that is held, and refuses a request
\* only if no free place, of neighbours taken together, is large enough: in
\* bucket and wilderness for small requests, in the wilderness for others.
ImplementsHeap == Heap!Spec

=============================================================================
