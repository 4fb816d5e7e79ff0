----------------------------- MODULE OsalMemory -----------------------------
(***************************************************************************)
(* The OSAL heap (Components/osal/common/OSAL_Memory.c): blocks, each      *)
(* behind a header with its length and an in-use bit, tile the heap from   *)
(* address 0 to the NULL header at HeapEnd.  Freeing a block only clears   *)
(* its bit; adjacent free blocks are joined by the scan of a later         *)
(* allocation, which goes from ff1 for a small block and from ff2 for a    *)
(* large one.                                                              *)
(*                                                                         *)
(* Every call is one critical section, and one step.                       *)
(***************************************************************************)
EXTENDS Integers, FiniteSets, FiniteSetsExt, Functions

CONSTANTS
    SMALLBLKHEAP,         \* length of the small-block bucket
    HeapEnd,              \* address of the NULL header at the end
    OSALMEM_SMALL_BLKSZ,  \* longest block that is looked for in the bucket
    OSALMEM_MIN_BLKSZ,    \* shortest remainder that is split off
    Sizes                 \* bound: the sizes asked for

HDRSZ == 2

ASSUME HeapAssumption   == /\ SMALLBLKHEAP \in Nat /\ SMALLBLKHEAP >= HDRSZ
                           /\ HeapEnd \in Nat
                           /\ HeapEnd >= SMALLBLKHEAP + HDRSZ + OSALMEM_MIN_BLKSZ
ASSUME BlocksAssumption == /\ OSALMEM_SMALL_BLKSZ \in Nat
                           /\ OSALMEM_MIN_BLKSZ \in Nat /\ OSALMEM_MIN_BLKSZ >= HDRSZ
\* With the header a size fits 16 bits.
ASSUME SizesAssumption  == \A size \in Sizes : size \in Nat /\ size + HDRSZ < 65536

VARIABLES
    len,     \* len[a]: the length in the header at a, header included
    inUse,   \* the headers with OSALMEM_IN_USE
    ff1,     \* where the scan for a small block starts
    kicked,  \* osal_mem_kick was called
    live,    \* history: live[p] is the size asked for the block handed out at p
    parked   \* history: the blocks that were free when osal_mem_kick was called

heapVars == <<len, inUse, ff1, kicked, live, parked>>

Block == DOMAIN len
Free  == Block \ inUse

\* The NULL block between the bucket and the wilderness; ff2 is set once, to
\* the header behind it.
Wall == SMALLBLKHEAP
ff2  == SMALLBLKHEAP + HDRSZ

Address == 0 .. HeapEnd

HeapTypeOK ==
    /\ Block \subseteq Address
    /\ \A a \in Block : len[a] \in 1 .. HeapEnd
    /\ inUse \subseteq Block
    /\ ff1 \in Address
    /\ kicked \in BOOLEAN
    /\ DOMAIN live \subseteq Address /\ Range(live) \subseteq Sizes
    /\ parked \subseteq Address

\* osal_mem_init: the bucket, the wall and the wilderness.
HeapInit ==
    /\ len = [a \in {0, Wall, ff2} |-> CASE a = 0 -> SMALLBLKHEAP
                                         [] a = Wall -> HDRSZ
                                         [] a = ff2 -> HeapEnd - ff2]
    /\ inUse = {Wall}
    /\ ff1 = 0
    /\ kicked = FALSE
    /\ live = <<>>
    /\ parked = {}

-----------------------------------------------------------------------------
(* The scan of osal_mem_alloc. *)

\* The place where the block at a ends.
After(a) == a + len[a]

Bytes(size) == size + HDRSZ

Start(n) == IF n <= OSALMEM_SMALL_BLKSZ THEN ff1 ELSE ff2

\* The free blocks at which the scan begins to join: the first it meets and
\* those behind a block in use.
Heads(from) == {a \in Free : a >= from /\ (a = from \/ \E b \in inUse : After(b) = a)}

\* What can be joined to the block at a, by the place where it ends.
Ends(a) == {After(b) : b \in {c \in Free : c >= a /\ \A x \in a .. c : x \notin inUse}}

\* Mutant: free blocks are not joined.
JoinedAlone(a, n) == After(a)

\* Joining stops at the first end that gives n bytes, or with the last.
Joined(a, n) ==
    LET enough == {e \in Ends(a) : e - a >= n}
    IN  IF enough = {} THEN Max(Ends(a)) ELSE Min(enough)

Fitting(n) == {a \in Heads(Start(n)) : Joined(a, n) - a >= n}

\* The heads the scan comes by: up to the first that fits, if one does.
Visited(n) == {a \in Heads(Start(n)) : \A b \in Fitting(n) : a <= b}

Absorbed(n) == {b \in Free : \E a \in Visited(n) : a < b /\ b < Joined(a, n)}

\* Mutant: the header of a block is not updated when others are joined to it.
ScannedStale(n) == [a \in Block \ Absorbed(n) |-> len[a]]

\* The headers after the scan.
Scanned(n) ==
    [a \in Block \ Absorbed(n) |-> IF a \in Visited(n) THEN Joined(a, n) - a ELSE len[a]]

-----------------------------------------------------------------------------
(* The calls. *)

\* Mutant: every remainder is split off, even none.
WorthSplittingAlways(rest) == TRUE

WorthSplitting(rest) == rest >= OSALMEM_MIN_BLKSZ

\* n bytes of the block at a are used; h is the headers so far.
Split(h, a, n) ==
    [x \in DOMAIN h \cup {a + n} |->
        CASE x = a     -> n
          [] x = a + n -> h[a] - n
          [] OTHER     -> h[x]]

Allocated(n) ==
    LET a == Min(Fitting(n))
        h == Scanned(n)
    IN  /\ len' = IF WorthSplitting(h[a] - n) THEN Split(h, a, n) ELSE h
        /\ inUse' = inUse \cup {a}

osal_mem_alloc ==
    /\ \E size \in Sizes :
         /\ Fitting(Bytes(size)) # {}
         /\ Allocated(Bytes(size))
         /\ LET p == Min(Fitting(Bytes(size))) + HDRSZ
            IN  live' = [q \in DOMAIN live \cup {p} |-> IF q = p THEN size ELSE live[q]]
    /\ UNCHANGED <<ff1, kicked, parked>>

\* There is no room: NULL, but the scan has joined what it could.
osal_mem_alloc_NULL ==
    /\ \E size \in Sizes :
         /\ Fitting(Bytes(size)) = {}
         /\ len' = Scanned(Bytes(size))
    /\ UNCHANGED <<inUse, ff1, kicked, live, parked>>

\* Mutant: ff1 follows the block freed last.
LowestLast(a) == a

\* ff1 after the block at a is freed.
Lowest(a) == IF ff1 > a THEN a ELSE ff1

osal_mem_free ==
    /\ \E p \in DOMAIN live :
         /\ inUse' = inUse \ {p - HDRSZ}
         /\ ff1' = Lowest(p - HDRSZ)
         /\ live' = [q \in DOMAIN live \ {p} |-> live[q]]
    /\ UNCHANGED <<len, kicked, parked>>

\* Called once, at the end of osal_init_system.
osal_mem_kick ==
    /\ ~kicked /\ kicked' = TRUE
    /\ ff1' = ff2
    /\ parked' = Free
    /\ UNCHANGED <<len, inUse, live>>

HeapNext == osal_mem_alloc \/ osal_mem_alloc_NULL \/ osal_mem_free \/ osal_mem_kick

HeapSpec == HeapInit /\ [][HeapNext]_heapVars

-----------------------------------------------------------------------------
(* Properties. *)

\* The blocks tile the heap: each ends where another begins or at the end,
\* with none in between; the scans start on a block, and the wall stands.
Tiling ==
    /\ 0 \in Block
    /\ \A a \in Block : After(a) \in Block \cup {HeapEnd}
    /\ \A a, b \in Block : a < b => After(a) <= b
    /\ {ff1, ff2} \subseteq Block
    /\ Wall \in inUse

\* No header lies in the bytes a caller holds, nor does it reach beyond the
\* heap: what callers hold is theirs alone, and joining and splitting leave it
\* be.
LiveApart ==
    \A p \in DOMAIN live :
        /\ p - HDRSZ \in inUse
        /\ p + live[p] <= HeapEnd
        /\ \A a \in Block : a + HDRSZ <= p \/ a >= p + live[p]

\* Blocks, and what callers hold of them, never overlap.
BlocksApart == Tiling /\ LiveApart

\* An allocation fails only if every stretch of n bytes from the start of its
\* scan touches a block in use, however the free bytes are cut up.
NullMeansFull ==
    \A size \in Sizes :
        LET n == Bytes(size)
        IN  Fitting(n) = {} =>
              \A p \in Start(n) .. HeapEnd - n :
                  \E a \in inUse : a < p + n /\ p < After(a)

\* A free block that scans for small blocks pass by has been free since
\* osal_mem_kick: whatever is freed later is found again.
NothingStranded == \A a \in Free : a < ff1 => a \in parked

\* The heap: typed, blocks apart, NULL only when full, nothing stranded.
HeapSound == HeapTypeOK /\ BlocksApart /\ NullMeansFull /\ NothingStranded
=============================================================================
