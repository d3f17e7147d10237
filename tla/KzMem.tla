--------------------------------- MODULE KzMem ---------------------------------
(***************************************************************************)
(* The heap of the WiiVC and lite builds (src/src/mem.c): first fit over   *)
(* several regions, each with its own list of blocks, the last one grown   *)
(* by sbrk.  Addresses and sizes count aligned units.  Unlike halloc,      *)
(* malloc gives a block it does not split the length asked for, so that up *)
(* to a header's length behind it belongs to no block until the blocks on  *)
(* either side are merged over it.  realloc has no caller in src/.         *)
(***************************************************************************)
EXTENDS Integers

CONSTANTS HEAP_CNT,       \* regions 1..HEAP_CNT, in the order they are tried
          HeapStart, HeapSize,
          MEM_TOP,        \* the last unit of the memory they lie in
          MEM_HDR,        \* units of a block header
          MemRequests     \* sizes callers ask for, in units

(* The last region, from the end of the program on, lies below the one     *)
(* before it in either build: no order is assumed, only that none overlap. *)
ASSUME MemAssumption ==
    /\ HEAP_CNT \in Nat \ {0} /\ MEM_HDR \in Nat \ {0} /\ MemRequests \subseteq Nat \ {0}
    /\ HeapStart \in [1..HEAP_CNT -> Nat \ {0}] /\ HeapSize \in [1..HEAP_CNT -> Nat]
    /\ MEM_TOP \in Nat
    /\ \A i \in 1..HEAP_CNT : HeapSize[i] > MEM_HDR /\ HeapStart[i] + HeapSize[i] - 1 <= MEM_TOP
    /\ \A i, j \in 1..HEAP_CNT :
         i # j => \/ HeapStart[i] + HeapSize[i] <= HeapStart[j]
                  \/ HeapStart[j] + HeapSize[j] <= HeapStart[i]

VARIABLES
    blk,              \* the header at each block's address
    heap_first_free,
    brk               \* sbrk(0)

MemVars == <<blk, heap_first_free, brk>>

MemNull == 0
LastHeap == HEAP_CNT
(* The last region's first header is had from sbrk, the rest lies above it.*)
MemInit ==
    /\ blk = [b \in {HeapStart[i] : i \in 1..HEAP_CNT} |->
                LET i == CHOOSE i \in 1..HEAP_CNT : HeapStart[i] = b IN
                [free |-> TRUE, heap |-> i, size |-> HeapSize[i] - MEM_HDR,
                 prev |-> MemNull, next |-> MemNull]]
    /\ heap_first_free = [i \in 1..HEAP_CNT |-> HeapStart[i]]
    /\ brk = HeapStart[LastHeap] + MEM_HDR

-----------------------------------------------------------------------------
MemEnd(b) == b + MEM_HDR + blk[b].size
Lowest(S) == IF S = {} THEN MemNull ELSE CHOOSE b \in S : \A c \in S : b <= c

(* The blocks of region i the loop of malloc would take.                   *)
Fitting(i, size) ==
    {b \in DOMAIN blk : /\ blk[b].heap = i /\ blk[b].free /\ blk[b].size >= size
                        /\ heap_first_free[i] # MemNull /\ b >= heap_first_free[i]}

CutSlip(b, size) ==
    LET n == b + size + MEM_HDR IN
    IF blk[b].size - size < MEM_HDR + 1
    THEN [blk EXCEPT ![b].free = FALSE, ![b].size = size]
    ELSE [c \in DOMAIN blk \cup {n} |->
            IF c = n THEN [blk[b] EXCEPT !.size = @ - size, !.prev = b]
            ELSE IF c = b THEN [blk[b] EXCEPT !.free = FALSE, !.size = size, !.next = n]
            ELSE IF c = blk[b].next THEN [blk[c] EXCEPT !.prev = n]
            ELSE blk[c]]
(* The list after the first "size" units of b have been taken; what is left*)
(* becomes a free block if a header and one unit fit into it.              *)
Cut(b, size) ==
    LET n == b + size + MEM_HDR IN
    IF blk[b].size - size < MEM_HDR + 1
    THEN [blk EXCEPT ![b].free = FALSE, ![b].size = size]
    ELSE [c \in DOMAIN blk \cup {n} |->
            IF c = n THEN [blk[b] EXCEPT !.size = @ - size - MEM_HDR, !.prev = b]
            ELSE IF c = b THEN [blk[b] EXCEPT !.free = FALSE, !.size = size, !.next = n]
            ELSE IF c = blk[b].next THEN [blk[c] EXCEPT !.prev = n]
            ELSE blk[c]]

(* The next free block takes over as first one, if b was it.               *)
FirstAfterSlip(list, b) == heap_first_free
FirstAfter(list, b) ==
    LET i == blk[b].heap IN
    IF b # heap_first_free[i] THEN heap_first_free
    ELSE [heap_first_free EXCEPT ![i] =
            Lowest({c \in DOMAIN list : list[c].heap = i /\ c > b /\ list[c].free})]

(* Regions are tried in turn; the break moves only when the block's header *)
(* itself lies above it.                                                   *)
malloc(size) ==
    \E i \in 1..HEAP_CNT :
        /\ Fitting(i, size) # {} /\ \A j \in 1..(i - 1) : Fitting(j, size) = {}
        /\ LET b == Lowest(Fitting(i, size)) IN
           /\ blk' = Cut(b, size)
           /\ heap_first_free' = FirstAfter(Cut(b, size), b)
           /\ brk' = IF i = LastHeap /\ b >= brk THEN brk + size + 2 * MEM_HDR ELSE brk

(* Every block is aligned to 8 already, which is all its callers ask for.  *)
memalign(size) == malloc(size)

mallocFails(size) ==
    (\A i \in 1..HEAP_CNT : Fitting(i, size) = {}) /\ UNCHANGED MemVars

-----------------------------------------------------------------------------
(* n, the next of b, becomes part of it: only its own length is added.     *)
Merged(list, b, n) ==
    [c \in DOMAIN list \ {n} |->
        IF c = b THEN [list[b] EXCEPT !.size = @ + list[n].size + MEM_HDR, !.next = list[n].next]
        ELSE IF c = list[n].next THEN [list[c] EXCEPT !.prev = b]
        ELSE list[c]]

free(b) ==
    LET n == blk[b].next
        h == IF n # MemNull /\ blk[n].free THEN Merged(blk, b, n) ELSE blk
        p == blk[b].prev
        joins == p # MemNull /\ blk[p].free
        kept == IF joins THEN p ELSE b
        g == IF joins THEN Merged(h, p, b) ELSE h
    IN /\ blk' = [g EXCEPT ![kept].free = TRUE]
       /\ heap_first_free' =
            IF kept < heap_first_free[blk[b].heap]
            THEN [heap_first_free EXCEPT ![blk[b].heap] = kept] ELSE heap_first_free
       /\ UNCHANGED brk

MemHeld == {b \in DOMAIN blk : ~blk[b].free}

MemNext ==
    \/ \E size \in MemRequests : malloc(size) \/ memalign(size) \/ mallocFails(size)
    \/ \E b \in MemHeld : free(b)

MemSpec == MemInit /\ [][MemNext]_MemVars

-----------------------------------------------------------------------------
(* Each list runs through its region upwards, its links agree, and no block*)
(* reaches into the next one or out of the region, though there may be gaps*)
(* and lengths have been added up over them.                               *)
MemListsSound ==
    \A b \in DOMAIN blk :
        LET i == blk[b].heap IN
        /\ b >= HeapStart[i] /\ MemEnd(b) <= HeapStart[i] + HeapSize[i]
        /\ blk[b].next = Lowest({c \in DOMAIN blk : blk[c].heap = i /\ c > b})
        /\ blk[b].next # MemNull => MemEnd(b) <= blk[b].next /\ blk[blk[b].next].prev = b

(* Callers of malloc and free get what HeapSpec promises, whichever region *)
(* serves them and whatever is lost between blocks.                        *)
MemLive == [p \in {b + MEM_HDR : b \in MemHeld} |-> blk[p - MEM_HDR].size]
MemAbs == INSTANCE HeapSpec WITH
            HEAP_SIZE <- MEM_TOP, Requests <- MemRequests, live <- MemLive
MemImplementsHeapSpec == MemAbs!Spec
=============================================================================
