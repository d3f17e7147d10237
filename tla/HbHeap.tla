-------------------------------- MODULE HbHeap --------------------------------
(***************************************************************************)
(* The heap of the WiiVC build (src/src/hb_heap.c): a first-fit allocator  *)
(* over a doubly linked list of block headers kept inside the heap itself. *)
(* Addresses and sizes count aligned units (HB_ALIGN), so every request is *)
(* at least one unit; NULL is address 0, below the heap as in C.  Initially*)
(* hb_heap_init has run, as it has after kz's first halloc.                *)
(***************************************************************************)
EXTENDS Integers, FiniteSets

CONSTANTS HEAP_SIZE,   \* units of the heap
          HDR_SIZE,    \* units of a block header
          Requests     \* sizes callers ask for, in units

ASSUME HeapAssumption ==
    /\ HDR_SIZE \in Nat \ {0}
    /\ HEAP_SIZE \in Nat /\ HEAP_SIZE > HDR_SIZE
    /\ Requests \subseteq Nat \ {0}

VARIABLES
    hdr,                \* the header at each block's address
    first_free_block

vars == <<hdr, first_free_block>>

NULL    == 0
hb_heap == 1
Addrs   == hb_heap .. HEAP_SIZE

Header == [free : BOOLEAN, size : Nat, prev : Addrs \cup {NULL},
           next : Addrs \cup {NULL}]

IsList(h) == DOMAIN h \subseteq Addrs /\ h \in [DOMAIN h -> Header]

TypeOK == IsList(hdr) /\ first_free_block \in Addrs \cup {NULL}

(* hb_heap_init *)
Init ==
    /\ hdr = [b \in {hb_heap} |->
                 [free |-> TRUE, size |-> HEAP_SIZE - HDR_SIZE,
                  prev |-> NULL, next |-> NULL]]
    /\ first_free_block = hb_heap

-----------------------------------------------------------------------------
(* The first address after a block. *)
End(h, b) == b + HDR_SIZE + h[b].size

(* n is what a walk along the next links finds first of the blocks S, NULL *)
(* when it runs off the end: the links ascend (ListTilesHeap).             *)
FirstOf(S, n) == IF S = {} THEN n = NULL ELSE n \in S /\ \A c \in S : n <= c

FreeAfter(h, b) == {c \in DOMAIN h : c > b /\ h[c].free}

(* The blocks halloc's loop would take: it starts at first_free_block. *)
Candidates(size) ==
    {b \in DOMAIN hdr : /\ first_free_block # NULL /\ b >= first_free_block
                        /\ hdr[b].free /\ hdr[b].size >= size}

(* Enough space is left to allocate at least one aligned unit. *)
Splits(b, size) == hdr[b].size - size >= HDR_SIZE + 1

(* The list after the tail of b, behind its first "size" units, has become *)
(* a free block of its own.                                                *)
SplitOffSlip(b, size) ==
    LET n == b + size + HDR_SIZE IN
    [c \in DOMAIN hdr \cup {n} |->
        IF c = n THEN [free |-> TRUE, size |-> hdr[b].size - size,
                       prev |-> b, next |-> hdr[b].next]
        ELSE IF c = b THEN [hdr[b] EXCEPT !.free = FALSE, !.size = size, !.next = n]
        ELSE IF c = hdr[b].next THEN [hdr[c] EXCEPT !.prev = n]
        ELSE hdr[c]]
SplitOff(b, size) ==
    LET n == b + size + HDR_SIZE IN
    [c \in DOMAIN hdr \cup {n} |->
        IF c = n THEN [free |-> TRUE, size |-> hdr[b].size - size - HDR_SIZE,
                       prev |-> b, next |-> hdr[b].next]
        ELSE IF c = b THEN [hdr[b] EXCEPT !.free = FALSE, !.size = size, !.next = n]
        ELSE IF c = hdr[b].next THEN [hdr[c] EXCEPT !.prev = n]
        ELSE hdr[c]]

halloc(size) ==
    \E b \in Candidates(size) :
        /\ FirstOf(Candidates(size), b)
        /\ hdr' = IF Splits(b, size) THEN SplitOff(b, size)
                                     ELSE [hdr EXCEPT ![b].free = FALSE]
        /\ \E n \in DOMAIN hdr' \cup {NULL} :
              /\ FirstOf(FreeAfter(hdr', b), n)
              /\ first_free_block' = IF b = first_free_block THEN n
                                                             ELSE first_free_block

(* couldn't allocate a block *)
hallocFails(size) == Candidates(size) = {} /\ UNCHANGED vars

-----------------------------------------------------------------------------
(* hfree first takes in the free block behind b, then gives b to the free  *)
(* block before it.                                                        *)
TakesNext(b) == hdr[b].next # NULL /\ hdr[hdr[b].next].free
JoinsPrevSlip(b) == FALSE
JoinsPrev(b) == hdr[b].prev # NULL /\ hdr[hdr[b].prev].free

(* The list after block n, the next of b, has become part of b. *)
Absorb(h, b, n) ==
    [c \in DOMAIN h \ {n} |->
        IF c = b THEN [h[b] EXCEPT !.size = @ + h[n].size + HDR_SIZE, !.next = h[n].next]
        ELSE IF c = h[n].next THEN [h[c] EXCEPT !.prev = b]
        ELSE h[c]]

LowerFirstFreeSlip(b) == first_free_block
LowerFirstFree(b) == IF b < first_free_block THEN b ELSE first_free_block

hfree(b) ==
    LET h    == IF TakesNext(b) THEN Absorb(hdr, b, hdr[b].next) ELSE hdr
        kept == IF JoinsPrev(b) THEN hdr[b].prev ELSE b
        g    == IF JoinsPrev(b) THEN Absorb(h, kept, b) ELSE h
    IN  /\ hdr' = [g EXCEPT ![kept].free = TRUE]
        /\ first_free_block' = LowerFirstFree(kept)

(* Callers free the blocks they were given, once. *)
Held == {b \in DOMAIN hdr : ~hdr[b].free}

Next ==
    \/ \E size \in Requests : halloc(size) \/ hallocFails(size)
    \/ \E b \in Held : hfree(b)

Spec == Init /\ [][Next]_vars

-----------------------------------------------------------------------------
(* Properties                                                              *)

TilesHeap(h) ==
    /\ hb_heap \in DOMAIN h /\ h[hb_heap].prev = NULL
    /\ \A b, c \in DOMAIN h : b < c => End(h, b) <= c
    /\ \A b \in DOMAIN h :
          /\ IF h[b].next = NULL THEN End(h, b) = HEAP_SIZE + 1
             ELSE /\ h[b].next = End(h, b)
                  /\ h[b].next \in DOMAIN h
                  /\ h[h[b].next].prev = b
          /\ h[b].prev # NULL => /\ h[b].prev \in DOMAIN h
                                 /\ h[h[b].prev].next = b

(* The headers cut the heap into blocks with no gap and no overlap, in the *)
(* order of the list, and the links lead both ways.                        *)
ListTilesHeap == TilesHeap(hdr)

(* hfree leaves no two free blocks side by side, so a heap whose callers   *)
(* have freed everything can again serve its largest request.              *)
FreeBlocksCoalesced ==
    \A b \in DOMAIN hdr : hdr[b].free /\ hdr[b].next # NULL => ~hdr[hdr[b].next].free

(* first_free_block never points at a header that was merged away or is in *)
(* use, and no free block lies below it where halloc would not look.       *)
FirstFreeIsLowest ==
    first_free_block # NULL =>
        /\ first_free_block \in DOMAIN hdr /\ hdr[first_free_block].free
        /\ \A b \in DOMAIN hdr : hdr[b].free => first_free_block <= b

(* The blocks callers hold, by the pointers they were given. *)
live == [p \in {b + HDR_SIZE : b \in Held} |-> hdr[p - HDR_SIZE].size]

(* Through every split and merge, callers see what HeapSpec promises.      *)
Abs == INSTANCE HeapSpec
ImplementsHeapSpec == Abs!Spec

(* hb_heap.c:74 says of halloc's NULL that it "couldn't allocate a block": *)
(* a request is refused only when no free block could serve it.            *)
RefusesOnlyWhenNothingFits ==
    \A size \in Requests :
        Candidates(size) = {} => \A b \in DOMAIN hdr : hdr[b].free => hdr[b].size < size

=============================================================================
