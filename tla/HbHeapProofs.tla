---------------------------- MODULE HbHeapProofs ----------------------------
(***************************************************************************)
(* The heap keeps its list and its promise to callers, for every heap      *)
(* size, header size and set of requests.                                  *)
(***************************************************************************)
EXTENDS HbHeap, TLAPS

HeapInv == TypeOK /\ ListTilesHeap /\ FreeBlocksCoalesced /\ FirstFreeIsLowest

(* What the links of a tiled list say of the addresses. *)
LEMMA BlockBounds ==
    ASSUME NEW h, IsList(h), TilesHeap(h), NEW b \in DOMAIN h
    PROVE  /\ b \in Addrs /\ b \in Nat /\ h[b].size \in Nat
           /\ h[b].free \in BOOLEAN
           /\ h[b].next \in Addrs \cup {NULL} /\ h[b].prev \in Addrs \cup {NULL}
           /\ End(h, b) \in Nat /\ b < End(h, b) /\ End(h, b) <= HEAP_SIZE + 1
           /\ h[b].next # NULL => b < h[b].next
           /\ h[b].prev # NULL => h[b].prev < b
<1>1. \A c \in DOMAIN h : c \in Addrs /\ c \in Nat /\ h[c] \in Header
    BY HeapAssumption DEF IsList, Addrs, hb_heap
<1>2. \A c \in DOMAIN h : /\ h[c].size \in Nat /\ h[c].free \in BOOLEAN
                          /\ h[c].next \in Addrs \cup {NULL}
                          /\ h[c].prev \in Addrs \cup {NULL}
    BY <1>1 DEF Header
<1>3. \A c \in DOMAIN h : End(h, c) \in Nat /\ c < End(h, c)
    BY <1>1, <1>2, HeapAssumption DEF End
<1>4. End(h, b) <= HEAP_SIZE + 1
    <2>1. CASE h[b].next = NULL
        BY <2>1, <1>3, HeapAssumption DEF TilesHeap
    <2>2. CASE h[b].next # NULL
        <3>1. End(h, b) \in Addrs
            BY <2>2, <1>2 DEF TilesHeap
        <3> QED BY <3>1, HeapAssumption DEF Addrs, hb_heap
    <2> QED BY <2>1, <2>2
<1>5. h[b].next # NULL => b < h[b].next
    BY <1>3 DEF TilesHeap
<1>6. ASSUME h[b].prev # NULL PROVE h[b].prev < b
    <2>1. h[b].prev \in DOMAIN h /\ h[h[b].prev].next = b
        BY <1>6 DEF TilesHeap
    <2>2. b # NULL
        BY <1>1 DEF Addrs, hb_heap, NULL
    <2>3. End(h, h[b].prev) = b
        BY <2>1, <2>2 DEF TilesHeap
    <2> QED BY <1>3, <2>1, <2>3
<1> QED BY <1>1, <1>2, <1>3, <1>4, <1>5, <1>6

(* Only the header's use changes when a block is marked. *)
LEMMA MarkKeepsList ==
    ASSUME NEW h, IsList(h), TilesHeap(h), NEW b \in DOMAIN h, NEW f \in BOOLEAN
    PROVE  /\ IsList([h EXCEPT ![b].free = f]) /\ TilesHeap([h EXCEPT ![b].free = f])
<1> DEFINE g == [h EXCEPT ![b].free = f]
<1>1. \A c \in DOMAIN h : h[c] \in Header
    BY DEF IsList
<1>2. DOMAIN g = DOMAIN h
    OBVIOUS
<1>3. \A c \in DOMAIN h : /\ g[c].size = h[c].size /\ g[c].prev = h[c].prev
                          /\ g[c].next = h[c].next /\ g[c] \in Header
    BY <1>1 DEF Header
<1>4. \A c \in DOMAIN h : End(g, c) = End(h, c)
    BY <1>3 DEF End
<1> HIDE DEF g
<1>5. TilesHeap(g)
    BY <1>2, <1>3, <1>4 DEF TilesHeap
<1>6. IsList(g)
    BY <1>2, <1>3 DEF IsList, g
<1> QED BY <1>5, <1>6 DEF g

(* Splitting the tail off a block that is long enough keeps the list. *)
LEMMA SplitOffKeepsList ==
    ASSUME IsList(hdr), TilesHeap(hdr), NEW b \in DOMAIN hdr, NEW size \in Nat \ {0},
           hdr[b].size >= size, Splits(b, size)
    PROVE  /\ IsList(SplitOff(b, size)) /\ TilesHeap(SplitOff(b, size))
           /\ b + size + HDR_SIZE \notin DOMAIN hdr
<1> DEFINE n == b + size + HDR_SIZE
           g == SplitOff(b, size)
           D == DOMAIN hdr
<1>1. /\ b \in Addrs /\ hdr[b] \in Header /\ hdr[b].size \in Nat
      /\ End(hdr, b) \in Nat /\ End(hdr, b) <= HEAP_SIZE + 1
      /\ End(hdr, b) = b + HDR_SIZE + hdr[b].size
    BY BlockBounds DEF IsList, End
<1>2. n \in Addrs /\ b < n /\ n < End(hdr, b)
    BY <1>1, HeapAssumption DEF Splits, Addrs, hb_heap
<1>3. n \notin D
    <2>1. \A c \in D : b < c => End(hdr, b) <= c
        BY DEF TilesHeap
    <2> QED BY <1>1, <1>2, <2>1 DEF Addrs, hb_heap
<1>4. DOMAIN g = D \cup {n}
    BY DEF SplitOff
<1>5. g[n] = [free |-> TRUE, size |-> hdr[b].size - size - HDR_SIZE,
              prev |-> b, next |-> hdr[b].next]
    BY DEF SplitOff
<1>6. b # n
    BY <1>2, <1>1 DEF Addrs, hb_heap
<1>7. g[b] = [hdr[b] EXCEPT !.free = FALSE, !.size = size, !.next = n]
    BY <1>6 DEF SplitOff
<1>8. \A c \in D : c # b =>
        g[c] = IF c = hdr[b].next THEN [hdr[c] EXCEPT !.prev = n] ELSE hdr[c]
    BY <1>3 DEF SplitOff
<1>9. \A c \in D : c \in Addrs /\ c \in Nat /\ hdr[c] \in Header /\ End(hdr, c) \in Nat
    BY BlockBounds DEF IsList
<1>10. /\ g[b].size = size /\ g[b].prev = hdr[b].prev /\ g[b].next = n /\ g[b] \in Header
    BY <1>1, <1>2, <1>7 DEF Header
<1>11. \A c \in D : c # b =>
         /\ g[c].size = hdr[c].size /\ g[c].next = hdr[c].next /\ g[c] \in Header
         /\ g[c].prev = IF c = hdr[b].next THEN n ELSE hdr[c].prev
    <2>1. ASSUME NEW c \in D, c # b
          PROVE  /\ g[c].size = hdr[c].size /\ g[c].next = hdr[c].next /\ g[c] \in Header
                 /\ g[c].prev = IF c = hdr[b].next THEN n ELSE hdr[c].prev
        <3>1. g[c] = IF c = hdr[b].next THEN [hdr[c] EXCEPT !.prev = n] ELSE hdr[c]
            BY <1>8, <2>1
        <3>2. hdr[c] \in Header /\ n \in Addrs
            BY <1>2, <1>9
        <3> HIDE DEF g, n
        <3> QED BY <3>1, <3>2 DEF Header
    <2> QED BY <2>1
<1>12. /\ g[n].size = hdr[b].size - size - HDR_SIZE /\ g[n].prev = b
       /\ g[n].next = hdr[b].next /\ g[n] \in Header
    <2>1. hdr[b].size - size - HDR_SIZE \in Nat
        BY <1>1, HeapAssumption DEF Splits
    <2> QED BY <1>1, <1>5, <2>1 DEF Header
<1>13. IsList(g)
    <2>1. \A c \in DOMAIN g : g[c] \in Header
        BY <1>4, <1>10, <1>11, <1>12
    <2>2. g = [c \in DOMAIN g |-> g[c]]
        BY DEF SplitOff
    <2> HIDE DEF g
    <2>3. g \in [DOMAIN g -> Header]
        BY <2>1, <2>2
    <2> QED BY <1>2, <1>4, <1>9, <2>3 DEF IsList
<1> HIDE DEF g
<1>14. /\ End(g, b) = n /\ End(g, n) = End(hdr, b)
       /\ \A c \in D : c # b => End(g, c) = End(hdr, c)
    BY <1>1, <1>2, <1>9, <1>10, <1>11, <1>12, HeapAssumption DEF End, Addrs, hb_heap
<1> HIDE DEF n
<1>15. ASSUME NEW c \in DOMAIN g, NEW d \in DOMAIN g, c < d PROVE End(g, c) <= d
    <2>1. \A x, y \in D : x < y => End(hdr, x) <= y
        BY DEF TilesHeap
    <2>2. CASE c \in D /\ d \in D
        BY <1>1, <1>2, <1>9, <1>14, <1>15, <2>1, <2>2 DEF Addrs, hb_heap
    <2>3. CASE c = n /\ d \in D
        BY <1>1, <1>2, <1>9, <1>14, <1>15, <2>1, <2>3 DEF Addrs, hb_heap
    <2>4. CASE c \in D /\ d = n
        <3>1. CASE c = b
            BY <1>2, <1>14, <2>4, <3>1 DEF Addrs, hb_heap
        <3>2. CASE c # b
            BY <1>1, <1>2, <1>9, <1>14, <1>15, <2>1, <2>4, <3>2 DEF Addrs, hb_heap
        <3> QED BY <3>1, <3>2
    <2> QED BY <1>2, <1>4, <1>15, <2>2, <2>3, <2>4 DEF Addrs, hb_heap
<1>16. ASSUME NEW c \in DOMAIN g
       PROVE  /\ IF g[c].next = NULL THEN End(g, c) = HEAP_SIZE + 1
                 ELSE /\ g[c].next = End(g, c) /\ g[c].next \in DOMAIN g
                      /\ g[g[c].next].prev = c
              /\ g[c].prev # NULL => /\ g[c].prev \in DOMAIN g
                                     /\ g[g[c].prev].next = c
    <2>1. CASE c = n
        BY <1>2, <1>3, <1>4, <1>6, <1>9, <1>10, <1>11, <1>12, <1>14, <2>1, BlockBounds
           DEF TilesHeap, Addrs, hb_heap, NULL
    <2>2. CASE c = b
        BY <1>2, <1>3, <1>4, <1>6, <1>9, <1>10, <1>11, <1>12, <1>14, <2>2, BlockBounds
           DEF TilesHeap, Addrs, hb_heap, NULL
    <2>3. CASE c \in D /\ c # b
        BY <1>2, <1>3, <1>4, <1>6, <1>9, <1>10, <1>11, <1>12, <1>14, <2>3, BlockBounds
           DEF TilesHeap, Addrs, hb_heap, NULL
    <2> QED BY <1>4, <1>16, <2>1, <2>2, <2>3
<1>17. hb_heap \in DOMAIN g /\ g[hb_heap].prev = NULL
    <2>1. hb_heap \in D /\ hdr[hb_heap].prev = NULL
        BY DEF TilesHeap
    <2>2. hdr[b].next # hb_heap
        BY <1>1, BlockBounds DEF TilesHeap, Addrs, hb_heap, NULL
    <2> QED BY <1>4, <1>10, <1>11, <2>1, <2>2
<1>18. TilesHeap(g)
    BY <1>15, <1>16, <1>17 DEF TilesHeap
<1> QED BY <1>3, <1>13, <1>18 DEF g, n

(* Merging a block into the one before it keeps the list; only the size of *)
(* the block that grows changes.                                           *)
LEMMA AbsorbKeepsList ==
    ASSUME NEW h, IsList(h), TilesHeap(h), NEW b \in DOMAIN h, NEW n \in DOMAIN h,
           h[b].next = n
    PROVE  /\ IsList(Absorb(h, b, n)) /\ TilesHeap(Absorb(h, b, n))
           /\ DOMAIN Absorb(h, b, n) = DOMAIN h \ {n}
           /\ b < n /\ h[n].prev = b
           /\ \A c \in DOMAIN h \ {n} :
                /\ Absorb(h, b, n)[c].free = h[c].free
                /\ c # b => Absorb(h, b, n)[c].size = h[c].size
                /\ Absorb(h, b, n)[c].next = IF c = b THEN h[n].next ELSE h[c].next
                /\ Absorb(h, b, n)[c].prev = IF c = h[n].next THEN b ELSE h[c].prev
<1> DEFINE g == Absorb(h, b, n)
           D == DOMAIN h
<1>1. \A c \in D : /\ c \in Addrs /\ c \in Nat /\ c # NULL /\ h[c] \in Header
                   /\ h[c].size \in Nat /\ End(h, c) \in Nat /\ c < End(h, c)
                   /\ End(h, c) <= HEAP_SIZE + 1 /\ End(h, c) = c + HDR_SIZE + h[c].size
                   /\ h[c].next \in Addrs \cup {NULL} /\ h[c].prev \in Addrs \cup {NULL}
                   /\ h[c].next # NULL => c < h[c].next
                   /\ h[c].prev # NULL => h[c].prev < c
    BY BlockBounds DEF IsList, End, Addrs, hb_heap, NULL
<1>2. n = End(h, b) /\ b < n /\ h[n].prev = b
    BY <1>1 DEF TilesHeap
<1>3. DOMAIN g = D \ {n}
    BY DEF Absorb
<1>4. b # n /\ b # h[n].next
    BY <1>1, <1>2
<1>5. g[b] = [h[b] EXCEPT !.size = @ + h[n].size + HDR_SIZE, !.next = h[n].next]
    BY <1>4 DEF Absorb
<1>6. \A c \in D \ {n} : c # b =>
        g[c] = IF c = h[n].next THEN [h[c] EXCEPT !.prev = b] ELSE h[c]
    BY DEF Absorb
<1>7. /\ g[b].size = h[b].size + h[n].size + HDR_SIZE /\ g[b].prev = h[b].prev
      /\ g[b].next = h[n].next /\ g[b].free = h[b].free /\ g[b] \in Header
    <2>1. h[b].size + h[n].size + HDR_SIZE \in Nat
        BY <1>1, HeapAssumption
    <2> HIDE DEF g
    <2> QED BY <1>1, <1>5, <2>1 DEF Header
<1>8. ASSUME NEW c \in D \ {n}, c # b
      PROVE  /\ g[c].size = h[c].size /\ g[c].next = h[c].next /\ g[c].free = h[c].free
             /\ g[c].prev = IF c = h[n].next THEN b ELSE h[c].prev
             /\ g[c] \in Header
    <2>1. g[c] = IF c = h[n].next THEN [h[c] EXCEPT !.prev = b] ELSE h[c]
        BY <1>6, <1>8
    <2>2. h[c] \in Header /\ b \in Addrs
        BY <1>1
    <2> HIDE DEF g
    <2> QED BY <2>1, <2>2 DEF Header
<1>9. IsList(g)
    <2>1. \A c \in DOMAIN g : g[c] \in Header
        BY <1>3, <1>7, <1>8
    <2>2. g = [c \in DOMAIN g |-> g[c]]
        BY DEF Absorb
    <2> HIDE DEF g
    <2>3. g \in [DOMAIN g -> Header]
        BY <2>1, <2>2
    <2> QED BY <1>1, <1>3, <2>3 DEF IsList
<1> HIDE DEF g
<1>10. End(g, b) = End(h, n) /\ \A c \in D \ {n} : c # b => End(g, c) = End(h, c)
    BY <1>1, <1>2, <1>7, <1>8, HeapAssumption DEF End
<1>11. ASSUME NEW c \in DOMAIN g, NEW d \in DOMAIN g, c < d PROVE End(g, c) <= d
    <2>1. \A x, y \in D : x < y => End(h, x) <= y
        BY DEF TilesHeap
    <2>2. CASE c = b
        <3>1. n <= d /\ d # n
            BY <1>2, <1>3, <1>11, <2>1, <2>2
        <3>2. n < d
            BY <1>1, <1>3, <3>1
        <3> QED BY <1>3, <1>10, <2>1, <2>2, <3>2
    <2>3. CASE c # b
        BY <1>3, <1>10, <1>11, <2>1, <2>3
    <2> QED BY <2>2, <2>3
<1>12. ASSUME NEW c \in DOMAIN g
       PROVE  /\ IF g[c].next = NULL THEN End(g, c) = HEAP_SIZE + 1
                 ELSE /\ g[c].next = End(g, c) /\ g[c].next \in DOMAIN g
                      /\ g[g[c].next].prev = c
              /\ g[c].prev # NULL => /\ g[c].prev \in DOMAIN g
                                     /\ g[g[c].prev].next = c
    <2>1. CASE c = b
        BY <1>1, <1>2, <1>3, <1>4, <1>7, <1>8, <1>10, <1>12, <2>1 DEF TilesHeap
    <2>2. CASE c # b
        BY <1>1, <1>2, <1>3, <1>4, <1>7, <1>8, <1>10, <1>12, <2>2 DEF TilesHeap
    <2> QED BY <2>1, <2>2
<1>13. hb_heap \in DOMAIN g /\ g[hb_heap].prev = NULL
    <2>1. hb_heap \in D /\ h[hb_heap].prev = NULL
        BY DEF TilesHeap
    <2>2. hb_heap # n /\ hb_heap # h[n].next
        BY <1>1, <1>2, <2>1 DEF TilesHeap
    <2> QED BY <1>3, <1>7, <1>8, <2>1, <2>2
<1>14. TilesHeap(g)
    BY <1>11, <1>12, <1>13 DEF TilesHeap
<1> QED BY <1>2, <1>3, <1>4, <1>7, <1>8, <1>9, <1>14 DEF g

(* What halloc does to the list, whether it splits the block or not. *)
LEMMA HallocEffect ==
    ASSUME HeapInv, NEW size \in Requests, NEW b \in Candidates(size),
           hdr' = IF Splits(b, size) THEN SplitOff(b, size) ELSE [hdr EXCEPT ![b].free = FALSE]
    PROVE  /\ IsList(hdr') /\ TilesHeap(hdr')
           /\ b \in DOMAIN hdr' /\ ~hdr'[b].free /\ hdr'[b].size >= size
           /\ DOMAIN hdr \subseteq DOMAIN hdr'
           /\ \A c \in DOMAIN hdr : c # b =>
                /\ hdr'[c].free = hdr[c].free /\ hdr'[c].size = hdr[c].size
                /\ hdr'[c].next = hdr[c].next
           /\ \A n \in DOMAIN hdr' \ DOMAIN hdr :
                /\ b < n /\ hdr'[n].free /\ hdr'[n].next = hdr[b].next /\ hdr'[b].next = n
           /\ DOMAIN hdr' = DOMAIN hdr => hdr'[b].next = hdr[b].next
<1>1. b \in DOMAIN hdr /\ hdr[b].free /\ hdr[b].size >= size /\ size \in Nat \ {0}
    BY HeapAssumption DEF Candidates
<1>2. IsList(hdr) /\ TilesHeap(hdr)
    BY DEF HeapInv, TypeOK, ListTilesHeap
<1>3. CASE Splits(b, size)
    <2> DEFINE n == b + size + HDR_SIZE
    <2>1. hdr' = SplitOff(b, size)
        BY <1>3
    <2>2. IsList(hdr') /\ TilesHeap(hdr') /\ n \notin DOMAIN hdr
        BY <1>1, <1>2, <1>3, <2>1, SplitOffKeepsList
    <2>3. DOMAIN hdr' = DOMAIN hdr \cup {n}
        BY <2>1 DEF SplitOff
    <2>4. b # n /\ b < n
        BY <1>1, <1>2, <2>2, BlockBounds, HeapAssumption
    <2>5. hdr'[n] = [free |-> TRUE, size |-> hdr[b].size - size - HDR_SIZE,
                     prev |-> b, next |-> hdr[b].next]
        BY <2>1 DEF SplitOff
    <2>6. hdr'[b] = [hdr[b] EXCEPT !.free = FALSE, !.size = size, !.next = n]
        BY <1>1, <2>1, <2>4 DEF SplitOff
    <2>7. \A c \in DOMAIN hdr : c # b =>
            hdr'[c] = IF c = hdr[b].next THEN [hdr[c] EXCEPT !.prev = n] ELSE hdr[c]
        BY <2>1, <2>2 DEF SplitOff
    <2>8. \A c \in DOMAIN hdr : hdr[c] \in Header
        BY <1>2 DEF IsList
    <2> HIDE DEF n
    <2>9. hdr'[b].free = FALSE /\ hdr'[b].size = size /\ hdr'[b].next = n
        <3>1. hdr[b] \in Header
            BY <1>1, <2>8
        <3> QED BY <2>6, <3>1 DEF Header
    <2>10. \A c \in DOMAIN hdr : c # b =>
            /\ hdr'[c].free = hdr[c].free /\ hdr'[c].size = hdr[c].size
            /\ hdr'[c].next = hdr[c].next
        BY <2>7, <2>8 DEF Header
    <2> QED BY <1>1, <2>2, <2>3, <2>4, <2>5, <2>9, <2>10
<1>4. CASE ~Splits(b, size)
    <2>1. hdr' = [hdr EXCEPT ![b].free = FALSE]
        BY <1>4
    <2> DEFINE g == [hdr EXCEPT ![b].free = FALSE]
    <2>5. FALSE \in BOOLEAN
        OBVIOUS
    <2>6. IsList(g) /\ TilesHeap(g)
        BY <1>1, <1>2, <2>5, MarkKeepsList
    <2> HIDE DEF g
    <2>7. hdr' = g
        BY <2>1 DEF g
    <2>2. IsList(hdr') /\ TilesHeap(hdr')
        BY <2>6, <2>7
    <2>3. hdr[b] \in Header
        BY <1>1, <1>2 DEF IsList
    <2>4. /\ DOMAIN hdr' = DOMAIN hdr /\ ~hdr'[b].free /\ hdr'[b].size = hdr[b].size
          /\ hdr'[b].next = hdr[b].next
          /\ \A c \in DOMAIN hdr : c # b => hdr'[c] = hdr[c]
        BY <1>1, <2>1, <2>3 DEF Header
    <2> QED BY <1>1, <2>2, <2>4
<1> QED BY <1>3, <1>4

LEMMA HallocKeeps ==
    ASSUME HeapInv, NEW size \in Requests, halloc(size) PROVE HeapInv'
<1>1. PICK b \in Candidates(size) :
        /\ FirstOf(Candidates(size), b)
        /\ hdr' = IF Splits(b, size) THEN SplitOff(b, size)
                                     ELSE [hdr EXCEPT ![b].free = FALSE]
        /\ \E n \in DOMAIN hdr' \cup {NULL} :
              /\ FirstOf(FreeAfter(hdr', b), n)
              /\ first_free_block' = IF b = first_free_block THEN n ELSE first_free_block
    BY DEF halloc
<1>2. PICK n \in DOMAIN hdr' \cup {NULL} :
        /\ FirstOf(FreeAfter(hdr', b), n)
        /\ first_free_block' = IF b = first_free_block THEN n ELSE first_free_block
    BY <1>1
<1>3. b \in DOMAIN hdr /\ hdr[b].free /\ first_free_block # NULL /\ first_free_block <= b
    BY DEF Candidates
<1>4. /\ IsList(hdr') /\ TilesHeap(hdr')
      /\ b \in DOMAIN hdr' /\ ~hdr'[b].free /\ hdr'[b].size >= size
      /\ DOMAIN hdr \subseteq DOMAIN hdr'
      /\ \A c \in DOMAIN hdr : c # b =>
           /\ hdr'[c].free = hdr[c].free /\ hdr'[c].size = hdr[c].size
           /\ hdr'[c].next = hdr[c].next
      /\ \A m \in DOMAIN hdr' \ DOMAIN hdr :
           /\ b < m /\ hdr'[m].free /\ hdr'[m].next = hdr[b].next /\ hdr'[b].next = m
      /\ DOMAIN hdr' = DOMAIN hdr => hdr'[b].next = hdr[b].next
    <2>1. hdr' = IF Splits(b, size) THEN SplitOff(b, size) ELSE [hdr EXCEPT ![b].free = FALSE]
        BY <1>1
    <2> HIDE <1>1, <1>2, <1>3
    <2> QED BY <2>1, HallocEffect, Zenon
<1>5. IsList(hdr) /\ TilesHeap(hdr)
    BY DEF HeapInv, TypeOK, ListTilesHeap
<1>6. \A c \in DOMAIN hdr' : c \in Nat /\ c # NULL
    BY <1>4, BlockBounds DEF Addrs, hb_heap, NULL
<1>7. TypeOK'
    <2>1. first_free_block' \in DOMAIN hdr' \cup {NULL, first_free_block}
        BY <1>2
    <2> QED BY <1>4, <2>1 DEF TypeOK, IsList, HeapInv
<1>8. FreeBlocksCoalesced'
    <2> SUFFICES ASSUME NEW c \in DOMAIN hdr', hdr'[c].free, hdr'[c].next # NULL
                 PROVE  ~hdr'[hdr'[c].next].free
        BY DEF FreeBlocksCoalesced
    <2>1. c # b
        BY <1>4
    <2>2. \A d \in DOMAIN hdr : hdr[d].next # NULL => hdr[d].next \in DOMAIN hdr
        BY <1>5 DEF TilesHeap
    <2>3. \A d \in DOMAIN hdr : hdr[d].free /\ hdr[d].next # NULL => ~hdr[hdr[d].next].free
        BY DEF HeapInv, FreeBlocksCoalesced
    <2>4. CASE c \in DOMAIN hdr
        BY <1>3, <1>4, <2>1, <2>2, <2>3, <2>4
    <2>5. CASE c \notin DOMAIN hdr
        <3>1. hdr'[c].next = hdr[b].next
            BY <1>4, <2>5
        <3>2. hdr[b].next # b
            BY <1>3, <1>5, <3>1, BlockBounds DEF NULL
        <3>3. hdr[b].next \in DOMAIN hdr /\ ~hdr[hdr[b].next].free
            BY <1>3, <2>2, <2>3, <3>1
        <3> QED BY <1>4, <3>1, <3>2, <3>3
    <2> QED BY <2>4, <2>5
<1>9. FirstFreeIsLowest'
    <2>1. /\ first_free_block \in DOMAIN hdr /\ hdr[first_free_block].free
          /\ \A c \in DOMAIN hdr : hdr[c].free => first_free_block <= c
        BY <1>3 DEF HeapInv, FirstFreeIsLowest
    <2>2. \A c \in DOMAIN hdr' : hdr'[c].free => first_free_block <= c /\ c # b
        BY <1>3, <1>4, <1>6, <2>1
    <2>3. CASE b = first_free_block
        <3>1. \A c \in DOMAIN hdr' : hdr'[c].free => c \in FreeAfter(hdr', b)
            BY <1>6, <2>2, <2>3, <1>3, <1>4 DEF FreeAfter
        <3>2. first_free_block' = n
            BY <1>2, <2>3
        <3> QED BY <1>2, <3>1, <3>2 DEF FirstOf, FreeAfter, FirstFreeIsLowest
    <2>4. CASE b # first_free_block
        <3>1. first_free_block' = first_free_block
            BY <1>2, <2>4
        <3> QED BY <1>4, <2>1, <2>2, <2>4, <3>1 DEF FirstFreeIsLowest
    <2> QED BY <2>3, <2>4
<1> QED BY <1>4, <1>7, <1>8, <1>9 DEF HeapInv, ListTilesHeap

(* The block that hfree marks free, and the block that comes to follow it. *)
Kept(b)  == IF JoinsPrev(b) THEN hdr[b].prev ELSE b
After(b) == IF TakesNext(b) THEN hdr[hdr[b].next].next ELSE hdr[b].next

(* The list hfree leaves: the free block behind b is merged into b, and b  *)
(* into the free block before it.                                          *)
LEMMA HfreeEffect ==
    ASSUME HeapInv, NEW b \in Held, hfree(b)
    PROVE  /\ IsList(hdr') /\ TilesHeap(hdr')
           /\ Kept(b) \in DOMAIN hdr' /\ Kept(b) <= b /\ DOMAIN hdr' \subseteq DOMAIN hdr
           /\ \A c \in DOMAIN hdr \ DOMAIN hdr' : c = b \/ (TakesNext(b) /\ c = hdr[b].next)
           /\ Kept(b) # b => b \notin DOMAIN hdr'
           /\ hdr'[Kept(b)].free /\ hdr'[Kept(b)].next = After(b)
           /\ \A c \in DOMAIN hdr' : c # Kept(b) =>
                /\ hdr'[c].free = hdr[c].free /\ hdr'[c].size = hdr[c].size
                /\ hdr'[c].next = hdr[c].next
           /\ first_free_block' = LowerFirstFree(Kept(b))
<1> DEFINE n == hdr[b].next
           p == hdr[b].prev
           D == DOMAIN hdr
           h == IF TakesNext(b) THEN Absorb(hdr, b, n) ELSE hdr
           kept == IF JoinsPrev(b) THEN p ELSE b
           g == IF JoinsPrev(b) THEN Absorb(h, kept, b) ELSE h
<1>1. hdr' = [g EXCEPT ![kept].free = TRUE] /\ first_free_block' = LowerFirstFree(kept)
    BY DEF hfree
<1>2. b \in D /\ ~hdr[b].free /\ IsList(hdr) /\ TilesHeap(hdr)
    BY DEF Held, HeapInv, TypeOK, ListTilesHeap
<1>3. \A c \in D : /\ hdr[c].next # NULL => hdr[c].next \in D /\ hdr[hdr[c].next].prev = c
                   /\ hdr[c].prev # NULL => hdr[c].prev \in D /\ hdr[hdr[c].prev].next = c
                   /\ c \in Nat /\ c # NULL /\ hdr[c].free \in BOOLEAN
                   /\ hdr[c].next # NULL => c < hdr[c].next
                   /\ hdr[c].prev # NULL => hdr[c].prev < c
    BY <1>2, BlockBounds DEF TilesHeap, Addrs, hb_heap, NULL
<1>4. /\ IsList(h) /\ TilesHeap(h) /\ b \in DOMAIN h
      /\ TakesNext(b) => n \in D /\ b < n /\ hdr[n].free /\ DOMAIN h = D \ {n}
      /\ ~TakesNext(b) => DOMAIN h = D
      /\ \A c \in DOMAIN h : /\ h[c].free = hdr[c].free
                             /\ c # b => h[c].next = hdr[c].next /\ h[c].size = hdr[c].size
                             /\ c = b /\ TakesNext(b) => h[c].next = hdr[n].next
                             /\ c = b /\ ~TakesNext(b) => h[c].next = n
    <2>1. CASE TakesNext(b)
        <3>1. n \in D /\ hdr[n].free /\ b # n
            BY <1>2, <1>3, <2>1 DEF TakesNext
        <3>2. h = Absorb(hdr, b, n)
            BY <2>1
        <3> HIDE DEF h
        <3>3. /\ IsList(h) /\ TilesHeap(h) /\ DOMAIN h = D \ {n} /\ b < n
              /\ \A c \in D \ {n} :
                    /\ h[c].free = hdr[c].free
                    /\ h[c].next = IF c = b THEN hdr[n].next ELSE hdr[c].next
                    /\ c # b => h[c].size = hdr[c].size
            BY <1>2, <3>1, <3>2, AbsorbKeepsList
        <3> QED BY <1>2, <2>1, <3>1, <3>3
    <2>2. CASE ~TakesNext(b)
        BY <1>2, <2>2
    <2> QED BY <2>1, <2>2
<1>5. JoinsPrev(b) => p \in DOMAIN h /\ p < b /\ hdr[p].free /\ h[p].next = b
    <2> SUFFICES ASSUME JoinsPrev(b) PROVE p \in DOMAIN h /\ p < b /\ hdr[p].free /\ h[p].next = b
        OBVIOUS
    <2>1. p \in D /\ p < b /\ hdr[p].free /\ hdr[p].next = b
        BY <1>2, <1>3 DEF JoinsPrev
    <2>2. p # b /\ (TakesNext(b) => p # n)
        BY <1>2, <1>3, <1>4, <2>1
    <2> QED BY <1>4, <2>1, <2>2
<1>6. /\ IsList(g) /\ TilesHeap(g) /\ kept \in DOMAIN g /\ kept <= b
      /\ DOMAIN g \subseteq D /\ (kept # b => b \notin DOMAIN g)
      /\ \A c \in D \ DOMAIN g : c = b \/ (TakesNext(b) /\ c = n)
      /\ \A c \in DOMAIN g : /\ g[c].free = hdr[c].free
                             /\ c # kept => g[c].next = hdr[c].next /\ g[c].size = hdr[c].size
      /\ g[kept].next = h[b].next
    <2>1. CASE JoinsPrev(b)
        <3>1. kept = p /\ p \in DOMAIN h /\ h[p].next = b /\ b \in DOMAIN h /\ p < b
            BY <1>4, <1>5, <2>1
        <3>2. g = Absorb(h, p, b)
            BY <2>1, <3>1
        <3> HIDE DEF g
        <3>3. /\ IsList(g) /\ TilesHeap(g) /\ DOMAIN g = DOMAIN h \ {b} /\ p < b
              /\ \A c \in DOMAIN h \ {b} :
                    /\ g[c].free = h[c].free
                    /\ g[c].next = IF c = p THEN h[b].next ELSE h[c].next
                    /\ c # p => g[c].size = h[c].size
            <4> HIDE DEF h, p
            <4>1. /\ IsList(h) /\ TilesHeap(h) /\ p \in DOMAIN h /\ b \in DOMAIN h
                  /\ h[p].next = b
                BY <1>4, <3>1
            <4> QED BY <3>2, <4>1, AbsorbKeepsList, SMTT(20)
        <3> HIDE DEF h
        <3>4. p # b /\ p <= b
            BY <1>2, <1>3, <1>4, <3>1
        <3> QED BY <1>2, <1>4, <3>1, <3>3, <3>4
    <2>2. CASE ~JoinsPrev(b)
        <3>1. g = h /\ kept = b
            BY <2>2
        <3> HIDE DEF g, h
        <3> QED BY <1>2, <1>3, <1>4, <3>1
    <2> QED BY <2>1, <2>2
<1> HIDE DEF g, h, kept
<1>7. /\ IsList(hdr') /\ TilesHeap(hdr')
    <2>1. TRUE \in BOOLEAN
        OBVIOUS
    <2> QED BY <1>1, <1>6, <2>1, MarkKeepsList
<1>8. /\ DOMAIN hdr' = DOMAIN g /\ hdr'[kept].free /\ hdr'[kept].next = g[kept].next
      /\ \A c \in DOMAIN g : c # kept => hdr'[c] = g[c]
    <2>1. g[kept] \in Header
        BY <1>6 DEF IsList
    <2> QED BY <1>1, <1>6, <2>1 DEF Header
<1>9. kept = Kept(b) /\ h[b].next = After(b)
    BY <1>4 DEF Kept, After, kept
<1> QED BY <1>1, <1>6, <1>7, <1>8, <1>9

LEMMA HfreeKeeps ==
    ASSUME HeapInv, NEW b \in Held, hfree(b) PROVE HeapInv'
<1> DEFINE n == hdr[b].next
           D == DOMAIN hdr
           kept == Kept(b)
<1>1. b \in D /\ ~hdr[b].free /\ IsList(hdr) /\ TilesHeap(hdr)
    BY DEF Held, HeapInv, TypeOK, ListTilesHeap
<1>2. \A c \in D : /\ hdr[c].next # NULL => hdr[c].next \in D /\ hdr[hdr[c].next].prev = c
                   /\ hdr[c].prev # NULL => hdr[c].prev \in D /\ hdr[hdr[c].prev].next = c
                   /\ c \in Nat /\ c # NULL /\ hdr[c].free \in BOOLEAN
                   /\ hdr[c].next # NULL => c < hdr[c].next
                   /\ hdr[c].prev # NULL => hdr[c].prev < c
    BY <1>1, BlockBounds DEF TilesHeap, Addrs, hb_heap, NULL
<1>3. /\ IsList(hdr') /\ TilesHeap(hdr')
      /\ kept \in DOMAIN hdr' /\ kept <= b /\ DOMAIN hdr' \subseteq D
      /\ \A c \in D \ DOMAIN hdr' : c = b \/ (TakesNext(b) /\ c = n)
      /\ kept # b => b \notin DOMAIN hdr'
      /\ hdr'[kept].free /\ hdr'[kept].next = After(b)
      /\ \A c \in DOMAIN hdr' : c # kept =>
           /\ hdr'[c].free = hdr[c].free /\ hdr'[c].size = hdr[c].size
           /\ hdr'[c].next = hdr[c].next
      /\ first_free_block' = LowerFirstFree(kept)
    BY HfreeEffect
<1> HIDE DEF kept
<1>4. TypeOK'
    <2>1. kept \in Addrs
        BY <1>3 DEF IsList
    <2> QED BY <1>3, <2>1 DEF LowerFirstFree, TypeOK, HeapInv
<1>5. FreeBlocksCoalesced'
    <2> SUFFICES ASSUME NEW c \in DOMAIN hdr', hdr'[c].free, hdr'[c].next # NULL
                 PROVE  ~hdr'[hdr'[c].next].free
        BY DEF FreeBlocksCoalesced
    <2>1. \A d \in D : hdr[d].free /\ hdr[d].next # NULL => ~hdr[hdr[d].next].free
        BY DEF HeapInv, FreeBlocksCoalesced
    <2>2. hdr'[c].next \in DOMAIN hdr' /\ hdr'[hdr'[c].next].prev = c
        BY <1>3 DEF TilesHeap
    <2>3. CASE c = kept
        <3>1. hdr'[c].next = After(b) /\ hdr'[c].next # kept
            BY <1>3, <2>2, <2>3, BlockBounds
        <3>2. ~hdr[After(b)].free
            BY <1>1, <1>2, <1>3, <2>1, <2>2, <3>1 DEF TakesNext, After
        <3> QED BY <1>3, <2>2, <3>1, <3>2
    <2>4. CASE c # kept
        <3>1. hdr[c].free /\ hdr'[c].next = hdr[c].next /\ c \in D
            BY <1>3, <2>4
        <3>2. ~hdr[hdr[c].next].free
            BY <2>1, <3>1
        <3>3. hdr[c].next # b
            <4> SUFFICES ASSUME hdr[c].next = b PROVE FALSE
                OBVIOUS
            <4>1. hdr[b].prev = c /\ c # NULL
                BY <1>1, <1>2, <3>1
            <4>2. JoinsPrev(b)
                BY <3>1, <4>1 DEF JoinsPrev
            <4> QED BY <2>4, <4>1, <4>2 DEF Kept, kept
        <3>4. hdr'[c].next \in DOMAIN hdr'
            BY <2>2
        <3>5. CASE hdr'[c].next = kept
            <4>1. kept # b
                BY <3>1, <3>3, <3>5
            <4>2. hdr[kept].free
                BY <4>1 DEF Kept, JoinsPrev, kept
            <4> QED BY <3>1, <3>2, <3>5, <4>2
        <3>6. CASE hdr'[c].next # kept
            BY <1>3, <3>1, <3>2, <3>4, <3>6
        <3> QED BY <3>5, <3>6
    <2> QED BY <2>3, <2>4
<1>6. FirstFreeIsLowest'
    <2> SUFFICES ASSUME first_free_block' # NULL
                 PROVE  /\ first_free_block' \in DOMAIN hdr' /\ hdr'[first_free_block'].free
                        /\ \A c \in DOMAIN hdr' : hdr'[c].free => first_free_block' <= c
        BY DEF FirstFreeIsLowest
    <2>1. \A c \in DOMAIN hdr' : /\ c \in D /\ c \in Nat
                                 /\ c # kept => hdr'[c].free = hdr[c].free
        BY <1>2, <1>3
    <2>2. first_free_block # NULL =>
            /\ first_free_block \in D /\ hdr[first_free_block].free
            /\ \A c \in D : hdr[c].free => first_free_block <= c
        BY DEF HeapInv, FirstFreeIsLowest
    <2>3. kept \in DOMAIN hdr' /\ kept \in Nat /\ kept # NULL
        BY <1>2, <1>3
    <2>4. CASE kept < first_free_block
        <3>1. first_free_block' = kept /\ first_free_block # NULL
            BY <1>3, <2>3, <2>4 DEF LowerFirstFree, NULL
        <3>2. \A c \in DOMAIN hdr' : hdr'[c].free => kept <= c
            BY <1>2, <2>1, <2>2, <2>3, <2>4, <3>1
        <3> QED BY <1>3, <2>3, <3>1, <3>2
    <2>5. CASE ~(kept < first_free_block)
        <3>1. first_free_block' = first_free_block /\ first_free_block # NULL
            BY <1>3, <2>5 DEF LowerFirstFree
        <3>2. first_free_block \in D /\ first_free_block <= kept
            BY <1>2, <2>2, <2>3, <2>5, <3>1
        <3>3. first_free_block # b /\ (TakesNext(b) => first_free_block # n)
            BY <1>1, <1>2, <1>3, <2>2, <2>3, <3>1, <3>2
        <3>4. first_free_block \in DOMAIN hdr'
            BY <1>3, <3>2, <3>3
        <3>5. hdr'[first_free_block].free
            BY <1>3, <2>1, <2>2, <3>1, <3>4
        <3>6. \A c \in DOMAIN hdr' : hdr'[c].free => first_free_block <= c
            BY <1>2, <2>1, <2>2, <2>3, <3>1, <3>2
        <3> QED BY <3>1, <3>4, <3>5, <3>6
    <2> QED BY <2>4, <2>5
<1> QED BY <1>3, <1>4, <1>5, <1>6 DEF HeapInv, ListTilesHeap

-----------------------------------------------------------------------------
LEMMA InitHeapInv == Init => HeapInv
<1> SUFFICES ASSUME Init PROVE HeapInv
    OBVIOUS
<1>1. /\ DOMAIN hdr = {hb_heap} /\ hb_heap \in Addrs /\ hb_heap # NULL
      /\ hdr[hb_heap] = [free |-> TRUE, size |-> HEAP_SIZE - HDR_SIZE,
                         prev |-> NULL, next |-> NULL]
    BY HeapAssumption DEF Init, Addrs, hb_heap, NULL
<1>2. hdr[hb_heap] \in Header
    BY <1>1, HeapAssumption DEF Header
<1>3. hdr \in [DOMAIN hdr -> Header]
    BY <1>1, <1>2 DEF Init
<1>4. TypeOK
    BY <1>1, <1>3 DEF Init, TypeOK, IsList
<1>5. End(hdr, hb_heap) = HEAP_SIZE + 1
    BY <1>1, HeapAssumption DEF End, hb_heap
<1>6. ListTilesHeap
    BY <1>1, <1>5 DEF ListTilesHeap, TilesHeap, hb_heap, NULL
<1>7. FreeBlocksCoalesced /\ FirstFreeIsLowest
    BY <1>1 DEF Init, FreeBlocksCoalesced, FirstFreeIsLowest, hb_heap, NULL
<1> QED BY <1>4, <1>6, <1>7 DEF HeapInv

LEMMA NextHeapInv == HeapInv /\ [Next]_vars => HeapInv'
<1> SUFFICES ASSUME HeapInv, [Next]_vars PROVE HeapInv'
    OBVIOUS
<1>1. ASSUME NEW size \in Requests, halloc(size) PROVE HeapInv'
    BY <1>1, HallocKeeps
<1>2. ASSUME NEW b \in Held, hfree(b) PROVE HeapInv'
    BY <1>2, HfreeKeeps
<1>3. ASSUME UNCHANGED vars PROVE HeapInv'
    BY <1>3 DEF vars, HeapInv, TypeOK, ListTilesHeap, FreeBlocksCoalesced, FirstFreeIsLowest
<1> QED BY <1>1, <1>2, <1>3 DEF Next, hallocFails

(* halloc and hfree keep the list and first_free_block right together: the *)
(* search of halloc starts from where hfree has put it.                    *)
THEOREM HeapInvariant == Spec => []HeapInv
<1> QED BY InitHeapInv, NextHeapInv, PTL DEF Spec

(* The headers of the heap's list always name blocks and lists of blocks.  *)
THEOREM HeapTypes == Spec => []TypeOK
<1>1. HeapInv => TypeOK
    BY DEF HeapInv
<1> QED BY <1>1, HeapInvariant, PTL

(* No split of halloc and no merge of hfree leaves a gap, an overlap or a  *)
(* link that leads only one way.                                           *)
THEOREM HeapTiled == Spec => []ListTilesHeap
<1>1. HeapInv => ListTilesHeap
    BY DEF HeapInv
<1> QED BY <1>1, HeapInvariant, PTL

(* hfree never leaves two free blocks side by side. *)
THEOREM HeapCoalesced == Spec => []FreeBlocksCoalesced
<1>1. HeapInv => FreeBlocksCoalesced
    BY DEF HeapInv
<1> QED BY <1>1, HeapInvariant, PTL

(* No free block lies below the one halloc's search starts from. *)
THEOREM FirstFreeLowest == Spec => []FirstFreeIsLowest
<1>1. HeapInv => FirstFreeIsLowest
    BY DEF HeapInv
<1> QED BY <1>1, HeapInvariant, PTL

-----------------------------------------------------------------------------
(* A block that halloc hands out is one that HeapSpec may hand out. *)
LEMMA HallocAllocs ==
    ASSUME HeapInv, NEW size \in Requests, halloc(size) PROVE Abs!Next
<1>1. PICK b \in Candidates(size) :
        hdr' = IF Splits(b, size) THEN SplitOff(b, size)
                                  ELSE [hdr EXCEPT ![b].free = FALSE]
    BY DEF halloc
<1>2. b \in DOMAIN hdr /\ hdr[b].free
    BY DEF Candidates
<1>3. /\ IsList(hdr') /\ TilesHeap(hdr')
      /\ b \in DOMAIN hdr' /\ ~hdr'[b].free /\ hdr'[b].size >= size
      /\ DOMAIN hdr \subseteq DOMAIN hdr'
      /\ \A c \in DOMAIN hdr : c # b =>
           /\ hdr'[c].free = hdr[c].free /\ hdr'[c].size = hdr[c].size
           /\ hdr'[c].next = hdr[c].next
      /\ \A n \in DOMAIN hdr' \ DOMAIN hdr :
           /\ b < n /\ hdr'[n].free /\ hdr'[n].next = hdr[b].next /\ hdr'[b].next = n
      /\ DOMAIN hdr' = DOMAIN hdr => hdr'[b].next = hdr[b].next
    <2> HIDE <1>2
    <2> QED BY <1>1, HallocEffect, Zenon
<1> DEFINE ptr == b + HDR_SIZE
           length == hdr'[b].size
<1>4. Held' = Held \cup {b} /\ b \notin Held
    BY <1>2, <1>3 DEF Held
<1>5. \A c \in Held' : /\ c \in Nat /\ c >= 1 /\ hdr'[c].size \in Nat
                       /\ End(hdr', c) = c + HDR_SIZE + hdr'[c].size
                       /\ End(hdr', c) <= HEAP_SIZE + 1
    BY <1>3, BlockBounds DEF Held, End, Addrs, hb_heap
<1>6. DOMAIN live' = {c + HDR_SIZE : c \in Held'} /\ DOMAIN live = {c + HDR_SIZE : c \in Held}
    BY DEF live
<1>7. \A c \in Held' : live'[c + HDR_SIZE] = hdr'[c].size
    <2> SUFFICES ASSUME NEW c \in Held' PROVE live'[c + HDR_SIZE] = hdr'[c].size
        OBVIOUS
    <2>1. (c + HDR_SIZE) - HDR_SIZE = c
        BY <1>5, HeapAssumption
    <2> QED BY <1>6, <2>1 DEF live
<1>8. \A c \in Held : live[c + HDR_SIZE] = hdr[c].size /\ hdr[c].size = hdr'[c].size
    <2> SUFFICES ASSUME NEW c \in Held
                 PROVE live[c + HDR_SIZE] = hdr[c].size /\ hdr[c].size = hdr'[c].size
        OBVIOUS
    <2>1. (c + HDR_SIZE) - HDR_SIZE = c /\ c # b /\ c \in DOMAIN hdr
        BY <1>4, <1>5, HeapAssumption DEF Held
    <2> QED BY <1>3, <1>6, <2>1 DEF live
<1>9. ptr \in Nat /\ ptr \in 1..HEAP_SIZE /\ length \in size..HEAP_SIZE
    <2>1. b \in Nat /\ b >= 1 /\ length \in Nat /\ b + HDR_SIZE + length <= HEAP_SIZE + 1
        BY <1>4, <1>5
    <2>2. size \in Nat \ {0} /\ length >= size
        BY <1>3, HeapAssumption
    <2> HIDE DEF length
    <2> QED BY <2>1, <2>2, HeapAssumption
<1>10. Abs!Units(ptr, length) \subseteq 1..HEAP_SIZE
    <2>1. b \in Nat /\ b >= 1 /\ length \in Nat /\ b + HDR_SIZE + length <= HEAP_SIZE + 1
        BY <1>4, <1>5
    <2> HIDE DEF length
    <2> QED BY <2>1, HeapAssumption DEF Abs!Units
<1>11. \A q \in DOMAIN live : Abs!Units(ptr, length) \cap Abs!Units(q, live[q]) = {}
    <2> SUFFICES ASSUME NEW c \in Held
                 PROVE  Abs!Units(ptr, length) \cap Abs!Units(c + HDR_SIZE, hdr'[c].size) = {}
        BY <1>6, <1>8
    <2>1. /\ c \in Nat /\ b \in Nat /\ hdr'[c].size \in Nat /\ length \in Nat
          /\ End(hdr', c) = c + HDR_SIZE + hdr'[c].size
          /\ End(hdr', b) = b + HDR_SIZE + length
        BY <1>4, <1>5
    <2>2. c < b => End(hdr', c) <= b
        BY <1>3, <1>4 DEF TilesHeap, Held
    <2>3. b < c => End(hdr', b) <= c
        BY <1>3, <1>4 DEF TilesHeap, Held
    <2>4. c # b
        BY <1>4
    <2> HIDE DEF length
    <2> QED BY <2>1, <2>2, <2>3, <2>4, HeapAssumption DEF Abs!Units
<1>12. DOMAIN live' = DOMAIN live \cup {ptr}
    BY <1>4, <1>6
<1>13. live' = [q \in DOMAIN live \cup {ptr} |-> IF q = ptr THEN length ELSE live[q]]
    <2>1. live' = [q \in DOMAIN live' |-> live'[q]]
        BY DEF live
    <2>2. live'[ptr] = length
        BY <1>4, <1>7
    <2>3. \A q \in DOMAIN live : live'[q] = live[q]
        BY <1>4, <1>6, <1>7, <1>8
    <2> HIDE DEF ptr, length
    <2> QED BY <1>12, <2>1, <2>2, <2>3
<1>14. Abs!Alloc(ptr, size)
    <2> HIDE DEF ptr, length
    <2> QED BY <1>9, <1>10, <1>11, <1>13 DEF Abs!Alloc
<1>15. ptr \in DOMAIN live' \ DOMAIN live
    <2>1. ASSUME NEW c \in Held PROVE c + HDR_SIZE # ptr
        <3>1. c \in Nat /\ b \in Nat /\ c # b
            BY <1>4, <1>5
        <3> QED BY <3>1, HeapAssumption
    <2> HIDE DEF ptr
    <2> QED BY <1>6, <1>12, <2>1
<1> QED BY <1>14, <1>15 DEF Abs!Next

(* A block that hfree takes back is the only one its callers lose. *)
LEMMA HfreeFrees ==
    ASSUME HeapInv, NEW b \in Held, hfree(b) PROVE Abs!Next
<1> DEFINE n == hdr[b].next
           ptr == b + HDR_SIZE
<1>1. /\ IsList(hdr') /\ TilesHeap(hdr')
      /\ Kept(b) \in DOMAIN hdr' /\ Kept(b) <= b /\ DOMAIN hdr' \subseteq DOMAIN hdr
      /\ \A c \in DOMAIN hdr \ DOMAIN hdr' : c = b \/ (TakesNext(b) /\ c = n)
      /\ Kept(b) # b => b \notin DOMAIN hdr'
      /\ hdr'[Kept(b)].free /\ hdr'[Kept(b)].next = After(b)
      /\ \A c \in DOMAIN hdr' : c # Kept(b) =>
           /\ hdr'[c].free = hdr[c].free /\ hdr'[c].size = hdr[c].size
           /\ hdr'[c].next = hdr[c].next
    BY HfreeEffect
<1>2. b \in DOMAIN hdr /\ ~hdr[b].free /\ IsList(hdr) /\ TilesHeap(hdr)
    BY DEF Held, HeapInv, TypeOK, ListTilesHeap
<1>3. Kept(b) = b \/ hdr[Kept(b)].free
    BY DEF Kept, JoinsPrev
<1>4. \A c \in DOMAIN hdr : c \in Nat
    BY <1>2, BlockBounds
<1>5. Held' = Held \ {b}
    <2>1. ASSUME NEW c \in Held' PROVE c \in Held \ {b}
        <3>1. c \in DOMAIN hdr' /\ ~hdr'[c].free /\ c # Kept(b)
            BY <1>1, <2>1 DEF Held
        <3>2. CASE Kept(b) = b
            BY <1>1, <3>1, <3>2 DEF Held
        <3>3. CASE Kept(b) # b
            BY <1>1, <3>1, <3>3 DEF Held
        <3> QED BY <3>2, <3>3
    <2>2. ASSUME NEW c \in Held \ {b} PROVE c \in Held'
        BY <1>1, <1>3, <2>2 DEF Held, TakesNext
    <2> QED BY <2>1, <2>2
<1>6. \A c \in Held \ {b} : hdr'[c].size = hdr[c].size
    BY <1>1, <1>3, <1>5 DEF Held
<1>7. DOMAIN live' = {c + HDR_SIZE : c \in Held'} /\ DOMAIN live = {c + HDR_SIZE : c \in Held}
    BY DEF live
<1>8. \A c \in Held : (c + HDR_SIZE) - HDR_SIZE = c
    BY <1>4, HeapAssumption DEF Held
<1>9. \A c \in Held \ {b} : /\ live'[c + HDR_SIZE] = live[c + HDR_SIZE]
                            /\ c + HDR_SIZE # ptr
    BY <1>5, <1>6, <1>7, <1>8 DEF live
<1>10. ptr \in DOMAIN live /\ DOMAIN live' = DOMAIN live \ {ptr}
    BY <1>5, <1>7, <1>9
<1>11. live' = [q \in DOMAIN live \ {ptr} |-> live[q]]
    <2>1. live' = [q \in DOMAIN live' |-> live'[q]]
        BY DEF live
    <2>2. \A q \in DOMAIN live \ {ptr} : live'[q] = live[q]
        BY <1>5, <1>7, <1>9, <1>10
    <2> HIDE DEF ptr
    <2> QED BY <1>10, <2>1, <2>2
<1> HIDE DEF ptr
<1> QED BY <1>10, <1>11 DEF Abs!Next, Abs!Free

(* Whatever lists the heap keeps, its callers see only what HeapSpec       *)
(* allows: halloc hands out free units, hfree takes back one block, and    *)
(* neither moves, shortens or overlaps a block that another caller holds.  *)
THEOREM HeapImplementsSpec == Spec => ImplementsHeapSpec
<1>1. Init => Abs!Init
    <2> SUFFICES ASSUME Init PROVE Abs!Init
        OBVIOUS
    <2>1. Held = {}
        BY DEF Init, Held
    <2>2. DOMAIN live = {}
        BY <2>1 DEF live
    <2> QED BY <2>1 DEF live, Abs!Init
<1>2. HeapInv /\ [Next]_vars => [Abs!Next]_live
    <2> SUFFICES ASSUME HeapInv, [Next]_vars PROVE [Abs!Next]_live
        OBVIOUS
    <2>1. ASSUME NEW size \in Requests, halloc(size) PROVE Abs!Next
        BY <2>1, HallocAllocs
    <2>2. ASSUME NEW b \in Held, hfree(b) PROVE Abs!Next
        BY <2>2, HfreeFrees
    <2>3. ASSUME UNCHANGED vars PROVE UNCHANGED live
        BY <2>3 DEF vars, live, Held
    <2> QED BY <2>1, <2>2, <2>3 DEF Next, hallocFails
<1> QED BY <1>1, <1>2, HeapInvariant, PTL DEF Spec, ImplementsHeapSpec, Abs!Spec

=============================================================================
