------------------------------ MODULE KzMemProofs ------------------------------
(***************************************************************************)
(* The lists of malloc's regions stay sound, and malloc and free keep what *)
(* HeapSpec promises, for any number of regions of any size, any header    *)
(* and any requests.                                                       *)
(***************************************************************************)
EXTENDS KzMem, KzLemmas

Regions == 1..HEAP_CNT
Header == [free : BOOLEAN, heap : Regions, size : Nat, prev : Nat, next : Nat]

EndIn(list, b) == b + MEM_HDR + list[b].size
SameHeap(list, b, c) == list[b].heap = list[c].heap

(* n is what follows b in its region: the next block, or nothing.          *)
Follows(list, b, n) ==
    IF n = MemNull THEN \A c \in DOMAIN list : SameHeap(list, b, c) => c <= b
    ELSE /\ n \in DOMAIN list /\ SameHeap(list, b, n) /\ b < n
         /\ \A c \in DOMAIN list : SameHeap(list, b, c) /\ b < c => n <= c

IsMemList(list) ==
    /\ DOMAIN list \subseteq Nat \ {0}
    /\ list \in [DOMAIN list -> Header]

InRegion(list, b) ==
    /\ HeapStart[list[b].heap] <= b
    /\ EndIn(list, b) <= HeapStart[list[b].heap] + HeapSize[list[b].heap]
LinkedOn(list, b) ==
    /\ Follows(list, b, list[b].next)
    /\ list[b].next # MemNull =>
         EndIn(list, b) <= list[b].next /\ list[list[b].next].prev = b
LinkedBack(list, b) ==
    list[b].prev # MemNull => list[b].prev \in DOMAIN list /\ list[list[b].prev].next = b

(* The links of the lists agree both ways; free follows them both.         *)
Sound(list) ==
    IsMemList(list) /\ \A b \in DOMAIN list :
                         InRegion(list, b) /\ LinkedOn(list, b) /\ LinkedBack(list, b)

-----------------------------------------------------------------------------
LEMMA RegionsApart ==
    /\ MEM_HDR \in Nat \ {0} /\ HEAP_CNT \in Nat \ {0}
    /\ \A i \in Regions : HeapStart[i] \in Nat \ {0} /\ HeapSize[i] \in Nat /\ HeapSize[i] > MEM_HDR
    /\ MEM_TOP \in Nat /\ \A i \in Regions : HeapStart[i] + HeapSize[i] - 1 <= MEM_TOP
    /\ \A i, j \in Regions :
         i # j => \/ HeapStart[i] + HeapSize[i] <= HeapStart[j]
                  \/ HeapStart[j] + HeapSize[j] <= HeapStart[i]
BY MemAssumption DEF Regions

LEMMA FieldTypes ==
    ASSUME NEW list, IsMemList(list), NEW b \in DOMAIN list
    PROVE  /\ b \in Nat /\ b # 0
           /\ list[b] \in Header
           /\ list[b].free \in BOOLEAN /\ list[b].heap \in Regions /\ list[b].size \in Nat
           /\ list[b].prev \in Nat /\ list[b].next \in Nat
           /\ EndIn(list, b) \in Nat /\ b < EndIn(list, b)
<1>1. b \in Nat /\ b # 0 /\ list[b] \in Header
    BY DEF IsMemList
<1>2. /\ list[b].free \in BOOLEAN /\ list[b].heap \in Regions /\ list[b].size \in Nat
      /\ list[b].prev \in Nat /\ list[b].next \in Nat
    BY <1>1 DEF Header
<1>3. EndIn(list, b) \in Nat /\ b < EndIn(list, b)
    BY <1>1, <1>2, RegionsApart DEF EndIn
<1> QED BY <1>1, <1>2, <1>3

(* No block reaches into one at a higher address, of whichever region. *)
LEMMA BlocksApart ==
    ASSUME NEW list, Sound(list), NEW b \in DOMAIN list, NEW c \in DOMAIN list, b < c
    PROVE  EndIn(list, b) <= c
<1>1. /\ b \in Nat /\ c \in Nat /\ list[b].heap \in Regions /\ list[c].heap \in Regions
      /\ list[b].next \in Nat /\ EndIn(list, b) \in Nat /\ EndIn(list, c) \in Nat
      /\ c < EndIn(list, c)
    BY FieldTypes DEF Sound
<1>2. InRegion(list, b) /\ InRegion(list, c) /\ LinkedOn(list, b)
    BY DEF Sound
<1> DEFINE i == list[b].heap
           j == list[c].heap
<1>3. /\ HeapStart[i] <= b /\ EndIn(list, b) <= HeapStart[i] + HeapSize[i]
      /\ HeapStart[j] <= c /\ EndIn(list, c) <= HeapStart[j] + HeapSize[j]
      /\ i \in Regions /\ j \in Regions
    BY <1>1, <1>2 DEF InRegion
<1>4. CASE i = j
    <2>1. list[b].next # MemNull /\ list[b].next <= c
        BY <1>1, <1>2, <1>4 DEF LinkedOn, Follows, SameHeap
    <2>2. EndIn(list, b) <= list[b].next
        BY <1>2, <2>1 DEF LinkedOn
    <2> QED BY <1>1, <2>1, <2>2
<1> HIDE DEF i, j
<1>5. CASE i # j
    <2>1. /\ HeapStart[i] \in Nat /\ HeapSize[i] \in Nat
          /\ HeapStart[j] \in Nat /\ HeapSize[j] \in Nat
          /\ \/ HeapStart[i] + HeapSize[i] <= HeapStart[j]
             \/ HeapStart[j] + HeapSize[j] <= HeapStart[i]
        BY <1>3, <1>5, RegionsApart
    <2>2. ~ HeapStart[j] + HeapSize[j] <= HeapStart[i]
        BY <1>1, <1>3, <2>1
    <2> QED BY <1>1, <1>3, <2>1, <2>2
<1> QED BY <1>4, <1>5 DEF i, j

(* What the links say of the neighbours of a block. *)
LEMMA Neighbours ==
    ASSUME NEW list, Sound(list), NEW b \in DOMAIN list
    PROVE  /\ list[b].next # MemNull =>
                 /\ list[b].next \in DOMAIN list /\ b < list[b].next
                 /\ SameHeap(list, b, list[b].next) /\ list[list[b].next].prev = b
           /\ list[b].prev # MemNull =>
                 /\ list[b].prev \in DOMAIN list /\ list[b].prev < b
                 /\ SameHeap(list, b, list[b].prev) /\ list[list[b].prev].next = b
<1>1. ASSUME NEW c \in DOMAIN list, list[c].next # MemNull
      PROVE  /\ list[c].next \in DOMAIN list /\ c < list[c].next
             /\ SameHeap(list, c, list[c].next) /\ list[list[c].next].prev = c
    BY <1>1 DEF Sound, LinkedOn, Follows
<1>2. ASSUME list[b].prev # MemNull
      PROVE  /\ list[b].prev \in DOMAIN list /\ list[b].prev < b
             /\ SameHeap(list, b, list[b].prev) /\ list[list[b].prev].next = b
    <2>1. list[b].prev \in DOMAIN list /\ list[list[b].prev].next = b
        BY <1>2 DEF Sound, LinkedBack
    <2>2. b # MemNull
        BY FieldTypes DEF Sound, MemNull
    <2> QED BY <1>1, <2>1, <2>2 DEF SameHeap
<1> QED BY <1>1, <1>2

(* A block may be given away, taken back and be shorter than it was: none  *)
(* of it is a matter of the links.                                         *)
LEMMA SoundAlike ==
    ASSUME NEW list, Sound(list), NEW other, IsMemList(other), DOMAIN other = DOMAIN list,
           \A b \in DOMAIN list :
               /\ other[b].heap = list[b].heap /\ other[b].size <= list[b].size
               /\ other[b].next = list[b].next /\ other[b].prev = list[b].prev
    PROVE  Sound(other)
<1> SUFFICES ASSUME NEW b \in DOMAIN list
             PROVE  InRegion(other, b) /\ LinkedOn(other, b) /\ LinkedBack(other, b)
    BY DEF Sound
<1>1. InRegion(list, b) /\ LinkedOn(list, b) /\ LinkedBack(list, b)
    BY DEF Sound
<1>2. /\ b \in Nat /\ list[b].heap \in Regions /\ list[b].next \in Nat
      /\ EndIn(list, b) \in Nat /\ EndIn(other, b) \in Nat
    BY FieldTypes DEF Sound
<1>3. EndIn(other, b) <= EndIn(list, b)
    <2>1. other[b].size \in Nat /\ list[b].size \in Nat /\ MEM_HDR \in Nat /\ other[b].size <= list[b].size
        BY FieldTypes, RegionsApart DEF Sound
    <2> QED BY <1>2, <2>1 DEF EndIn
<1>4. InRegion(other, b)
    <2>1. HeapStart[list[b].heap] + HeapSize[list[b].heap] \in Nat
        BY <1>2, RegionsApart
    <2> QED BY <1>1, <1>2, <1>3, <2>1 DEF InRegion
<1>5. LinkedOn(other, b)
    <2>1. Follows(other, b, other[b].next)
        BY <1>1 DEF LinkedOn, Follows, SameHeap
    <2>2. list[b].next # MemNull =>
              EndIn(list, b) <= list[b].next /\ list[list[b].next].prev = b /\ list[b].next \in DOMAIN list
        BY <1>1 DEF LinkedOn, Follows
    <2> QED BY <1>2, <1>3, <2>1, <2>2 DEF LinkedOn
<1>6. LinkedBack(other, b)
    BY <1>1 DEF LinkedBack
<1> QED BY <1>4, <1>5, <1>6

LEMMA SoundIsMemListsSound == ASSUME Sound(blk) PROVE MemListsSound
<1> SUFFICES ASSUME NEW b \in DOMAIN blk
             PROVE  LET i == blk[b].heap IN
                    /\ b >= HeapStart[i] /\ MemEnd(b) <= HeapStart[i] + HeapSize[i]
                    /\ blk[b].next = Lowest({c \in DOMAIN blk : blk[c].heap = i /\ c > b})
                    /\ blk[b].next # MemNull => MemEnd(b) <= blk[b].next /\ blk[blk[b].next].prev = b
    BY DEF MemListsSound
<1> DEFINE above == {c \in DOMAIN blk : blk[c].heap = blk[b].heap /\ c > b}
           n == blk[b].next
<1>1. InRegion(blk, b) /\ LinkedOn(blk, b)
    BY DEF Sound
<1>2. MemEnd(b) = EndIn(blk, b)
    BY DEF MemEnd, EndIn
<1>3. \A c \in DOMAIN blk : c \in Nat
    BY FieldTypes DEF Sound
<1>4. HeapStart[blk[b].heap] \in Nat
    BY FieldTypes, RegionsApart DEF Sound
<1>5. n = Lowest(above)
    <2>1. CASE n = MemNull
        <3>1. above = {}
            BY <1>1, <1>3, <2>1 DEF LinkedOn, Follows, SameHeap
        <3> QED BY <2>1, <3>1 DEF Lowest
    <2>2. CASE n # MemNull
        <3>1. n \in above /\ \A c \in above : n <= c
            BY <1>1, <1>3, <2>2 DEF LinkedOn, Follows, SameHeap
        <3>2. \A c \in above : c \in Nat
            BY <1>3
        <3> HIDE DEF above, n
        <3>3. \A m \in above : (\A c \in above : m <= c) => m = n
            BY <3>1, <3>2
        <3>4. Lowest(above) = CHOOSE m \in above : \A c \in above : m <= c
            BY <3>1 DEF Lowest
        <3> QED BY <3>1, <3>3, <3>4
    <2> QED BY <2>1, <2>2
<1>6. b >= HeapStart[blk[b].heap]
    BY <1>1, <1>3, <1>4 DEF InRegion
<1> QED BY <1>1, <1>2, <1>5, <1>6 DEF InRegion, LinkedOn

-----------------------------------------------------------------------------
Held(list) == {b \in DOMAIN list : ~list[b].free}

(* A whole block is given the length asked for, however long it is. *)
LEMMA WholeBlockTaken ==
    ASSUME Sound(blk), NEW b \in DOMAIN blk, NEW size \in Nat, blk[b].size >= size
    PROVE  LET list == [blk EXCEPT ![b].free = FALSE, ![b].size = size]
           IN  /\ Sound(list) /\ DOMAIN list = DOMAIN blk
               /\ ~list[b].free /\ list[b].size = size
               /\ \A c \in DOMAIN blk \ {b} : list[c] = blk[c]
<1> DEFINE list == [blk EXCEPT ![b].free = FALSE, ![b].size = size]
           taken == [blk[b] EXCEPT !.free = FALSE]
           h == [taken EXCEPT !.size = size]
<1>1. IsMemList(blk) /\ blk[b] \in Header
    BY FieldTypes DEF Sound
<1>2. list = [blk EXCEPT ![b] = h]
    BY <1>1 DEF IsMemList
<1> HIDE DEF list
<1>3. /\ taken \in Header /\ taken.free = FALSE /\ taken.heap = blk[b].heap
      /\ taken.next = blk[b].next /\ taken.prev = blk[b].prev
    BY <1>1 DEF Header
<1> HIDE DEF taken
<1>4. /\ h \in Header /\ h.free = FALSE /\ h.size = size /\ h.heap = blk[b].heap
      /\ h.next = blk[b].next /\ h.prev = blk[b].prev
    BY <1>3 DEF Header
<1> HIDE DEF h
<1>5. /\ DOMAIN list = DOMAIN blk /\ list[b] = h /\ IsMemList(list)
      /\ \A c \in DOMAIN blk \ {b} : list[c] = blk[c]
    BY <1>1, <1>2, <1>4 DEF IsMemList
<1>6. \A c \in DOMAIN blk : blk[c].size \in Nat
    BY FieldTypes DEF Sound
<1>7. \A c \in DOMAIN blk : list[c].size <= blk[c].size
    <2>1. h.size <= blk[b].size
        BY <1>4, <1>6
    <2> QED BY <1>5, <1>6, <2>1
<1>8. \A c \in DOMAIN blk :
          /\ list[c].heap = blk[c].heap /\ list[c].next = blk[c].next /\ list[c].prev = blk[c].prev
    BY <1>4, <1>5
<1>9. Sound(list)
    BY <1>5, <1>7, <1>8, SoundAlike
<1> QED BY <1>4, <1>5, <1>9 DEF list

(* A block is split in two, and the second one is free. *)
LEMMA BlockSplit ==
    ASSUME Sound(blk), NEW b \in DOMAIN blk, blk[b].free, NEW size \in Nat,
           ~(blk[b].size - size < MEM_HDR + 1)
    PROVE  LET n == b + size + MEM_HDR
               list == Cut(b, size)
           IN  /\ Sound(list) /\ n \notin DOMAIN blk /\ DOMAIN list = DOMAIN blk \cup {n}
               /\ ~list[b].free /\ list[b].size = size /\ list[n].free
               /\ \A c \in DOMAIN blk \ {b} :
                    list[c].free = blk[c].free /\ list[c].size = blk[c].size
<1> DEFINE n == b + size + MEM_HDR
           list == Cut(b, size)
           m == blk[b].next
           rest == blk[b].size - size - MEM_HDR
           h1 == [blk[b] EXCEPT !.size = rest]
           hn == [h1 EXCEPT !.prev = b]
           h2 == [blk[b] EXCEPT !.free = FALSE]
           h3 == [h2 EXCEPT !.size = size]
           hb == [h3 EXCEPT !.next = n]
           hm == [blk[m] EXCEPT !.prev = n]
<1>1. /\ b \in Nat /\ b # 0 /\ blk[b] \in Header /\ blk[b].size \in Nat /\ m \in Nat
      /\ MEM_HDR \in Nat \ {0} /\ EndIn(blk, b) = b + MEM_HDR + blk[b].size
    BY FieldTypes, RegionsApart DEF Sound, EndIn
<1>2. /\ n \in Nat \ {0} /\ rest \in Nat /\ b < n /\ n < EndIn(blk, b)
      /\ n + MEM_HDR + rest = EndIn(blk, b) /\ b + MEM_HDR + size = n
    BY <1>1
<1>3. n \notin DOMAIN blk
    <2> SUFFICES ASSUME n \in DOMAIN blk PROVE FALSE
        OBVIOUS
    <2>1. EndIn(blk, b) <= n
        <3> HIDE DEF n
        <3> QED BY <1>2, BlocksApart
    <2> QED BY <1>1, <1>2, <2>1
<1>4. m # MemNull => m \in DOMAIN blk /\ b < m /\ SameHeap(blk, b, m) /\ blk[m].prev = b
    BY Neighbours
<1>5. list = [c \in DOMAIN blk \cup {n} |->
                IF c = n THEN [blk[b] EXCEPT !.size = @ - size - MEM_HDR, !.prev = b]
                ELSE IF c = b THEN [blk[b] EXCEPT !.free = FALSE, !.size = size, !.next = n]
                ELSE IF c = m THEN [blk[c] EXCEPT !.prev = n]
                ELSE blk[c]]
    BY DEF Cut
<1>6. list = [c \in DOMAIN blk \cup {n} |->
                IF c = n THEN hn ELSE IF c = b THEN hb ELSE IF c = m THEN hm ELSE blk[c]]
    BY <1>1, <1>5 DEF Header
<1> HIDE DEF list, n, m, rest
<1>7. /\ hn \in Header /\ hn.free = blk[b].free /\ hn.heap = blk[b].heap /\ hn.size = rest
      /\ hn.prev = b /\ hn.next = m
    <2>1. h1 \in Header /\ h1.free = blk[b].free /\ h1.heap = blk[b].heap /\ h1.size = rest
          /\ h1.next = m
        BY <1>1, <1>2 DEF Header, m
    <2> HIDE DEF h1
    <2> QED BY <1>1, <2>1 DEF Header
<1>8. /\ hb \in Header /\ hb.free = FALSE /\ hb.heap = blk[b].heap /\ hb.size = size
      /\ hb.prev = blk[b].prev /\ hb.next = n
    <2>1. h2 \in Header /\ h2.free = FALSE /\ h2.heap = blk[b].heap /\ h2.prev = blk[b].prev
        BY <1>1 DEF Header
    <2> HIDE DEF h2
    <2>2. h3 \in Header /\ h3.free = FALSE /\ h3.heap = blk[b].heap /\ h3.prev = blk[b].prev
          /\ h3.size = size
        BY <2>1 DEF Header
    <2> HIDE DEF h3
    <2> QED BY <1>2, <2>2 DEF Header
<1>9. m # MemNull =>
        /\ hm \in Header /\ hm.free = blk[m].free /\ hm.heap = blk[m].heap /\ hm.size = blk[m].size
        /\ hm.prev = n /\ hm.next = blk[m].next
    <2> SUFFICES ASSUME m # MemNull PROVE
        /\ hm \in Header /\ hm.free = blk[m].free /\ hm.heap = blk[m].heap /\ hm.size = blk[m].size
        /\ hm.prev = n /\ hm.next = blk[m].next
        OBVIOUS
    <2>1. blk[m] \in Header
        BY <1>4, FieldTypes DEF Sound
    <2> QED BY <1>2, <2>1 DEF Header
<1> HIDE DEF hn, hb, hm
<1>10. /\ DOMAIN list = DOMAIN blk \cup {n} /\ n # b /\ n # m
       /\ list[n] = hn /\ list[b] = hb /\ (m # MemNull => list[m] = hm /\ m # b)
       /\ \A c \in DOMAIN blk : c # b /\ c # m => list[c] = blk[c]
    <2>1. n # b /\ (m # MemNull => m # b)
        BY <1>1, <1>2, <1>4
    <2>2. n # m
        BY <1>2, <1>3, <1>4 DEF MemNull
    <2> QED BY <1>3, <1>4, <1>6, <2>1, <2>2
<1>11. \A c \in DOMAIN blk : c \in Nat /\ c # 0 /\ c # n /\ blk[c] \in Header
    BY <1>3, FieldTypes DEF Sound
<1>12. MemNull \notin DOMAIN blk
    BY <1>11 DEF MemNull
<1>13. ASSUME NEW c \in DOMAIN blk \ {b}
       PROVE  /\ list[c] \in Header /\ list[c].free = blk[c].free /\ list[c].size = blk[c].size
              /\ list[c].heap = blk[c].heap /\ list[c].next = blk[c].next
              /\ list[c].prev = IF c = m THEN n ELSE blk[c].prev
    BY <1>9, <1>10, <1>11, <1>12
<1>14. IsMemList(list)
    <2>1. \A c \in DOMAIN list : list[c] \in Header
        BY <1>7, <1>8, <1>10, <1>13
    <2>2. list = [c \in DOMAIN list |-> list[c]]
        BY <1>6
    <2>3. DOMAIN list \subseteq Nat \ {0}
        BY <1>2, <1>10, <1>11
    <2> QED BY <2>1, <2>2, <2>3 DEF IsMemList
<1>15. InRegion(blk, b) /\ LinkedOn(blk, b) /\ LinkedBack(blk, b)
    BY DEF Sound
<1>16. \A c \in DOMAIN blk : list[c].heap = blk[c].heap
    BY <1>8, <1>10, <1>13
<1>17. /\ EndIn(list, n) = EndIn(blk, b) /\ EndIn(list, b) = n
       /\ \A c \in DOMAIN blk \ {b} : EndIn(list, c) = EndIn(blk, c)
    BY <1>2, <1>7, <1>8, <1>10, <1>13 DEF EndIn
<1>18. HeapStart[blk[b].heap] \in Nat /\ HeapSize[blk[b].heap] \in Nat
    BY <1>1, RegionsApart DEF Header
<1>19. InRegion(list, n) /\ LinkedOn(list, n) /\ LinkedBack(list, n)
    <2>1. InRegion(list, n)
        BY <1>1, <1>2, <1>7, <1>10, <1>15, <1>17, <1>18 DEF InRegion
    <2>2. LinkedBack(list, n)
        BY <1>7, <1>8, <1>10 DEF LinkedBack
    <2>3. CASE m = MemNull
        <3>1. \A c \in DOMAIN blk : SameHeap(blk, b, c) => c <= b
            BY <1>15, <2>3 DEF LinkedOn, Follows, m
        <3>2. \A c \in DOMAIN list : SameHeap(list, n, c) => c <= n
            BY <1>1, <1>2, <1>7, <1>10, <1>11, <1>16, <3>1 DEF SameHeap
        <3> QED BY <1>7, <1>10, <2>1, <2>2, <2>3, <3>2 DEF LinkedOn, Follows
    <2>4. CASE m # MemNull
        <3>1. /\ EndIn(blk, b) <= m /\ m \in Nat
              /\ \A c \in DOMAIN blk : SameHeap(blk, b, c) /\ b < c => m <= c
            BY <1>11, <1>4, <1>15, <2>4 DEF LinkedOn, Follows, m
        <3>2. n < m
            BY <1>1, <1>2, <3>1
        <3>3. SameHeap(list, n, m)
            BY <1>4, <1>7, <1>10, <1>16, <2>4 DEF SameHeap
        <3>4. \A c \in DOMAIN list : SameHeap(list, n, c) /\ n < c => m <= c
            BY <1>1, <1>2, <1>7, <1>10, <1>11, <1>16, <3>1 DEF SameHeap
        <3>5. list[m].prev = n
            BY <1>9, <1>10, <2>4
        <3>6. Follows(list, n, m)
            BY <1>4, <1>10, <2>4, <3>2, <3>3, <3>4 DEF Follows
        <3> QED BY <1>7, <1>10, <1>17, <2>1, <2>2, <3>1, <3>5, <3>6 DEF LinkedOn
    <2> QED BY <2>3, <2>4
<1>20. InRegion(list, b) /\ LinkedOn(list, b) /\ LinkedBack(list, b)
    <2>1. InRegion(list, b)
        <3>1. EndIn(blk, b) \in Nat
            BY FieldTypes DEF Sound
        <3> QED BY <1>1, <1>2, <1>8, <1>10, <1>15, <1>17, <1>18, <3>1 DEF InRegion
    <2>2. SameHeap(list, b, n)
        BY <1>7, <1>8, <1>10 DEF SameHeap
    <2>3. \A c \in DOMAIN list : SameHeap(list, b, c) /\ b < c => n <= c
        <3>1. \A c \in DOMAIN blk : b < c => EndIn(blk, b) <= c
            BY BlocksApart
        <3> QED BY <1>1, <1>2, <1>10, <1>11, <3>1
    <2>4. Follows(list, b, n)
        BY <1>2, <1>10, <2>2, <2>3 DEF Follows, MemNull
    <2>5. LinkedOn(list, b)
        BY <1>2, <1>7, <1>8, <1>10, <1>17, <2>4 DEF LinkedOn
    <2>6. LinkedBack(list, b)
        <3> SUFFICES ASSUME blk[b].prev # MemNull
                     PROVE  blk[b].prev \in DOMAIN list /\ list[blk[b].prev].next = b
            BY <1>8, <1>10 DEF LinkedBack
        <3>1. blk[b].prev \in DOMAIN blk /\ blk[b].prev < b /\ blk[blk[b].prev].next = b
            BY Neighbours
        <3>2. blk[b].prev \in DOMAIN blk \ {b}
            BY <1>1, <3>1
        <3> QED BY <1>10, <1>13, <3>1, <3>2
    <2> QED BY <2>1, <2>5, <2>6
<1>21. ASSUME NEW c \in DOMAIN blk \ {b}
       PROVE  InRegion(list, c) /\ LinkedOn(list, c) /\ LinkedBack(list, c)
    <2> DEFINE d == blk[c].next
               p == blk[c].prev
    <2>1. InRegion(blk, c) /\ LinkedOn(blk, c) /\ LinkedBack(blk, c)
        BY DEF Sound
    <2>2. InRegion(list, c)
        BY <1>13, <1>17, <2>1 DEF InRegion
    <2>3. list[c].next = d /\ c \in DOMAIN list
        BY <1>10, <1>13
    <2>4. /\ d # MemNull => d \in DOMAIN blk /\ c < d /\ SameHeap(blk, c, d) /\ blk[d].prev = c
          /\ p # MemNull => p \in DOMAIN blk /\ blk[p].next = c
        BY Neighbours
    <2>5. Follows(list, c, d)
        <3>1. Follows(blk, c, d)
            BY <2>1 DEF LinkedOn
        <3>2. CASE d = MemNull
            <4>1. \A a \in DOMAIN blk : SameHeap(blk, c, a) => a <= c
                BY <3>1, <3>2 DEF Follows
            <4>2. SameHeap(list, c, n) => n <= c
                (* The block that was split would lie above c, or does.    *)
                <5> SUFFICES ASSUME SameHeap(list, c, n) PROVE n <= c
                    OBVIOUS
                <5>1. SameHeap(blk, c, b)
                    BY <1>7, <1>10, <1>13 DEF SameHeap
                <5>2. b < c
                    BY <1>1, <1>11, <4>1, <5>1
                <5>3. EndIn(blk, b) <= c
                    BY <5>2, BlocksApart
                <5> QED BY <1>1, <1>2, <1>11, <5>3
            <4>3. \A a \in DOMAIN list : SameHeap(list, c, a) => a <= c
                BY <1>10, <1>16, <4>1, <4>2 DEF SameHeap
            <4> QED BY <3>2, <4>3 DEF Follows
        <3>3. CASE d # MemNull
            <4>1. \A a \in DOMAIN blk : SameHeap(blk, c, a) /\ c < a => d <= a
                BY <3>1, <3>3 DEF Follows
            <4>2. SameHeap(list, c, n) /\ c < n => d <= n
                <5> SUFFICES ASSUME SameHeap(list, c, n), c < n PROVE d <= n
                    OBVIOUS
                <5>1. SameHeap(blk, c, b)
                    BY <1>7, <1>10, <1>13 DEF SameHeap
                <5>2. c < b
                    <6>1. b < c => EndIn(blk, b) <= c
                        BY BlocksApart
                    <6> QED BY <1>1, <1>2, <1>11, <6>1
                <5>3. d <= b
                    BY <4>1, <5>1, <5>2
                <5> QED BY <1>1, <1>2, <1>11, <2>4, <3>3, <5>3
            <4>3. \A a \in DOMAIN list : SameHeap(list, c, a) /\ c < a => d <= a
                BY <1>10, <1>16, <4>1, <4>2 DEF SameHeap
            <4>4. d \in DOMAIN list /\ c < d /\ SameHeap(list, c, d)
                BY <1>10, <1>16, <2>4, <3>3 DEF SameHeap
            <4> QED BY <3>3, <4>3, <4>4 DEF Follows
        <3> QED BY <3>2, <3>3
    <2>6. d # MemNull => EndIn(list, c) <= d /\ list[d].prev = c
        <3> SUFFICES ASSUME d # MemNull PROVE EndIn(list, c) <= d /\ list[d].prev = c
            OBVIOUS
        <3>1. EndIn(list, c) <= d
            BY <1>17, <2>1 DEF LinkedOn
        <3>2. CASE d = b
            BY <1>8, <1>10, <2>4, <3>1, <3>2
        <3>3. CASE d # b
            <4>1. d # m
                BY <1>4, <1>12, <2>4
            <4> QED BY <1>13, <2>4, <3>1, <3>3, <4>1
        <3> QED BY <3>2, <3>3
    <2>7. LinkedOn(list, c)
        BY <2>3, <2>5, <2>6 DEF LinkedOn
    <2>8. LinkedBack(list, c)
        <3>1. CASE c = m
            <4>1. list[c].prev = n /\ list[n].next = c /\ n \in DOMAIN list
                BY <1>7, <1>10, <1>13, <3>1
            <4> QED BY <4>1 DEF LinkedBack
        <3>2. CASE c # m
            <4> SUFFICES ASSUME p # MemNull PROVE p \in DOMAIN list /\ list[p].next = c
                BY <1>13, <3>2 DEF LinkedBack
            <4>1. p \in DOMAIN blk /\ blk[p].next = c /\ p # b
                BY <2>4, <3>2 DEF m
            <4> QED BY <1>10, <1>13, <4>1
        <3> QED BY <3>1, <3>2
    <2> QED BY <2>2, <2>7, <2>8
<1>22. Sound(list)
    BY <1>10, <1>14, <1>19, <1>20, <1>21 DEF Sound
<1> QED BY <1>3, <1>7, <1>8, <1>10, <1>13, <1>22 DEF n, list

(* What merging b with its next, n, makes of a list. *)
TakenIn(list, b, n, merged) ==
    /\ Sound(merged) /\ DOMAIN merged = DOMAIN list \ {n} /\ b \in DOMAIN merged
    /\ merged[b].free = list[b].free /\ merged[b].prev = list[b].prev
    /\ \A c \in DOMAIN merged \ {b} :
         merged[c].free = list[c].free /\ merged[c].size = list[c].size

(* A block takes in the one that follows it, and whatever was lost between *)
(* the two stays lost.                                                     *)
LEMMA BlocksMerged ==
    ASSUME NEW list, Sound(list), NEW b \in DOMAIN list, NEW n, list[b].next = n, n # MemNull
    PROVE  TakenIn(list, b, n, Merged(list, b, n))
<1> DEFINE merged == Merged(list, b, n)
           m == list[n].next
           sum == list[b].size + list[n].size + MEM_HDR
           h1 == [list[b] EXCEPT !.size = sum]
           hb == [h1 EXCEPT !.next = m]
           hm == [list[m] EXCEPT !.prev = b]
<1>1. n \in DOMAIN list /\ b < n /\ SameHeap(list, b, n) /\ list[n].prev = b
    BY Neighbours
<1>2. m # MemNull => m \in DOMAIN list /\ n < m /\ SameHeap(list, n, m) /\ list[m].prev = n
    BY <1>1, Neighbours
<1>3. \A c \in DOMAIN list : /\ c \in Nat /\ c # 0 /\ list[c] \in Header /\ list[c].size \in Nat
                             /\ list[c].next \in Nat /\ EndIn(list, c) \in Nat
    BY FieldTypes DEF Sound
<1>4. MemNull \notin DOMAIN list
    BY <1>3 DEF MemNull
<1>5. /\ MEM_HDR \in Nat /\ EndIn(list, b) = b + MEM_HDR + list[b].size
      /\ EndIn(list, n) = n + MEM_HDR + list[n].size
      /\ EndIn(list, b) <= n
    <2>1. MEM_HDR \in Nat
        BY RegionsApart
    <2>2. EndIn(list, b) <= n
        BY <1>1, BlocksApart
    <2> QED BY <2>1, <2>2 DEF EndIn
<1>6. sum \in Nat /\ b + MEM_HDR + sum <= EndIn(list, n)
    <2>1. /\ b \in Nat /\ n \in Nat /\ list[b].size \in Nat /\ list[n].size \in Nat
        BY <1>1, <1>3
    <2> QED BY <1>5, <2>1
<1>7. merged = [c \in DOMAIN list \ {n} |->
                  IF c = b THEN [list[b] EXCEPT !.size = @ + list[n].size + MEM_HDR, !.next = m]
                  ELSE IF c = m THEN [list[c] EXCEPT !.prev = b] ELSE list[c]]
    BY DEF Merged
<1>8. merged = [c \in DOMAIN list \ {n} |->
                  IF c = b THEN hb ELSE IF c = m THEN hm ELSE list[c]]
    BY <1>3, <1>7 DEF Header
<1> HIDE DEF merged, m, sum
<1>9. /\ hb \in Header /\ hb.free = list[b].free /\ hb.heap = list[b].heap /\ hb.size = sum
      /\ hb.prev = list[b].prev /\ hb.next = m
    <2>1. m \in Nat
        BY <1>1, <1>3 DEF m
    <2>2. h1 \in Header /\ h1.free = list[b].free /\ h1.heap = list[b].heap /\ h1.size = sum
          /\ h1.prev = list[b].prev
        BY <1>3, <1>6 DEF Header
    <2> HIDE DEF h1
    <2> QED BY <2>1, <2>2 DEF Header
<1>10. m # MemNull =>
        /\ hm \in Header /\ hm.free = list[m].free /\ hm.heap = list[m].heap /\ hm.size = list[m].size
        /\ hm.prev = b /\ hm.next = list[m].next
    <2> SUFFICES ASSUME m # MemNull PROVE
        /\ hm \in Header /\ hm.free = list[m].free /\ hm.heap = list[m].heap /\ hm.size = list[m].size
        /\ hm.prev = b /\ hm.next = list[m].next
        OBVIOUS
    <2>1. list[m] \in Header /\ b \in Nat
        BY <1>2, <1>3
    <2> QED BY <2>1 DEF Header
<1> HIDE DEF hb, hm
<1>11. /\ DOMAIN merged = DOMAIN list \ {n} /\ b # n /\ m # n /\ m # b
       /\ merged[b] = hb /\ (m # MemNull => merged[m] = hm)
       /\ \A c \in DOMAIN list \ {n} : c # b /\ c # m => merged[c] = list[c]
    <2>1. b # n /\ m # n /\ m # b
        BY <1>1, <1>2, <1>3, <1>4
    <2> QED BY <1>2, <1>8, <2>1
<1>12. ASSUME NEW c \in DOMAIN list \ {b, n}
       PROVE  /\ merged[c] \in Header /\ merged[c].free = list[c].free /\ merged[c].size = list[c].size
              /\ merged[c].heap = list[c].heap /\ merged[c].next = list[c].next
              /\ merged[c].prev = IF c = m THEN b ELSE list[c].prev
    BY <1>3, <1>4, <1>10, <1>11
<1>13. IsMemList(merged)
    <2>1. \A c \in DOMAIN merged : merged[c] \in Header
        BY <1>9, <1>11, <1>12
    <2>2. merged = [c \in DOMAIN merged |-> merged[c]]
        BY <1>8
    <2>3. DOMAIN merged \subseteq Nat \ {0}
        BY <1>3, <1>11
    <2> QED BY <2>1, <2>2, <2>3 DEF IsMemList
<1>14. \A c \in DOMAIN merged : merged[c].heap = list[c].heap
    BY <1>9, <1>11, <1>12
<1>15. /\ EndIn(merged, b) <= EndIn(list, n)
       /\ \A c \in DOMAIN list \ {b, n} : EndIn(merged, c) = EndIn(list, c)
    BY <1>6, <1>9, <1>11, <1>12 DEF EndIn
<1>16. InRegion(merged, b) /\ LinkedOn(merged, b) /\ LinkedBack(merged, b)
    <2>1. EndIn(merged, b) \in Nat /\ EndIn(list, n) \in Nat /\ b \in Nat
        BY <1>1, <1>3, <1>11, <1>13, FieldTypes
    <2>2. InRegion(list, b) /\ InRegion(list, n) /\ LinkedOn(list, n)
        BY <1>1 DEF Sound
    <2>3. list[n].heap = list[b].heap /\ list[b].heap \in Regions
        BY <1>1, FieldTypes DEF SameHeap, Sound
    <2>4. HeapStart[list[b].heap] + HeapSize[list[b].heap] \in Nat
        BY <2>3, RegionsApart
    <2>5. InRegion(merged, b)
        BY <1>9, <1>11, <1>15, <2>1, <2>2, <2>3, <2>4 DEF InRegion
    <2>6. Follows(merged, b, m)
        <3>1. \A c \in DOMAIN list : SameHeap(list, b, c) /\ b < c => n <= c
            BY DEF Sound, LinkedOn, Follows
        <3>2. Follows(list, n, m)
            BY <2>2 DEF LinkedOn, m
        <3>3. CASE m = MemNull
            <4>1. \A c \in DOMAIN list : SameHeap(list, b, c) => c <= n
                BY <2>3, <3>2, <3>3 DEF Follows, SameHeap
            <4>2. \A c \in DOMAIN merged : SameHeap(merged, b, c) => c <= b
                BY <1>1, <1>3, <1>11, <1>14, <3>1, <4>1 DEF SameHeap
            <4> QED BY <3>3, <4>2 DEF Follows
        <3>4. CASE m # MemNull
            <4>1. \A c \in DOMAIN list : SameHeap(list, b, c) /\ n < c => m <= c
                BY <2>3, <3>2, <3>4 DEF Follows, SameHeap
            <4>2. \A c \in DOMAIN merged : SameHeap(merged, b, c) /\ b < c => m <= c
                BY <1>1, <1>3, <1>11, <1>14, <3>1, <4>1 DEF SameHeap
            <4>3. m \in DOMAIN merged /\ b < m /\ SameHeap(merged, b, m)
                BY <1>1, <1>2, <1>3, <1>11, <1>14, <2>3, <3>4 DEF SameHeap
            <4> QED BY <3>4, <4>2, <4>3 DEF Follows
        <3> QED BY <3>3, <3>4
    <2>7. m # MemNull => EndIn(merged, b) <= m /\ merged[m].prev = b
        <3> SUFFICES ASSUME m # MemNull PROVE EndIn(merged, b) <= m /\ merged[m].prev = b
            OBVIOUS
        <3>1. EndIn(list, n) <= m /\ m \in Nat
            BY <1>2, <1>3, <2>2 DEF LinkedOn, m
        <3> QED BY <1>10, <1>11, <1>15, <2>1, <3>1
    <2>8. LinkedOn(merged, b)
        BY <1>9, <1>11, <2>6, <2>7 DEF LinkedOn
    <2>9. LinkedBack(merged, b)
        <3> SUFFICES ASSUME list[b].prev # MemNull
                     PROVE  list[b].prev \in DOMAIN merged /\ merged[list[b].prev].next = b
            BY <1>9, <1>11 DEF LinkedBack
        <3>1. list[b].prev \in DOMAIN list /\ list[b].prev < b /\ list[list[b].prev].next = b
            BY Neighbours
        <3>2. list[b].prev \in DOMAIN list \ {b, n}
            BY <1>1, <1>3, <3>1
        <3> QED BY <1>11, <1>12, <3>1, <3>2
    <2> QED BY <2>5, <2>8, <2>9
<1>17. ASSUME NEW c \in DOMAIN list \ {b, n}
       PROVE  InRegion(merged, c) /\ LinkedOn(merged, c) /\ LinkedBack(merged, c)
    <2> DEFINE d == list[c].next
               p == list[c].prev
    <2>1. InRegion(list, c) /\ LinkedOn(list, c) /\ LinkedBack(list, c)
        BY DEF Sound
    <2>2. InRegion(merged, c)
        BY <1>12, <1>15, <2>1 DEF InRegion
    <2>3. /\ d # MemNull => d \in DOMAIN list /\ c < d /\ SameHeap(list, c, d) /\ list[d].prev = c
          /\ p # MemNull => p \in DOMAIN list /\ list[p].next = c
        BY Neighbours
    <2>4. merged[c].next = d /\ c \in DOMAIN merged /\ d # n
        BY <1>1, <1>4, <1>11, <1>12, <2>3
    <2>5. Follows(merged, c, d)
        <3>1. Follows(list, c, d)
            BY <2>1 DEF LinkedOn
        <3>2. \A a \in DOMAIN merged : a \in DOMAIN list /\ (SameHeap(merged, c, a) <=> SameHeap(list, c, a))
            BY <1>11, <1>14, <2>4 DEF SameHeap
        <3>3. d \in DOMAIN list => d \in DOMAIN merged
            BY <1>11, <2>4
        <3> QED BY <3>1, <3>2, <3>3 DEF Follows
    <2>6. d # MemNull => EndIn(merged, c) <= d /\ merged[d].prev = c
        <3> SUFFICES ASSUME d # MemNull PROVE EndIn(merged, c) <= d /\ merged[d].prev = c
            OBVIOUS
        <3>1. EndIn(merged, c) <= d
            BY <1>15, <2>1 DEF LinkedOn
        <3>2. CASE d = b
            BY <1>9, <1>11, <2>3, <3>1, <3>2
        <3>3. CASE d # b
            <4>1. d # m
                BY <1>2, <1>4, <2>3
            <4> QED BY <1>12, <2>3, <2>4, <3>1, <3>3, <4>1
        <3> QED BY <3>2, <3>3
    <2>7. LinkedOn(merged, c)
        BY <2>4, <2>5, <2>6 DEF LinkedOn
    <2>8. LinkedBack(merged, c)
        <3>1. CASE c = m
            <4>1. merged[c].prev = b /\ merged[b].next = c /\ b \in DOMAIN merged
                BY <1>9, <1>11, <1>12, <3>1
            <4> QED BY <4>1 DEF LinkedBack
        <3>2. CASE c # m
            <4> SUFFICES ASSUME p # MemNull PROVE p \in DOMAIN merged /\ merged[p].next = c
                BY <1>12, <3>2 DEF LinkedBack
            <4>1. p \in DOMAIN list /\ list[p].next = c /\ p # b /\ p # n
                BY <2>3, <3>2 DEF m
            <4> QED BY <1>11, <1>12, <4>1
        <3> QED BY <3>1, <3>2
    <2> QED BY <2>2, <2>7, <2>8
<1>18. Sound(merged)
    BY <1>11, <1>13, <1>16, <1>17 DEF Sound
<1> QED BY <1>9, <1>11, <1>12, <1>18 DEF TakenIn, merged

LEMMA MallocEffect ==
    ASSUME Sound(blk), NEW size \in MemRequests, malloc(size)
    PROVE  \E b \in DOMAIN blk :
             /\ Sound(blk') /\ b \notin Held(blk) /\ Held(blk') = Held(blk) \cup {b}
             /\ blk'[b].size = size
             /\ \A c \in Held(blk) : blk'[c].size = blk[c].size
<1>1. PICK i \in 1..HEAP_CNT :
        Fitting(i, size) # {} /\ blk' = Cut(Lowest(Fitting(i, size)), size)
    BY DEF malloc
<1> DEFINE b == Lowest(Fitting(i, size))
<1>2. b \in Fitting(i, size)
    <2> DEFINE fitting == Fitting(i, size)
    <2>1. fitting \in SUBSET Nat
        BY FieldTypes DEF Fitting, Sound
    <2>2. fitting # {}
        BY <1>1
    <2>3. Lowest(fitting) = CHOOSE m \in fitting : \A c \in fitting : m <= c
        BY <2>2 DEF Lowest
    <2> HIDE DEF fitting
    <2>4. \E m \in fitting : \A c \in fitting : m <= c
        BY <2>1, <2>2, LeastNatural
    <2>5. Lowest(fitting) \in fitting
        BY <2>3, <2>4
    <2> QED BY <2>5 DEF fitting
<1> HIDE DEF b
<1>3. b \in DOMAIN blk /\ blk[b].free /\ blk[b].size >= size
    BY <1>2 DEF Fitting
<1>4. blk' = Cut(b, size)
    BY <1>1 DEF b
<1>5. size \in Nat
    BY MemAssumption
<1>6. b \notin Held(blk)
    BY <1>3 DEF Held
<1>7. CASE blk[b].size - size < MEM_HDR + 1
    <2>1. blk' = [blk EXCEPT ![b].free = FALSE, ![b].size = size]
        BY <1>4, <1>7 DEF Cut
    <2>2. /\ Sound(blk') /\ DOMAIN blk' = DOMAIN blk /\ ~blk'[b].free /\ blk'[b].size = size
          /\ \A c \in DOMAIN blk \ {b} : blk'[c] = blk[c]
        BY <1>3, <1>5, <2>1, WholeBlockTaken
    <2>3. Held(blk') = Held(blk) \cup {b}
        BY <1>3, <2>2 DEF Held
    <2> QED BY <1>3, <1>6, <2>2, <2>3 DEF Held
<1>8. CASE ~(blk[b].size - size < MEM_HDR + 1)
    <2> DEFINE n == b + size + MEM_HDR
    <2>1. /\ Sound(blk') /\ n \notin DOMAIN blk /\ DOMAIN blk' = DOMAIN blk \cup {n}
          /\ ~blk'[b].free /\ blk'[b].size = size /\ blk'[n].free
          /\ \A c \in DOMAIN blk \ {b} :
               blk'[c].free = blk[c].free /\ blk'[c].size = blk[c].size
        BY <1>3, <1>4, <1>5, <1>8, BlockSplit
    <2> HIDE DEF n
    <2>2. Held(blk') = Held(blk) \cup {b}
        BY <1>3, <2>1 DEF Held
    <2> QED BY <1>3, <1>6, <2>1, <2>2 DEF Held
<1> QED BY <1>7, <1>8

LEMMA FreeEffect ==
    ASSUME Sound(blk), NEW b \in MemHeld, free(b)
    PROVE  /\ Sound(blk') /\ Held(blk') = Held(blk) \ {b}
           /\ \A c \in Held(blk') : blk'[c].size = blk[c].size
<1> DEFINE n == blk[b].next
           takes == n # MemNull /\ blk[n].free
           h == IF takes THEN Merged(blk, b, n) ELSE blk
           p == blk[b].prev
           joins == p # MemNull /\ blk[p].free
           kept == IF joins THEN p ELSE b
           g == IF joins THEN Merged(h, p, b) ELSE h
<1>1. blk' = [g EXCEPT ![kept].free = TRUE]
    BY DEF free
<1>2. b \in DOMAIN blk /\ ~blk[b].free
    BY DEF MemHeld
<1>3. \A c \in DOMAIN blk : c \in Nat
    BY FieldTypes DEF Sound
<1>4. /\ n # MemNull => n \in DOMAIN blk /\ b < n
      /\ p # MemNull => p \in DOMAIN blk /\ p < b /\ blk[p].next = b
    BY <1>2, Neighbours
<1> HIDE DEF h, g
<1>5. /\ Sound(h) /\ Held(h) = Held(blk) /\ b \in DOMAIN h /\ DOMAIN h \subseteq DOMAIN blk
      /\ h[b].prev = p /\ (joins => p \in DOMAIN h /\ h[p].free)
      /\ \A c \in Held(blk) \ {b} : h[c].size = blk[c].size
    <2>1. CASE takes
        <3>1. h = Merged(blk, b, n) /\ n \in DOMAIN blk /\ n # b /\ blk[n].free
            BY <1>2, <2>1, <1>4 DEF h
        <3>2. TakenIn(blk, b, n, h)
            BY <1>2, <2>1, <3>1, BlocksMerged
        <3>3. Held(h) = Held(blk)
            BY <1>2, <3>1, <3>2 DEF Held, TakenIn
        <3>4. joins => p \in DOMAIN blk /\ p # b /\ p # n /\ blk[p].free
            BY <1>2, <1>3, <1>4, <3>1
        <3> HIDE DEF joins, p, n
        <3>5. \A c \in Held(blk) \ {b} : c \in DOMAIN h \ {b}
            BY <3>3 DEF Held
        <3>6. \A c \in Held(blk) \ {b} : h[c].size = blk[c].size
            BY <3>2, <3>5 DEF TakenIn
        <3>7. Sound(h) /\ b \in DOMAIN h /\ DOMAIN h = DOMAIN blk \ {n} /\ h[b].prev = p
            BY <3>2 DEF TakenIn, p
        <3>8. joins => h[p].free = blk[p].free
            BY <3>2, <3>4, <3>7 DEF TakenIn
        <3> QED BY <3>3, <3>4, <3>6, <3>7, <3>8
    <2>2. CASE ~takes
        <3>1. h = blk
            BY <2>2 DEF h
        <3> QED BY <1>2, <1>4, <3>1 DEF Held
    <2> QED BY <2>1, <2>2
<1>6. /\ Sound(g) /\ kept \in DOMAIN g
      /\ Held(g) \ {b} = Held(blk) \ {b} /\ kept \notin Held(blk) \ {b}
      /\ b \in DOMAIN g => b = kept
      /\ \A c \in Held(blk) \ {b} : g[c].size = blk[c].size
    <2>1. CASE joins
        <3>1. g = Merged(h, p, b) /\ kept = p /\ p # b /\ p \in DOMAIN h /\ h[p].free /\ blk[p].free
            BY <1>2, <1>5, <2>1 DEF g
        <3>2. h[p].next = b
            BY <1>5, <2>1, Neighbours
        <3>3. b # MemNull
            BY <1>2, FieldTypes DEF Sound, MemNull
        <3>4. TakenIn(h, p, b, g)
            BY <1>5, <3>1, <3>2, <3>3, BlocksMerged
        <3>5. Held(g) = Held(h) \ {b}
            BY <3>1, <3>4 DEF Held, TakenIn
        <3>6. p \notin Held(blk)
            BY <3>1 DEF Held
        <3>7. \A c \in Held(blk) \ {b} : c \in DOMAIN g \ {p}
            BY <1>5, <3>5, <3>6 DEF Held
        <3>8. \A c \in Held(blk) \ {b} : g[c].size = blk[c].size
            BY <1>5, <3>4, <3>7 DEF TakenIn
        <3>9. Sound(g) /\ DOMAIN g = DOMAIN h \ {b} /\ p \in DOMAIN g
            BY <3>4 DEF TakenIn
        <3> HIDE DEF joins, p, kept
        <3> QED BY <1>5, <3>1, <3>5, <3>6, <3>8, <3>9
    <2>2. CASE ~joins
        <3>1. g = h /\ kept = b
            BY <2>2 DEF g
        <3> HIDE DEF kept
        <3> QED BY <1>5, <3>1
    <2> QED BY <2>1, <2>2
<1> HIDE DEF n, takes, p, joins, kept
<1> DEFINE freed == [g[kept] EXCEPT !.free = TRUE]
<1>7. /\ freed \in Header /\ freed.free = TRUE /\ freed.heap = g[kept].heap
      /\ freed.size = g[kept].size /\ freed.prev = g[kept].prev /\ freed.next = g[kept].next
    <2>1. g[kept] \in Header
        BY <1>6, FieldTypes DEF Sound
    <2> QED BY <2>1 DEF Header
<1>8. blk' = [g EXCEPT ![kept] = freed] /\ IsMemList(g)
    BY <1>1, <1>6 DEF Sound, IsMemList
<1> HIDE DEF freed
<1>9. /\ DOMAIN blk' = DOMAIN g /\ blk'[kept] = freed /\ IsMemList(blk')
      /\ \A c \in DOMAIN g \ {kept} : blk'[c] = g[c]
    BY <1>6, <1>7, <1>8 DEF IsMemList
<1>10. \A c \in DOMAIN g : g[c].size \in Nat
    BY <1>6, FieldTypes DEF Sound
<1>11. \A c \in DOMAIN g :
          /\ blk'[c].heap = g[c].heap /\ blk'[c].size <= g[c].size
          /\ blk'[c].next = g[c].next /\ blk'[c].prev = g[c].prev
    <2>1. \A c \in DOMAIN g :
          /\ blk'[c].heap = g[c].heap /\ blk'[c].size = g[c].size
          /\ blk'[c].next = g[c].next /\ blk'[c].prev = g[c].prev
        BY <1>7, <1>9
    <2> QED BY <1>10, <2>1
<1>12. Sound(blk')
    BY <1>6, <1>9, <1>11, SoundAlike
<1>13. Held(blk') = Held(blk) \ {b}
    <2>1. Held(blk') = Held(g) \ {kept}
        BY <1>7, <1>9 DEF Held
    <2>2. \A c \in Held(g) \ {kept} : c # b
        BY <1>6 DEF Held
    <2> QED BY <1>6, <2>1, <2>2
<1>14. \A c \in Held(blk') : blk'[c].size = blk[c].size
    BY <1>6, <1>9, <1>13 DEF Held
<1> QED BY <1>12, <1>13, <1>14

-----------------------------------------------------------------------------
LEMMA MemStart == ASSUME MemInit PROVE Sound(blk)
<1> DEFINE D == {HeapStart[i] : i \in 1..HEAP_CNT}
           at(b) == CHOOSE i \in 1..HEAP_CNT : HeapStart[i] = b
           room(b) == HeapSize[at(b)] - MEM_HDR
           header(b) == [free |-> TRUE, heap |-> at(b), size |-> room(b),
                         prev |-> MemNull, next |-> MemNull]
<1>1. blk = [b \in D |-> header(b)]
    BY DEF MemInit
<1>2. \A b \in D : at(b) \in 1..HEAP_CNT /\ HeapStart[at(b)] = b
    OBVIOUS
<1>3. \A b \in D : at(b) \in Regions /\ HeapStart[at(b)] = b
    BY <1>2 DEF Regions
<1> HIDE DEF at
<1>4. ASSUME NEW b \in D
      PROVE  /\ b \in Nat \ {0} /\ MEM_HDR \in Nat /\ HeapSize[at(b)] \in Nat
             /\ room(b) \in Nat
    <2>1. /\ MEM_HDR \in Nat /\ HeapSize[at(b)] \in Nat /\ HeapSize[at(b)] > MEM_HDR
          /\ HeapStart[at(b)] \in Nat \ {0}
        BY <1>3, RegionsApart
    <2> QED BY <1>3, <2>1
<1>5. DOMAIN blk = D /\ \A b \in D : blk[b] = header(b)
    BY <1>1
<1> HIDE DEF D, room
<1>6. ASSUME NEW b \in D
      PROVE  /\ blk[b] \in Header /\ blk[b].heap = at(b) /\ blk[b].size = room(b)
             /\ blk[b].prev = MemNull /\ blk[b].next = MemNull
    <2>1. MemNull \in Nat
        BY DEF MemNull
    <2>2. at(b) \in Regions /\ room(b) \in Nat /\ blk[b] = header(b)
        BY <1>3, <1>4, <1>5
    <2> QED BY <2>1, <2>2 DEF Header
<1>7. IsMemList(blk)
    BY <1>1, <1>4, <1>5, <1>6 DEF IsMemList
<1>8. ASSUME NEW b \in D PROVE InRegion(blk, b) /\ LinkedOn(blk, b) /\ LinkedBack(blk, b)
    <2>1. EndIn(blk, b) = HeapStart[at(b)] + HeapSize[at(b)]
        BY <1>3, <1>4, <1>6 DEF EndIn, room
    <2>2. b \in Nat /\ EndIn(blk, b) \in Nat
        BY <1>5, <1>7, FieldTypes
    <2>3. InRegion(blk, b)
        BY <1>3, <1>6, <2>1, <2>2 DEF InRegion
    <2>4. \A c \in D : SameHeap(blk, b, c) => c <= b
        BY <1>3, <1>4, <1>6 DEF SameHeap
    <2>5. Follows(blk, b, MemNull)
        BY <1>5, <2>4 DEF Follows
    <2> QED BY <1>6, <2>3, <2>5 DEF LinkedOn, LinkedBack
<1> QED BY <1>5, <1>7, <1>8 DEF Sound

LEMMA MemStep == Sound(blk) /\ [MemNext]_MemVars => Sound(blk)'
<1> SUFFICES ASSUME Sound(blk), [MemNext]_MemVars PROVE Sound(blk')
    BY DEF Sound, IsMemList, InRegion, LinkedOn, LinkedBack, Follows, SameHeap, EndIn
<1>1. ASSUME NEW size \in MemRequests, malloc(size) PROVE Sound(blk')
    BY <1>1, MallocEffect
<1>2. ASSUME NEW b \in MemHeld, free(b) PROVE Sound(blk')
    BY <1>2, FreeEffect
<1>3. ASSUME UNCHANGED MemVars PROVE Sound(blk')
    BY <1>3 DEF MemVars
<1> QED BY <1>1, <1>2, <1>3 DEF MemNext, memalign, mallocFails

LEMMA MemSound == MemSpec => []Sound(blk)
<1> QED BY MemStart, MemStep, PTL DEF MemSpec

(* However often malloc cuts blocks without a header's rest and free adds  *)
(* lengths up over what was lost, every list runs upwards through its own  *)
(* region, its links agree and no block reaches into another.              *)
THEOREM MallocListsSound == MemSpec => []MemListsSound
<1>1. Sound(blk) => MemListsSound
    BY SoundIsMemListsSound
<1> QED BY <1>1, MemSound, PTL

-----------------------------------------------------------------------------
(* The heap as HeapSpec sees it. *)

LEMMA LiveBlocks ==
    ASSUME Sound(blk)
    PROVE  /\ DOMAIN MemLive = {c + MEM_HDR : c \in MemHeld}
           /\ MemLive = [q \in DOMAIN MemLive |-> MemLive[q]]
           /\ \A c \in MemHeld : c + MEM_HDR \in DOMAIN MemLive /\ MemLive[c + MEM_HDR] = blk[c].size
           /\ MemHeld = Held(blk)
<1>1. MemHeld = Held(blk)
    BY DEF MemHeld, Held
<1>2. ASSUME NEW c \in MemHeld
      PROVE  c + MEM_HDR \in DOMAIN MemLive /\ MemLive[c + MEM_HDR] = blk[c].size
    <2>1. c \in Nat /\ MEM_HDR \in Nat
        BY FieldTypes, RegionsApart DEF MemHeld, Sound
    <2>2. (c + MEM_HDR) - MEM_HDR = c
        BY <2>1
    <2> QED BY <2>2 DEF MemLive
<1> QED BY <1>1, <1>2 DEF MemLive

LEMMA LiveLater ==
    ASSUME Sound(blk')
    PROVE  /\ DOMAIN MemLive' = {c + MEM_HDR : c \in MemHeld'}
           /\ MemLive' = [q \in DOMAIN MemLive' |-> MemLive'[q]]
           /\ \A c \in MemHeld' : c + MEM_HDR \in DOMAIN MemLive' /\ MemLive'[c + MEM_HDR] = blk'[c].size
           /\ MemHeld' = Held(blk')
<1>1. MemHeld' = Held(blk')
    BY DEF MemHeld, Held
<1>2. ASSUME NEW c \in MemHeld'
      PROVE  c + MEM_HDR \in DOMAIN MemLive' /\ MemLive'[c + MEM_HDR] = blk'[c].size
    <2>1. c \in Nat /\ MEM_HDR \in Nat
        BY FieldTypes, RegionsApart DEF MemHeld, Sound
    <2>2. (c + MEM_HDR) - MEM_HDR = c
        BY <2>1
    <2> QED BY <2>2 DEF MemLive
<1> QED BY <1>1, <1>2 DEF MemLive

(* A block of any region lies inside what HeapSpec calls the heap. *)
LEMMA BlockInHeap ==
    ASSUME NEW list, Sound(list), NEW b \in DOMAIN list
    PROVE  MEM_TOP \in Nat /\ EndIn(list, b) - 1 <= MEM_TOP
<1>1. /\ list[b].heap \in Regions /\ EndIn(list, b) \in Nat
      /\ EndIn(list, b) <= HeapStart[list[b].heap] + HeapSize[list[b].heap]
    BY FieldTypes DEF Sound, InRegion
<1>2. /\ MEM_TOP \in Nat /\ HeapStart[list[b].heap] \in Nat /\ HeapSize[list[b].heap] \in Nat
      /\ HeapStart[list[b].heap] + HeapSize[list[b].heap] - 1 <= MEM_TOP
    BY <1>1, RegionsApart
<1> QED BY <1>1, <1>2

(* A block that malloc hands out is one that HeapSpec may hand out. *)
LEMMA MallocAllocs ==
    ASSUME Sound(blk), NEW size \in MemRequests, malloc(size) PROVE MemAbs!Next
<1> DEFINE top == MEM_TOP
<1>1. PICK b \in DOMAIN blk :
        /\ Sound(blk') /\ b \notin Held(blk) /\ Held(blk') = Held(blk) \cup {b}
        /\ blk'[b].size = size
        /\ \A c \in Held(blk) : blk'[c].size = blk[c].size
    BY MallocEffect
<1> DEFINE ptr == b + MEM_HDR
<1>2. /\ MemHeld' = MemHeld \cup {b} /\ b \notin MemHeld
      /\ MemHeld = Held(blk) /\ MemHeld' = Held(blk')
    BY <1>1, LiveBlocks, LiveLater
<1>3. b \in Held(blk') /\ b \in DOMAIN blk'
    BY <1>1 DEF Held
<1>4. /\ MEM_HDR \in Nat \ {0} /\ size \in Nat \ {0} /\ b \in Nat \ {0}
      /\ EndIn(blk', b) = b + MEM_HDR + size
    BY <1>1, <1>3, FieldTypes, RegionsApart, MemAssumption DEF Sound, EndIn
<1>5. top \in Nat /\ EndIn(blk', b) - 1 <= top
    BY <1>1, <1>3, BlockInHeap
<1> HIDE DEF top
<1>6. ptr \in Nat /\ ptr \in 1..top /\ size \in size..top
    BY <1>4, <1>5
<1>7. MemAbs!Units(ptr, size) \subseteq 1..top
    BY <1>4, <1>5 DEF MemAbs!Units
<1>8. ASSUME NEW c \in MemHeld
      PROVE  MemAbs!Units(ptr, size) \cap MemAbs!Units(c + MEM_HDR, blk[c].size) = {}
    <2>1. c \in DOMAIN blk' /\ c # b /\ blk'[c].size = blk[c].size
        BY <1>1, <1>2 DEF Held
    <2>2. c \in Nat /\ blk[c].size \in Nat /\ EndIn(blk', c) = c + MEM_HDR + blk[c].size
        BY <1>1, <2>1, FieldTypes DEF Sound, EndIn
    <2>3. c < b => EndIn(blk', c) <= b
        BY <1>1, <1>3, <2>1, BlocksApart
    <2>4. b < c => EndIn(blk', b) <= c
        BY <1>1, <1>3, <2>1, BlocksApart
    <2> QED BY <1>4, <2>1, <2>2, <2>3, <2>4 DEF MemAbs!Units
<1>9. \A q \in DOMAIN MemLive : MemAbs!Units(ptr, size) \cap MemAbs!Units(q, MemLive[q]) = {}
    BY <1>8, LiveBlocks
<1>10. MemLive' = [q \in DOMAIN MemLive \cup {ptr} |-> IF q = ptr THEN size ELSE MemLive[q]]
    <2>1. DOMAIN MemLive' = DOMAIN MemLive \cup {ptr}
        BY <1>1, <1>2, LiveBlocks, LiveLater
    <2>2. MemLive'[ptr] = size
        BY <1>1, <1>2, LiveLater
    <2>3. \A q \in DOMAIN MemLive : MemLive'[q] = MemLive[q]
        <3>1. ASSUME NEW c \in MemHeld PROVE MemLive'[c + MEM_HDR] = MemLive[c + MEM_HDR]
            BY <1>1, <1>2, LiveBlocks, LiveLater
        <3> QED BY <3>1, LiveBlocks
    <2>4. MemLive' = [q \in DOMAIN MemLive' |-> MemLive'[q]]
        BY <1>1, LiveLater
    <2> HIDE DEF ptr
    <2> QED BY <2>1, <2>2, <2>3, <2>4
<1>11. MemAbs!Alloc(ptr, size)
    <2> HIDE DEF ptr
    <2> QED BY <1>6, <1>7, <1>9, <1>10 DEF MemAbs!Alloc, top
<1>12. ptr \in DOMAIN MemLive' \ DOMAIN MemLive
    <2>1. ptr \in DOMAIN MemLive'
        BY <1>1, <1>2, LiveLater
    <2>2. ASSUME NEW c \in MemHeld PROVE c + MEM_HDR # ptr
        <3>1. c # b /\ c \in DOMAIN blk' /\ c \in Nat
            BY <1>1, <1>2, FieldTypes DEF Held, Sound
        <3> QED BY <1>4, <3>1
    <2> HIDE DEF ptr
    <2> QED BY <2>1, <2>2, LiveBlocks
<1> QED BY <1>11, <1>12 DEF MemAbs!Next

(* A block that free takes back is the only one its callers lose. *)
LEMMA FreeFrees ==
    ASSUME Sound(blk), NEW b \in MemHeld, free(b) PROVE MemAbs!Next
<1> DEFINE ptr == b + MEM_HDR
<1>1. /\ Sound(blk') /\ Held(blk') = Held(blk) \ {b}
      /\ \A c \in Held(blk') : blk'[c].size = blk[c].size
    BY FreeEffect
<1>2. MemHeld' = MemHeld \ {b} /\ MemHeld = Held(blk) /\ MemHeld' = Held(blk')
    BY <1>1, LiveBlocks, LiveLater
<1>3. \A c \in MemHeld : c \in Nat /\ MEM_HDR \in Nat
    BY FieldTypes, RegionsApart DEF MemHeld, Sound
<1>4. DOMAIN MemLive' = DOMAIN MemLive \ {ptr}
    <2>1. \A c \in MemHeld : c + MEM_HDR = ptr => c = b
        BY <1>3
    <2> HIDE DEF ptr
    <2>2. DOMAIN MemLive' = {c + MEM_HDR : c \in MemHeld \ {b}}
        BY <1>1, <1>2, LiveLater
    <2>3. DOMAIN MemLive = {c + MEM_HDR : c \in MemHeld}
        BY LiveBlocks
    <2> QED BY <2>1, <2>2, <2>3 DEF ptr
<1>5. ptr \in DOMAIN MemLive
    BY LiveBlocks
<1>6. \A q \in DOMAIN MemLive' : MemLive'[q] = MemLive[q]
    <2>1. ASSUME NEW c \in MemHeld' PROVE MemLive'[c + MEM_HDR] = MemLive[c + MEM_HDR]
        BY <1>1, <1>2, LiveBlocks, LiveLater
    <2> QED BY <1>1, <2>1, LiveLater
<1>7. MemLive' = [q \in DOMAIN MemLive' |-> MemLive'[q]]
    BY <1>1, LiveLater
<1> HIDE DEF ptr
<1>8. MemLive' = [q \in DOMAIN MemLive \ {ptr} |-> MemLive[q]]
    BY <1>4, <1>6, <1>7
<1> QED BY <1>5, <1>8 DEF MemAbs!Next, MemAbs!Free

(* malloc and free of the WiiVC and lite builds keep what HeapSpec promises*)
(* to their callers: a block is as long as was asked for and nobody else's *)
(* until it is freed, whatever is lost between the blocks.                 *)
THEOREM MallocImplementsHeap == MemSpec => MemImplementsHeapSpec
<1>1. MemInit => MemAbs!Init
    <2> SUFFICES ASSUME MemInit PROVE MemLive = [p \in {} |-> 0]
        BY DEF MemAbs!Init
    <2>1. Sound(blk)
        BY MemStart
    <2>2. MemHeld = {}
        BY DEF MemInit, MemHeld
    <2> QED BY <2>2 DEF MemLive
<1>2. Sound(blk) /\ [MemNext]_MemVars => [MemAbs!Next]_MemLive
    <2> SUFFICES ASSUME Sound(blk), [MemNext]_MemVars PROVE MemAbs!Next \/ MemLive' = MemLive
        OBVIOUS
    <2>1. ASSUME NEW size \in MemRequests, malloc(size) PROVE MemAbs!Next
        BY <2>1, MallocAllocs
    <2>2. ASSUME NEW b \in MemHeld, free(b) PROVE MemAbs!Next
        BY <2>2, FreeFrees
    <2>3. ASSUME UNCHANGED MemVars PROVE MemLive' = MemLive
        BY <2>3 DEF MemVars, MemLive, MemHeld
    <2> QED BY <2>1, <2>2, <2>3 DEF MemNext, memalign, mallocFails
<1> QED BY <1>1, <1>2, MemSound, PTL DEF MemSpec, MemImplementsHeapSpec, MemAbs!Spec

=============================================================================
