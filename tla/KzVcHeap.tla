------------------------------- MODULE KzVcHeap -------------------------------
(***************************************************************************)
(* Where the Virtual Console emulator puts recompiled code: runs of small  *)
(* or large blocks, each run inside one word of a bit map, or the system's *)
(* heap.  vc/src/cpuHeapTake.c replaces the function that takes one, so    *)
(* that kz's own code goes to the system's heap; giving one back, and what *)
(* the system's heap answers, is external.                                 *)
(***************************************************************************)
EXTENDS Integers, FiniteSets

CONSTANTS Nodes, KzNodes,      \* tree nodes; the ones of kz's pool
          CodeSizes,           \* of recompiled functions
          SM_BLK_SIZE, LG_BLK_SIZE,
          SM_WORDS, LG_WORDS,  \* words of the two bit maps
          WORD,                \* bits of a word
          SMALL                \* up to this size small blocks are tried first

ASSUME VcHeapAssumption ==
    /\ KzNodes \subseteq Nodes /\ CodeSizes \subseteq Nat \ {0}
    /\ SM_BLK_SIZE \in Nat \ {0} /\ LG_BLK_SIZE \in Nat \ {0}
    /\ SM_WORDS \in Nat /\ LG_WORDS \in Nat /\ WORD \in Nat \ {0, 1} /\ SMALL \in Nat
    /\ SMALL < SM_BLK_SIZE * (WORD - 1)

VARIABLES
    blk_status,   \* the bits set in the small and the large map
    alloc         \* what each node has: its alloc_type, first bit and length

VcHeapVars == <<blk_status, alloc>>

SmallBlocks == 1
LargeBlocks == 2
SystemHeap == 3
NoCode == [type |-> -1, pos |-> 0, cnt |-> 0]

VcHeapInit ==
    /\ blk_status = [t \in {SmallBlocks, LargeBlocks} |-> {}]
    /\ alloc = [n \in Nodes |-> NoCode]

-----------------------------------------------------------------------------
Needed(t, size) ==
    LET blk == IF t = SmallBlocks THEN SM_BLK_SIZE ELSE LG_BLK_SIZE IN (size + blk - 1) \div blk
Words(t) == IF t = SmallBlocks THEN SM_WORDS ELSE LG_WORDS

RunSlip(pos, cnt) == pos .. (pos + cnt - 2)
Run(pos, cnt) == pos .. (pos + cnt - 1)

(* The runs of free bits in one word; the last bit of a word cannot start  *)
(* one, nor can a run reach it.                                            *)
Runs(t, cnt) ==
    {pos \in {i * WORD + j : i \in 0..(Words(t) - 1), j \in 0..(WORD - cnt - 1)} :
        Run(pos, cnt) \cap blk_status[t] = {}}

(* A type to begin with, and the one to try when it has no room.  Case 1   *)
(* of the switch has no break, so that small blocks turn into large ones   *)
(* and back into small ones.                                               *)
FirstType(n, size) ==
    IF n \in KzNodes \/ alloc[n].type = SystemHeap THEN SystemHeap
    ELSE IF size <= SMALL THEN SmallBlocks ELSE LargeBlocks
SecondType(t) == SmallBlocks

(* No run is as long as a word: such requests go to the system's heap.     *)
TooLong(t, size) == Needed(t, size) > WORD - 1
Types(n, size) == <<FirstType(n, size), SecondType(FirstType(n, size))>>
HasRoom(t, size) == ~TooLong(t, size) /\ Runs(t, Needed(t, size)) # {}

TakeBlocks(n, t, size) ==
    LET cnt == Needed(t, size)
        pos == CHOOSE p \in Runs(t, cnt) : \A q \in Runs(t, cnt) : p <= q
    IN /\ blk_status' = [blk_status EXCEPT ![t] = @ \cup Run(pos, cnt)]
       /\ alloc' = [alloc EXCEPT ![n] = [type |-> t, pos |-> pos, cnt |-> cnt]]

(* xlHeapTake answers; the node is marked before. *)
TakeSystem(n) ==
    /\ \E cnt \in {0, 1} : alloc' = [alloc EXCEPT ![n] = [type |-> SystemHeap, pos |-> 0, cnt |-> cnt]]
    /\ UNCHANGED blk_status

kz_cpuHeapTake(n, size) ==
    LET first == FirstType(n, size)
        second == SecondType(first)
    IN /\ alloc[n].cnt = 0
       /\ IF first = SystemHeap \/ TooLong(first, size) THEN TakeSystem(n)
          ELSE IF HasRoom(first, size) THEN TakeBlocks(n, first, size)
          ELSE IF TooLong(second, size) THEN TakeSystem(n)
          ELSE IF HasRoom(second, size) THEN TakeBlocks(n, second, size)
          ELSE UNCHANGED <<blk_status, alloc>>

(* External: the emulator's function that gives the blocks back.           *)
cpuHeapFree(n) ==
    /\ alloc[n].cnt # 0
    /\ blk_status' = [t \in DOMAIN blk_status |->
                        IF t = alloc[n].type THEN blk_status[t] \ Run(alloc[n].pos, alloc[n].cnt)
                                             ELSE blk_status[t]]
    /\ alloc' = [alloc EXCEPT ![n] = NoCode]

VcHeapNext ==
    \E n \in Nodes : (\E size \in CodeSizes : kz_cpuHeapTake(n, size)) \/ cpuHeapFree(n)
VcHeapSpec == VcHeapInit /\ [][VcHeapNext]_VcHeapVars

-----------------------------------------------------------------------------
(* The bits set are those of the runs handed out, no bit is in two runs,   *)
(* and a run lies in one word, so that giving one back by its mask leaves  *)
(* every other function's code alone.                                      *)
RunsDisjoint ==
    \A t \in {SmallBlocks, LargeBlocks} :
        LET own == {n \in Nodes : alloc[n].type = t} 
            bits(n) == alloc[n].pos .. (alloc[n].pos + alloc[n].cnt - 1) IN
        /\ blk_status[t] = UNION {bits(n) : n \in own}
        /\ \A n, m \in own : n # m => bits(n) \cap bits(m) = {}
        /\ \A n \in own : \A b \in bits(n) : b \div WORD = alloc[n].pos \div WORD
=============================================================================
