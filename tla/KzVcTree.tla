------------------------------- MODULE KzVcTree -------------------------------
(***************************************************************************)
(* The Virtual Console emulator keeps what it has recompiled in two search *)
(* trees of functions; vc/src adds a third one for kz's own code, with a   *)
(* pool of nodes of its own, and replaces the functions that insert into,  *)
(* search and balance the trees.  The trees' other functions and their     *)
(* callers belong to the emulator and are external.                        *)
(***************************************************************************)
EXTENDS Integers, FiniteSets, Sequences

CONSTANTS Funcs,          \* functions of the game and kz: <<n64_start, n64_end>>
          KZ_LO, KZ_HI,   \* kz's code lies between them
          CODE_END,       \* the other tree is for what lies behind it
          POOL,           \* nodes of kz's pool
          DEPTH           \* a longer spine is balanced

(* Functions do not overlap, and none straddles the end of a tree's range: *)
(* the emulator's treeAdjustRoot, of which src/ has the call only, moves   *)
(* CODE_END then.  One may begin at CODE_END.                              *)
ASSUME VcTreeAssumption ==
    /\ KZ_LO \in Int /\ KZ_HI \in Int /\ CODE_END \in Int /\ POOL \in Nat \ {0}
    /\ DEPTH \in Nat /\ DEPTH >= 4
    /\ Funcs \subseteq Int \X Int
    /\ \A f, g \in Funcs : f = g \/ f[2] <= g[1] \/ g[2] <= f[1]
    /\ \A f \in Funcs : /\ f[1] < f[2]
                        /\ f[1] < CODE_END => f[2] <= CODE_END
                        /\ f[1] > KZ_LO /\ f[1] < KZ_HI => f[2] < KZ_HI
                        /\ f[1] <= KZ_LO => f[2] <= KZ_LO + 1

VARIABLES node,    \* what is in each tree node in use
          root     \* the three roots; 0 is NULL

VcTreeVars == <<node, root>>

VcTreeInit ==
    /\ node = [n \in {} |-> 0] /\ root = [code |-> 0, other |-> 0, kz |-> 0]

Left == 1
Right == 2
Opposite(side) == 3 - side

-----------------------------------------------------------------------------
(* From node n on along next, which is 0 where the way ends.               *)
Way(n, next) ==
    LET at[k \in 0..Cardinality(DOMAIN next)] ==
            IF k = 0 THEN n ELSE IF at[k - 1] = 0 THEN 0 ELSE next[at[k - 1]]
        len == CHOOSE k \in DOMAIN at : at[k] = 0 /\ \A j \in 0..(k - 1) : at[j] # 0
    IN [k \in 1..len |-> at[k - 1]]

(* kz_treeSearchNode; a search from one of the emulator's roots for an     *)
(* address of kz starts at the pool's first node instead.                  *)
SearchFrom(t, n, addr) ==
    LET Here(m) == addr >= t[m].n64_start /\ addr < t[m].n64_end
        seen == Way(n, [m \in DOMAIN t |->
                    IF Here(m) \/ addr = t[m].n64_start THEN 0
                    ELSE t[m].kid[IF addr < t[m].n64_start THEN Left ELSE Right]])
    IN IF n \in DOMAIN t /\ Here(seen[Len(seen)]) THEN seen[Len(seen)] ELSE 0

InKz(addr) == addr > KZ_LO /\ addr < KZ_HI
kz_treeSearchNode(start, addr) ==
    SearchFrom(node, IF start \in {root.code, root.other} /\ InKz(addr) THEN 1 ELSE start, addr)

(* kz_cpuTreeTake, and the emulator's pool behind it: the nodes above POOL.*)
Taken(addr) ==
    LET free == IF InKz(addr) /\ \E n \in 1..POOL : n \notin DOMAIN node
                THEN (1..POOL) \ DOMAIN node
                ELSE (POOL + 1 .. POOL + 1 + Cardinality(DOMAIN node)) \ DOMAIN node
    IN CHOOSE n \in free : \A m \in free : n <= m

(* External: treeInsertNode puts a new leaf where a search for it ends.    *)
LeafFor(n, start) ==
    LET Side(m) == IF start < node[m].n64_start THEN Left ELSE Right
        seen == Way(n, [m \in DOMAIN node |-> node[m].kid[Side(m)]])
    IN <<seen[Len(seen)], Side(seen[Len(seen)])>>

(* The chain of children on one side, the node itself first.               *)
Spine(t, n, side) == Way(n, [m \in DOMAIN t |-> t[m].kid[side]])

RehungSlip(t, start, side, mid, second, bottom) ==
    [t EXCEPT ![t[mid].parent].kid[side] = 0, ![start].kid[side] = mid,
              ![mid].parent = start, ![bottom].kid[Opposite(side)] = second]
Rehung(t, start, side, mid, second, bottom) ==
    [t EXCEPT ![t[mid].parent].kid[side] = 0, ![start].kid[side] = mid, ![mid].parent = start,
              ![bottom].kid[Opposite(side)] = second, ![second].parent = bottom]

Middle(spine) == spine[1 + (Len(spine) - 1) \div 2]
Bottom(t, n, side) == LET chain == Spine(t, n, side) IN chain[Len(chain)]

BalancedSlip(t, start, side) ==
    LET spine == Spine(t, start, side) IN
    IF start = 0 \/ Len(spine) - 1 < DEPTH THEN t
    ELSE Rehung(t, start, side, Middle(spine), spine[2], Middle(spine))
(* The middle of a long spine moves up below the root, and the first half  *)
(* of the spine down to the far end of the middle's own subtree.           *)
Balanced(t, start, side) ==
    LET spine == Spine(t, start, side)
        mid   == Middle(spine)
    IN IF start = 0 \/ Len(spine) - 1 < DEPTH THEN t
       ELSE Rehung(t, start, side, mid, spine[2], Bottom(t, mid, Opposite(side)))

kz_treeBalance(t, r) ==
    LET Both(u, start) == Balanced(Balanced(u, start, Right), start, Left)
    IN Both(Both(Both(t, r.code), r.other), r.kz)

Tree(start, end) ==
    IF start > KZ_LO /\ end < KZ_HI THEN "kz" ELSE IF start < CODE_END THEN "code" ELSE "other"

(* The nodes with a new leaf n below above, or as a root: nothing is above.*)
Grown(n, above, side, start, end) ==
    [m \in DOMAIN node \cup {n} |->
        IF m = n THEN [n64_start |-> start, n64_end |-> end,
                       kid |-> [s \in {Left, Right} |-> 0], parent |-> above]
        ELSE IF m = above THEN [node[m] EXCEPT !.kid[side] = n] ELSE node[m]]

(* A function that begins at CODE_END itself is of no tree: returns false. *)
Refused(start, end) == Tree(start, end) # "kz" /\ start = CODE_END

(* The emulator's own counts of nodes and bytes are left out.              *)
kz_treeInsert(start, end) ==
    LET tree == Tree(start, end)
        n    == Taken(start)
        at   == IF root[tree] = 0 THEN <<0, Left>> ELSE LeafFor(root[tree], start)
    IN IF Refused(start, end) THEN UNCHANGED VcTreeVars
       ELSE /\ root' = IF root[tree] = 0 THEN [root EXCEPT ![tree] = n] ELSE root
            /\ node' = kz_treeBalance(Grown(n, at[1], at[2], start, end), root')

(* External: the processor comes to an address of a function.  It looks in *)
(* the tree of the address, and has recompiled what it does not find.      *)
Lookup(addr) == kz_treeSearchNode(IF addr < CODE_END THEN root.code ELSE root.other, addr)
Execute ==
    \E f \in Funcs : /\ Lookup(f[1]) = 0
                     /\ kz_treeInsert(f[1], f[2])

VcTreeNext == Execute
VcTreeSpec == VcTreeInit /\ [][VcTreeNext]_VcTreeVars

-----------------------------------------------------------------------------
(* Every function that has a node is found at each of its addresses by the *)
(* emulator, which knows two trees, however often they have been balanced. *)
(* So no function is recompiled again while it is there; one that no tree  *)
(* takes has no node, and is recompiled each time.                         *)
RecompiledIsFound ==
    \A n \in DOMAIN node :
        \A addr \in node[n].n64_start .. (node[n].n64_end - 1) : Lookup(addr) = n

(* Whatever balancing moves, a child's parent is the node it hangs from,   *)
(* and only the three roots have none: the emulator walks up to delete.    *)
ParentsAgree ==
    \A n \in DOMAIN node :
        IF node[n].parent = 0 THEN n \in {root.code, root.other, root.kz}
        ELSE \E side \in {Left, Right} : node[node[n].parent].kid[side] = n
=============================================================================
