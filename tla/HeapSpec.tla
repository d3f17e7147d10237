------------------------------- MODULE HeapSpec -------------------------------
(***************************************************************************)
(* What a heap promises to its callers, whatever lists it keeps: a block   *)
(* it hands out lies inside the heap, is at least as long as was asked for *)
(* and shares no unit with a block that is still held; a held block stays  *)
(* where it is, and as long as it is, until its holder frees it.  The heap *)
(* may refuse any request.                                                 *)
(***************************************************************************)
EXTENDS Integers

CONSTANTS HEAP_SIZE,   \* the heap is the units 1..HEAP_SIZE
          Requests     \* the sizes, in units, that callers ask for

VARIABLE live          \* live[p] is the length of the block held at p

Units(p, length) == p .. (p + length - 1)

Init == live = [p \in {} |-> 0]

(* The block at p, of some length that serves the request, is handed out.  *)
Alloc(p, request) ==
    \E length \in request .. HEAP_SIZE :
        /\ Units(p, length) \subseteq 1..HEAP_SIZE
        /\ \A q \in DOMAIN live : Units(p, length) \cap Units(q, live[q]) = {}
        /\ live' = [q \in DOMAIN live \cup {p} |->
                        IF q = p THEN length ELSE live[q]]

Free(p) ==
    /\ p \in DOMAIN live
    /\ live' = [q \in DOMAIN live \ {p} |-> live[q]]

(* What is handed out is where nothing was held before.                    *)
Next ==
    \/ \E p \in DOMAIN live' \ DOMAIN live, request \in Requests : Alloc(p, request)
    \/ \E p \in DOMAIN live : Free(p)

Spec == Init /\ [][Next]_live

=============================================================================
