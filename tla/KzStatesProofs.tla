---------------------------- MODULE KzStatesProofs ----------------------------
(***************************************************************************)
(* The save states, for every number of slots and blocks, and for streams  *)
(* of every length.                                                        *)
(*                                                                         *)
(* The slots: types hold whatever fails.  Ownership and the refinement of  *)
(* SlotSpec need that nothing fails: a failed import or allocation leaves a*)
(* slot pointing at a freed block, from which anything can follow.         *)
(*                                                                         *)
(* The stream: each block is read as it was written, from where the one    *)
(* before ends, so that a load gives back the moment that was saved.       *)
(***************************************************************************)
EXTENDS KzSlots, KzState, KzLemmas, TLAPS

USE DEF Slots, Content

(* Every step keeps every variable's type, failures included. *)
LEMMA NextTypes == TypeOK /\ [Next]_vars => TypeOK'
<1> SUFFICES ASSUME TypeOK, [Next]_vars PROVE TypeOK'
    OBVIOUS
<1> running' \in BOOLEAN
    BY DEF TypeOK, Next, StopsAtNull, vars
<1> USE DEF TypeOK
<1>1. ASSUME SelectState PROVE TypeOK'
    <2>1. Previous \in 0..(STATE_MAX - 1) /\ Following \in 0..(STATE_MAX - 1)
        BY SlotsAssumption DEF Previous, Following
    <2> QED BY <1>1, <2>1 DEF SelectState, heapVars, menuVars
<1>2. ASSUME command_load_state PROVE TypeOK'
    BY <1>2 DEF command_load_state, Reads, cur, heapVars, menuVars
<1>3. ASSUME command_save_state PROVE TypeOK'
    <2>1. PICK old \in {c.name : c \in Reads(cur)}, held \in hfree(cur) :
            \E block \in halloc(held) :
              IF block = NULL
              THEN live' = held /\ UNCHANGED <<states, memory>>
              ELSE /\ live' = held \cup {block}
                   /\ memory' = [memory EXCEPT ![block] =
                                    [name |-> NewName(old), moment |-> game]]
                   /\ states' = [states EXCEPT ![state_slot] = block]
        BY <1>3 DEF command_save_state
    <2>2. old \in Names \cup {Untitled} /\ held \subseteq Blocks
        BY DEF Reads, cur, hfree
    <2>3. game \in Moments
        BY <1>3 DEF command_save_state
    <2>4. [name |-> NewName(old), moment |-> game] \in Content
        BY <2>2, <2>3 DEF NewName
    <2>5. live' \subseteq Blocks /\ memory' \in [Blocks -> Content]
            /\ states' \in [Slots -> Blocks \cup {NULL}]
        <3>1. PICK block \in halloc(held) :
                IF block = NULL
                THEN live' = held /\ UNCHANGED <<states, memory>>
                ELSE /\ live' = held \cup {block}
                     /\ memory' = [memory EXCEPT ![block] =
                                      [name |-> NewName(old), moment |-> game]]
                     /\ states' = [states EXCEPT ![state_slot] = block]
            BY <2>1
        <3>2. CASE block = NULL
            BY <3>1, <3>2, <2>2
        <3>3. CASE block # NULL
            <4>1. block \in Blocks
                BY <3>3 DEF halloc
            <4> QED BY <3>1, <3>3, <4>1, <2>2, <2>4
        <3> QED BY <3>2, <3>3
    <2> QED BY <1>3, <2>5 DEF command_save_state, menuVars
<1>4. ASSUME GamePlays PROVE TypeOK'
    BY <1>4 DEF GamePlays, heapVars, menuVars
<1>5. ASSUME CursorMoves PROVE TypeOK'
    <2>1. on_name' \in BOOLEAN
        BY <1>5 DEF CursorMoves
    <2> QED BY <1>5, <2>1 DEF CursorMoves, heapVars
<1>6. ASSUME name_onactivate PROVE TypeOK'
    BY <1>6 DEF name_onactivate, cur, heapVars
<1>7. ASSUME name_onkeyboard PROVE TypeOK'
    <2>1. PICK name \in Names : memory' = IF cur = NULL THEN memory
                                          ELSE [memory EXCEPT ![cur].name = name]
        BY <1>7 DEF name_onkeyboard
    <2>2. memory' \in [Blocks -> Content]
        <3>1. CASE cur = NULL
            BY <2>1, <3>1
        <3>2. CASE cur # NULL
            <4>1. cur \in Blocks /\ memory[cur] \in Content
                BY <3>2 DEF cur
            <4>2. [memory[cur] EXCEPT !.name = name] \in Content
                BY <4>1
            <4> QED BY <2>1, <3>2, <4>1, <4>2
        <3> QED BY <3>1, <3>2
    <2> QED BY <1>7, <2>2 DEF name_onkeyboard
<1>8. ASSUME export_state_onactivate PROVE TypeOK'
    BY <1>8 DEF export_state_onactivate, heapVars
<1>9. ASSUME do_export_state PROVE TypeOK'
    BY <1>9 DEF do_export_state, heapVars
<1>10. ASSUME import_state_onactivate PROVE TypeOK'
    BY <1>10 DEF import_state_onactivate, heapVars
<1>11. ASSUME do_import_state PROVE TypeOK'
    <2>1. live' \subseteq Blocks /\ memory' \in [Blocks -> Content]
            /\ states' \in [Slots -> Blocks \cup {NULL}]
        BY <1>11, SlotsAssumption DEF do_import_state, hfree, halloc, cur
    <2> QED BY <1>11, <2>1 DEF do_import_state
<1>12. ASSUME DialogReturns PROVE TypeOK'
    BY <1>12 DEF DialogReturns, heapVars
<1>13. ASSUME delete_state_onactivate PROVE TypeOK'
    BY <1>13 DEF delete_state_onactivate, hfree, Emptied, cur, menuVars
<1>14. ASSUME UNCHANGED vars PROVE TypeOK'
    BY <1>14 DEF vars, heapVars, menuVars
<1>15. ASSUME StopsAtNull PROVE TypeOK'
    BY <1>15 DEF StopsAtNull, heapVars, menuVars
<1> QED
    BY <1>1, <1>2, <1>3, <1>4, <1>5, <1>6, <1>7, <1>8, <1>9, <1>10, <1>11,
       <1>12, <1>13, <1>14, <1>15 DEF Next, Operations

(* kz_states_menu.c and commands.c keep the slots' variables typed: the    *)
(* slot number in range, every slot a block or NULL.                       *)
THEOREM SlotTypes == Spec => []TypeOK
<1>1. Init => TypeOK
    <2>1. 0 \in 0..(STATE_MAX - 1)
        BY SlotsAssumption
    <2> QED BY <2>1 DEF Init, TypeOK
<1> QED BY <1>1, NextTypes, PTL DEF Spec

-----------------------------------------------------------------------------
(* Ownership                                                               *)

SlotsInv == TypeOK /\ SlotsOwnBlocks

(* To free the selected slot's block takes just its block, if it has one,  *)
(* out of the live ones.                                                   *)
LEMMA FreesItsBlock == SlotsInv => hfree(cur) = {live \ {cur}}
<1> SUFFICES ASSUME SlotsInv PROVE hfree(cur) = {live \ {cur}}
    OBVIOUS
<1>1. cur = NULL => NULL \notin live
    BY SlotsAssumption DEF SlotsInv, TypeOK
<1>2. cur # NULL => cur \in live
    BY DEF SlotsInv, TypeOK, SlotsOwnBlocks, cur
<1> QED BY <1>1, <1>2 DEF hfree

(* A block that no other slot has, put in place of the selected slot's     *)
(* block, is owned as the old one was; nothing but this slot's content     *)
(* changes.                                                                *)
LEMMA ReplacedBlock ==
    ASSUME SlotsInv,
           NEW b \in Blocks \ (live \ {cur}), NEW content \in Content,
           live' = (live \ {cur}) \cup {b},
           states' = [states EXCEPT ![state_slot] = b],
           memory' = [memory EXCEPT ![b] = content],
           state_slot' = state_slot
    PROVE  SlotsOwnBlocks' /\ saved' = [saved EXCEPT ![state_slot] = content]
<1> USE DEF SlotsInv, TypeOK, SlotsOwnBlocks
<1>1. \A s \in Slots \ {state_slot} :
          /\ states'[s] = states[s] /\ states[s] # b
          /\ states[s] # NULL => states[s] # cur
    <2> TAKE s \in Slots \ {state_slot}
    <2>1. states'[s] = states[s]
        OBVIOUS
    <2>2. states[s] # NULL => states[s] # cur /\ states[s] \in live
        BY DEF cur
    <2>3. b # NULL
        BY SlotsAssumption
    <2> QED BY <2>1, <2>2, <2>3
<1>2. states'[state_slot] = b /\ b # NULL
    BY SlotsAssumption
<1>3. live' = {states'[s] : s \in Slots} \ {NULL}
    <2>1. \A x \in live' : \E s \in Slots : x = states'[s]
        BY <1>1, <1>2 DEF cur
    <2>2. \A s \in Slots : states'[s] # NULL => states'[s] \in live'
        BY <1>1, <1>2
    <2>3. NULL \notin live'
        BY <1>2, SlotsAssumption
    <2> QED BY ONLY <2>1, <2>2, <2>3
<1>4. \A s, t \in Slots : states'[s] = states'[t] /\ states'[s] # NULL => s = t
    BY <1>1, <1>2
<1>5. \A s \in Slots : (IF states'[s] = NULL THEN Empty ELSE memory'[states'[s]])
                         = [saved EXCEPT ![state_slot] = content][s]
    <2> TAKE s \in Slots
    <2>1. CASE s = state_slot
        BY <2>1, <1>2 DEF saved
    <2>2. CASE s # state_slot
        BY <2>2, <1>1 DEF saved
    <2> QED BY <2>1, <2>2
<1> QED BY <1>3, <1>4, <1>5 DEF saved

(* The selected slot emptied. *)
LEMMA EmptiedSlot ==
    ASSUME SlotsInv, live' = live \ {cur}, states' = Emptied,
           memory' = memory, state_slot' = state_slot
    PROVE  SlotsOwnBlocks' /\ saved' = [saved EXCEPT ![state_slot] = Empty]
<1> USE DEF SlotsInv, TypeOK, SlotsOwnBlocks
<1>1. /\ states'[state_slot] = NULL
      /\ \A s \in Slots \ {state_slot} :
            states'[s] = states[s] /\ (states[s] # NULL => states[s] # cur)
    BY DEF cur, Emptied
<1>2. live' = {states'[s] : s \in Slots} \ {NULL}
    <2>1. \A x \in live' : x # NULL /\ \E s \in Slots : x = states'[s]
        BY <1>1 DEF cur
    <2>2. \A s \in Slots : states'[s] # NULL => states'[s] \in live'
        BY <1>1 DEF cur
    <2> QED BY <2>1, <2>2
<1>3. \A s, t \in Slots : states'[s] = states'[t] /\ states'[s] # NULL => s = t
    BY <1>1
<1>4. \A s \in Slots : (IF states'[s] = NULL THEN Empty ELSE memory[states'[s]])
                         = [saved EXCEPT ![state_slot] = Empty][s]
    BY <1>1 DEF saved
<1> QED BY <1>2, <1>3, <1>4 DEF saved

-----------------------------------------------------------------------------
(* What the operations that touch a block do to ownership and to the bank. *)

LEMMA SaveEffect ==
    ASSUME SlotsInv, Failures = {}, command_save_state
    PROVE  SlotsOwnBlocks' /\ Bank!Save
<1> USE DEF SlotsInv, TypeOK
<1>1. PICK old \in {c.name : c \in Reads(cur)}, held \in hfree(cur) :
        \E block \in halloc(held) :
          IF block = NULL
          THEN live' = held /\ UNCHANGED <<states, memory>>
          ELSE /\ live' = held \cup {block}
               /\ memory' = [memory EXCEPT ![block] =
                                [name |-> NewName(old), moment |-> game]]
               /\ states' = [states EXCEPT ![state_slot] = block]
    BY DEF command_save_state
<1>2. held = live \ {cur}
    BY <1>1, FreesItsBlock
<1>3. PICK block \in Blocks \ held :
          /\ live' = held \cup {block}
          /\ memory' = [memory EXCEPT ![block] =
                           [name |-> NewName(old), moment |-> game]]
          /\ states' = [states EXCEPT ![state_slot] = block]
    BY <1>1, SlotsAssumption DEF halloc
<1> DEFINE content == [name |-> NewName(old), moment |-> game]
<1>4. game \in Moments /\ game # Title /\ state_slot' = state_slot /\ game' = game
    BY DEF command_save_state
<1>5. cur # NULL => cur \in live /\ cur \in Blocks
    BY DEF SlotsOwnBlocks, cur
<1>6. cur # NULL => old = memory[cur].name
    BY <1>1, <1>5 DEF Reads
<1>7. cur # NULL => memory[cur] \in Content
    BY <1>5
<1>8. NewName(old) = IF saved[state_slot] = Empty THEN Untitled ELSE saved[state_slot].name
    BY <1>6, <1>7, SlotsAssumption DEF NewName, saved, cur
<1>9. content \in Content
    BY <1>4, <1>6, <1>7 DEF NewName
<1> HIDE DEF content
<1>10. SlotsOwnBlocks' /\ saved' = [saved EXCEPT ![state_slot] = content]
    <2>1. block \in Blocks \ (live \ {cur}) /\ live' = (live \ {cur}) \cup {block}
        BY <1>2, <1>3
    <2>2. memory' = [memory EXCEPT ![block] = content]
        BY <1>3 DEF content
    <2> QED BY <2>1, <2>2, <1>3, <1>4, <1>9, ReplacedBlock
<1> QED BY <1>4, <1>8, <1>10 DEF Bank!Save, Bank!Put, content

LEMMA ImportEffect ==
    ASSUME SlotsInv, Failures = {}, do_import_state
    PROVE  SlotsOwnBlocks' /\ Bank!Import
<1> USE DEF SlotsInv, TypeOK
<1>1. PICK block \in Blocks \ (live \ {cur}), content \in Files :
          /\ live' = (live \ {cur}) \cup {block}
          /\ memory' = [memory EXCEPT ![block] = content]
          /\ states' = [states EXCEPT ![state_slot] = block]
    <2>1. hfree(cur) = {live \ {cur}}
        BY FreesItsBlock
    <2>2. halloc(live \ {cur}) = Blocks \ (live \ {cur}) /\ NULL \notin Blocks
        BY SlotsAssumption DEF halloc
    <2> QED BY <2>1, <2>2 DEF do_import_state
<1>2. content \in Content /\ state_slot' = state_slot /\ game' = game
    BY SlotsAssumption DEF do_import_state
<1>3. SlotsOwnBlocks' /\ saved' = [saved EXCEPT ![state_slot] = content]
    BY <1>1, <1>2, ReplacedBlock
<1> QED BY <1>2, <1>3 DEF Bank!Import, Bank!Put

LEMMA DeleteEffect ==
    ASSUME SlotsInv, delete_state_onactivate
    PROVE  SlotsOwnBlocks' /\ Bank!Clear
<1>1. live' = live \ {cur}
    BY FreesItsBlock DEF delete_state_onactivate
<1>2. /\ states' = Emptied /\ memory' = memory
      /\ state_slot' = state_slot /\ game' = game
    BY DEF delete_state_onactivate
<1>3. SlotsOwnBlocks' /\ saved' = [saved EXCEPT ![state_slot] = Empty]
    BY <1>1, <1>2, EmptiedSlot
<1> QED BY <1>2, <1>3 DEF Bank!Clear, Bank!Put

(* A name accepted with no block to give it to goes nowhere. *)
LEMMA RenameEffect ==
    ASSUME SlotsInv, name_onkeyboard
    PROVE  SlotsOwnBlocks' /\ (Bank!Rename \/ UNCHANGED <<state_slot, saved, game>>)
<1> USE DEF SlotsInv, TypeOK
<1>1. PICK name \in Names : memory' = IF cur = NULL THEN memory
                                      ELSE [memory EXCEPT ![cur].name = name]
    BY DEF name_onkeyboard
<1>2. state_slot' = state_slot /\ states' = states /\ live' = live /\ game' = game
    BY DEF name_onkeyboard
<1>3. SlotsOwnBlocks'
    BY <1>2 DEF SlotsOwnBlocks
<1>4. CASE cur = NULL
    BY <1>1, <1>2, <1>3, <1>4 DEF saved
<1>5. CASE cur # NULL
    <2> DEFINE content == [memory[cur] EXCEPT !.name = name]
    <2>1. cur \in Blocks /\ memory[cur] \in Content
        BY <1>5 DEF cur
    <2>2. memory' = [memory EXCEPT ![cur] = content]
        BY <1>1, <1>5
    <2>3. saved[state_slot] = memory[cur] /\ saved[state_slot] # Empty
        BY <1>5, <2>1, SlotsAssumption DEF saved, cur
    <2> HIDE DEF content
    <2>4. \A s \in Slots : (IF states[s] = NULL THEN Empty ELSE memory'[states[s]])
                             = [saved EXCEPT ![state_slot] = content][s]
        <3> TAKE s \in Slots
        <3>1. CASE s = state_slot
            BY <3>1, <1>5, <2>1, <2>2 DEF saved, cur
        <3>2. CASE s # state_slot
            <4>1. states[s] # NULL => states[s] # cur
                BY <3>2 DEF SlotsOwnBlocks, cur
            <4> QED BY <3>2, <4>1, <2>2 DEF saved
        <3> QED BY <3>1, <3>2
    <2>5. saved' = [saved EXCEPT ![state_slot] = content]
        BY <2>4, <1>2 DEF saved
    <2> QED BY <1>2, <1>3, <2>3, <2>5 DEF Bank!Rename, Bank!Put, content
<1> QED BY <1>4, <1>5

LEMMA LoadEffect ==
    ASSUME SlotsInv, command_load_state
    PROVE  SlotsOwnBlocks' /\ Bank!Load
<1> USE DEF SlotsInv, TypeOK
<1>1. cur \in live /\ cur # NULL /\ cur \in Blocks
    BY DEF command_load_state, SlotsOwnBlocks, cur
<1>2. saved[state_slot] = memory[cur] /\ saved[state_slot] # Empty
    BY <1>1, SlotsAssumption DEF saved, cur
<1>3. game # Title /\ game' = memory[cur].moment
    BY <1>1 DEF command_load_state, Reads
<1>4. UNCHANGED <<state_slot, states, live, memory>>
    BY DEF command_load_state, heapVars
<1> QED BY <1>2, <1>3, <1>4 DEF SlotsOwnBlocks, saved, Bank!Load

-----------------------------------------------------------------------------
(* Every step keeps ownership and is a step of the bank, or none. *)
LEMMA NextRefines ==
    ASSUME SlotsInv, Failures = {}, [Next]_vars
    PROVE  SlotsOwnBlocks' /\ [Bank!Next]_<<state_slot, saved, game>>
<1> DEFINE quiet == UNCHANGED <<state_slot, saved, game>>
<1>1. ASSUME UNCHANGED <<states, live, memory>>
      PROVE  SlotsOwnBlocks' /\ saved' = saved
    BY <1>1, SlotsInv DEF SlotsInv, SlotsOwnBlocks, saved
<1>2. ASSUME SelectState PROVE SlotsOwnBlocks' /\ Bank!Select
    <2>1. SlotsOwnBlocks' /\ saved' = saved
        BY <1>1, <1>2 DEF SelectState, heapVars
    <2> QED BY <1>2, <2>1 DEF SelectState, Previous, Following, Bank!Select
<1>3. ASSUME GamePlays PROVE SlotsOwnBlocks' /\ Bank!Play
    <2>1. SlotsOwnBlocks' /\ saved' = saved
        BY <1>1, <1>3 DEF GamePlays, heapVars
    <2> QED BY <1>3, <2>1 DEF GamePlays, Bank!Play
<1>4. ASSUME \/ CursorMoves \/ name_onactivate \/ export_state_onactivate
             \/ do_export_state \/ import_state_onactivate \/ DialogReturns
             \/ StopsAtNull \/ UNCHANGED vars
      PROVE  SlotsOwnBlocks' /\ quiet
    <2>1. UNCHANGED <<states, live, memory, state_slot, game>>
        BY <1>4 DEF CursorMoves, name_onactivate, export_state_onactivate,
           do_export_state, import_state_onactivate, DialogReturns, StopsAtNull, vars, heapVars
    <2> QED BY <1>1, <2>1
<1> QED BY <1>2, <1>3, <1>4, SaveEffect, ImportEffect, DeleteEffect, RenameEffect,
           LoadEffect DEF Next, Operations, Bank!Next

LEMMA InitOwns == Init => SlotsInv /\ Bank!Init
<1> SUFFICES ASSUME Init PROVE SlotsInv /\ Bank!Init
    OBVIOUS
<1>1. 0 \in 0..(STATE_MAX - 1)
    BY SlotsAssumption
<1> QED BY <1>1 DEF Init, SlotsInv, TypeOK, SlotsOwnBlocks, saved, Bank!Init, Bank!Slots

LEMMA SlotsInvariant == ASSUME Failures = {} PROVE Spec => []SlotsInv
<1>1. SlotsInv /\ [Next]_vars => SlotsInv'
    BY NextTypes, NextRefines DEF SlotsInv
<1> QED BY <1>1, InitOwns, PTL DEF Spec

(* commands.c and kz_states_menu.c: when neither an allocation nor an      *)
(* import fails, no block is leaked, freed twice or shared by two slots.   *)
THEOREM SlotsOwn == ASSUME Failures = {} PROVE Spec => []SlotsOwnBlocks
<1>1. SlotsInv => SlotsOwnBlocks
    BY DEF SlotsInv
<1> QED BY <1>1, SlotsInvariant, PTL

(* The same handlers, through pointers, blocks and late callbacks, are to a*)
(* player the bank of named states of SlotSpec.                            *)
THEOREM SlotsImplementSpec == ASSUME Failures = {} PROVE Spec => ImplementsSlotSpec
<1>1. SlotsInv /\ [Next]_vars => [Bank!Next]_<<state_slot, saved, game>>
    BY NextRefines
<1> QED BY <1>1, InitOwns, SlotsInvariant, PTL DEF Spec, ImplementsSlotSpec, Bank!Spec

-----------------------------------------------------------------------------
(* The stream.                                                             *)

(* The stream s has the words w from place p on. *)
Holds(s, p, w) ==
    /\ s \in Seq(Int) /\ p \in Nat \ {0} /\ w \in Seq(Int)
    /\ \A k \in 1..Len(w) : p + k - 1 \in 1..Len(s) /\ s[p + k - 1] = w[k]

(* Word by word.                                                          *)
LEMMA HeldAt ==
    ASSUME NEW s, NEW p, NEW w, Holds(s, p, w), NEW k \in 0..(Len(w) - 1)
    PROVE  At(s, p + k) = w[k + 1]
<1>1. Len(w) \in Nat /\ p \in Nat /\ DOMAIN s = 1..Len(s)
    BY LenProperties DEF Holds
<1>2. k + 1 \in 1..Len(w) /\ p + (k + 1) - 1 = p + k
    BY <1>1
<1>3. p + k \in 1..Len(s) /\ s[p + k] = w[k + 1]
    BY <1>2 DEF Holds
<1> QED BY <1>1, <1>3 DEF At

(* What holds two parts holds each of them in its place. *)
LEMMA HoldsBoth ==
    ASSUME NEW s, NEW p, NEW u \in Seq(Int), NEW v \in Seq(Int), Holds(s, p, u \o v)
    PROVE  /\ Len(u) \in Nat /\ Len(v) \in Nat
           /\ Holds(s, p, u) /\ Holds(s, p + Len(u), v)
<1>1. Len(u) \in Nat /\ Len(v) \in Nat
    BY LenProperties
<1>2. /\ Len(u \o v) = Len(u) + Len(v)
      /\ \A i \in 1..(Len(u) + Len(v)) : (u \o v)[i] = IF i <= Len(u) THEN u[i] ELSE v[i - Len(u)]
    BY ConcatProperties
<1>3. /\ s \in Seq(Int) /\ p \in Nat \ {0}
      /\ \A k \in 1..(Len(u) + Len(v)) : p + k - 1 \in 1..Len(s) /\ s[p + k - 1] = (u \o v)[k]
    BY <1>2 DEF Holds
<1>4. ASSUME NEW k \in 1..Len(u) PROVE p + k - 1 \in 1..Len(s) /\ s[p + k - 1] = u[k]
    <2>1. k \in 1..(Len(u) + Len(v)) /\ k <= Len(u)
        BY <1>1
    <2> QED BY <1>2, <1>3, <2>1
<1>5. ASSUME NEW k \in 1..Len(v)
      PROVE  p + Len(u) + k - 1 \in 1..Len(s) /\ s[p + Len(u) + k - 1] = v[k]
    <2> DEFINE j == Len(u) + k
    <2>1. j \in 1..(Len(u) + Len(v)) /\ ~(j <= Len(u)) /\ j - Len(u) = k /\ p + j - 1 = p + Len(u) + k - 1
        BY <1>1, <1>3
    <2> HIDE DEF j
    <2> QED BY <1>2, <1>3, <2>1
<1>6. p + Len(u) \in Nat \ {0}
    BY <1>1, <1>3
<1> QED BY <1>1, <1>2, <1>3, <1>4, <1>5, <1>6 DEF Holds

(* The parts w are one behind the other, each but the first at a place of q*)
(* that the one before ends at.                                            *)
Placed(s, p, w, q) ==
    /\ q \in [0..Len(w) -> Nat \ {0}] /\ q[0] = p /\ q[Len(w)] = p + Len(FlattenSeq(w))
    /\ \A k \in 1..Len(w) : q[k] = q[k - 1] + Len(w[k]) /\ Holds(s, q[k - 1], w[k])

(* What holds many parts holds each of them. *)
LEMMA HoldsEach ==
    ASSUME NEW s, NEW p, NEW w \in Seq(Seq(Int)), Holds(s, p, FlattenSeq(w))
    PROVE  \E q : Placed(s, p, w, q)
<1> DEFINE n == Len(w)
<1>1. n \in Nat /\ \A k \in 1..n : w[k] \in Seq(Int)
    BY LenProperties
<1>2. PICK f \in [0..n -> Seq(Int)] :
         /\ f[0] = <<>> /\ FlattenSeq(w) = f[n]
         /\ \A k \in 1..n : f[k] = f[k - 1] \o w[k]
    BY FlattenStepwise
<1> HIDE DEF n
<1> DEFINE others == {k \in 0..n : ~Holds(s, p, f[n - k])}
<1>3. others = {}
    <2> SUFFICES ASSUME others # {} PROVE FALSE
        OBVIOUS
    <2>1. PICK m \in others : \A k \in others : m <= k
        <3>1. others \in SUBSET Nat
            BY <1>1
        <3> HIDE DEF others
        <3> QED BY <3>1, LeastNatural
    <2>2. m # 0
        BY <1>1, <1>2, <2>1
    <2> DEFINE k == n - (m - 1)
    <2>3. m \in 0..n /\ m - 1 \in 0..n /\ ~(m <= m - 1) /\ k \in 1..n /\ k - 1 = n - m /\ k - 1 \in 0..n
        BY <1>1, <2>1, <2>2
    <2>4. Holds(s, p, f[k])
        BY <2>1, <2>3
    <2>5. ~Holds(s, p, f[k - 1])
        BY <2>1, <2>3
    <2> HIDE DEF k
    <2>6. f[k] = f[k - 1] \o w[k] /\ f[k - 1] \in Seq(Int) /\ w[k] \in Seq(Int)
        BY <1>1, <1>2, <2>3
    <2>7. Holds(s, p, f[k - 1] \o w[k])
        BY <2>4, <2>6
    <2> QED BY <2>5, <2>6, <2>7, HoldsBoth
<1>4. ASSUME NEW k \in 0..n PROVE Holds(s, p, f[k]) /\ Len(f[k]) \in Nat
    <2>1. n - k \in 0..n /\ n - (n - k) = k
        BY <1>1
    <2>2. Holds(s, p, f[k])
        BY <1>3, <2>1
    <2> QED BY <1>2, <2>2, LenProperties
<1> HIDE DEF others
<1> DEFINE q == [k \in 0..n |-> p + Len(f[k])]
<1>5. p \in Nat \ {0}
    BY DEF Holds
<1>6. q \in [0..n -> Nat \ {0}]
    BY <1>4, <1>5
<1>7. q[0] = p /\ q[n] = p + Len(FlattenSeq(w))
    <2>1. 0 \in 0..n /\ n \in 0..n /\ Len(f[0]) = 0
        BY <1>1, <1>2
    <2> QED BY <1>2, <1>5, <2>1
<1>8. ASSUME NEW k \in 1..n PROVE q[k] = q[k - 1] + Len(w[k]) /\ Holds(s, q[k - 1], w[k])
    <2>1. k \in 0..n /\ k - 1 \in 0..n
        BY <1>1
    <2>2. Holds(s, p, f[k]) /\ f[k] = f[k - 1] \o w[k] /\ f[k - 1] \in Seq(Int) /\ w[k] \in Seq(Int)
        BY <1>1, <1>2, <1>4, <2>1
    <2>3. /\ Len(f[k]) = Len(f[k - 1]) + Len(w[k]) /\ Len(f[k - 1]) \in Nat /\ Len(w[k]) \in Nat
          /\ Holds(s, p + Len(f[k - 1]), w[k])
        <3>1. Holds(s, p, f[k - 1] \o w[k])
            BY <2>2
        <3>2. /\ Len(f[k - 1]) \in Nat /\ Len(w[k]) \in Nat
              /\ Holds(s, p + Len(f[k - 1]), w[k])
            BY <2>2, <3>1, HoldsBoth
        <3>3. Len(f[k]) = Len(f[k - 1]) + Len(w[k])
            BY <2>2, ConcatProperties
        <3> QED BY <3>2, <3>3
    <2>4. q[k] = p + Len(f[k]) /\ q[k - 1] = p + Len(f[k - 1])
        BY <2>1
    <2> HIDE DEF q
    <2>5. Holds(s, q[k - 1], w[k])
        BY <2>3, <2>4
    <2>6. q[k] = q[k - 1] + Len(w[k])
        <3> DEFINE a == Len(f[k - 1])
                   b == Len(w[k])
        <3>1. a \in Nat /\ b \in Nat /\ Len(f[k]) = a + b
            BY <2>3
        <3>2. q[k] = p + Len(f[k]) /\ q[k - 1] = p + a
            BY <2>4
        <3> HIDE DEF a, b
        <3>3. q[k] = q[k - 1] + b
            BY <1>5, <3>1, <3>2
        <3> QED BY <3>3 DEF b
    <2> QED BY <2>5, <2>6
<1> HIDE DEF q
<1> QED BY <1>6, <1>7, <1>8 DEF n, Placed

-----------------------------------------------------------------------------
(* Tables of which only the places in use are written.                     *)

(* What the reader finds is a number, past the end too.                    *)
LEMMA WordType ==
    ASSUME NEW s \in Seq(Int), NEW p
    PROVE  At(s, p) \in Int
BY DEF At

(* A table is read: each place's entry, up to its end. *)
TableRead(s, p, n, width, entries) ==
    LET r == ReadSparse(s, p, n, width) IN
    /\ r.p = p + Len(Sparse(entries))
    /\ \A i \in 1..n, k \in 0..(width - 1) :
          Entry(s, r.at[i], k) = IF entries[i] = <<>> THEN Nothing ELSE entries[i][k + 1]

(* A table is read as it was written. *)
LEMMA SparseRead ==
    ASSUME NEW s, NEW p, NEW n \in Nat, NEW width \in Nat \ {0}, NEW entries \in Seq(Seq(Int)),
           Len(entries) = n, \A i \in 1..n : entries[i] = <<>> \/ Len(entries[i]) = width,
           Holds(s, p, Sparse(entries))
    PROVE  TableRead(s, p, n, width, entries)
<1> DEFINE word(i) == IF entries[i] = <<>> THEN <<>> ELSE <<i>> \o entries[i]
           w == [i \in DOMAIN entries |-> word(i)]
           Recurs(f) == f = [i \in 0..n |->
                IF i = 0 THEN p ELSE IF At(s, f[i - 1]) = i THEN f[i - 1] + 1 + width ELSE f[i - 1]]
           after == CHOOSE f : Recurs(f)
           r == ReadSparse(s, p, n, width)
<1> HIDE DEF Recurs, after, r
<1>1. DOMAIN entries = 1..n /\ \A i \in 1..n : entries[i] \in Seq(Int)
    BY LenProperties
<1>2. ASSUME NEW i \in 1..n
      PROVE  /\ word(i) \in Seq(Int)
             /\ entries[i] = <<>> => Len(word(i)) = 0
             /\ entries[i] # <<>> => Len(word(i)) = 1 + width /\ word(i) = <<i>> \o entries[i]
    <2>1. <<i>> \in Seq(Int) /\ Len(<<i>>) = 1 /\ <<>> \in Seq(Int) /\ Len(<<>>) = 0
        OBVIOUS
    <2>2. entries[i] \in Seq(Int) /\ (entries[i] = <<>> \/ Len(entries[i]) = width)
        BY <1>1
    <2>3. <<i>> \o entries[i] \in Seq(Int) /\ Len(<<i>> \o entries[i]) = 1 + Len(entries[i])
        BY <2>1, <2>2, ConcatProperties
    <2> QED BY <2>1, <2>2, <2>3
<1> HIDE DEF word
<1>3. w \in Seq(Seq(Int)) /\ Len(w) = n /\ \A i \in 1..n : w[i] = word(i)
    <2>1. w = [i \in 1..n |-> word(i)]
        BY <1>1
    <2> HIDE DEF w
    <2>2. w \in [1..n -> Seq(Int)]
        BY <1>2, <2>1
    <2> QED BY <2>1, <2>2, FunctionIsSequence
<1>4. Sparse(entries) = FlattenSeq(w) \o <<End>>
    BY DEF Sparse, word
<1> HIDE DEF w
<1>5. /\ Holds(s, p, FlattenSeq(w)) /\ Holds(s, p + Len(FlattenSeq(w)), <<End>>)
      /\ Len(Sparse(entries)) = Len(FlattenSeq(w)) + 1 /\ Len(FlattenSeq(w)) \in Nat
    <2>1. PICK f \in [0..Len(w) -> Seq(Int)] : FlattenSeq(w) = f[Len(w)]
        BY <1>3, FlattenStepwise
    <2>2. FlattenSeq(w) \in Seq(Int) /\ <<End>> \in Seq(Int) /\ Len(<<End>>) = 1
        BY <1>3, <2>1 DEF End
    <2>3. Len(FlattenSeq(w) \o <<End>>) = Len(FlattenSeq(w)) + 1
        BY <2>2, ConcatProperties
    <2>4. Holds(s, p, FlattenSeq(w) \o <<End>>)
        BY <1>4
    <2> QED BY <1>4, <2>2, <2>3, <2>4, HoldsBoth
<1>6. PICK q \in [0..n -> Nat \ {0}] :
         /\ q[0] = p /\ q[n] = p + Len(FlattenSeq(w))
         /\ \A i \in 1..n : q[i] = q[i - 1] + Len(w[i]) /\ Holds(s, q[i - 1], w[i])
    <2>1. PICK q : Placed(s, p, w, q)
        BY <1>3, <1>5, HoldsEach
    <2> QED BY <1>3, <2>1 DEF Placed
<1>6a. ASSUME NEW i \in 1..n
       PROVE  /\ i - 1 \in 0..n /\ i \in 0..n /\ q[i - 1] \in Nat \ {0}
              /\ q[i] = q[i - 1] + Len(word(i)) /\ Holds(s, q[i - 1], word(i))
    <2>1. i - 1 \in 0..n /\ i \in 0..n
        OBVIOUS
    <2> QED BY <1>3, <1>6, <2>1
<1>7. ASSUME NEW i \in 1..n, entries[i] = <<>> PROVE q[i] = q[i - 1]
    <2>1. q[i] = q[i - 1] + 0 /\ q[i - 1] \in Nat
        BY <1>2, <1>6a, <1>7
    <2> QED BY <2>1
<1>8. ASSUME NEW i \in 1..n, entries[i] # <<>>
      PROVE  /\ q[i] = q[i - 1] + 1 + width /\ At(s, q[i - 1]) = i
             /\ Holds(s, q[i - 1] + 1, entries[i])
    <2>1. /\ Holds(s, q[i - 1], <<i>> \o entries[i]) /\ q[i] = q[i - 1] + (1 + width)
          /\ q[i - 1] \in Nat \ {0} /\ entries[i] \in Seq(Int)
        BY <1>1, <1>2, <1>6a, <1>8
    <2>2. <<i>> \in Seq(Int) /\ Len(<<i>>) = 1 /\ <<i>>[1] = i
        OBVIOUS
    <2>3. Holds(s, q[i - 1], <<i>>) /\ Holds(s, q[i - 1] + Len(<<i>>), entries[i])
        BY <2>1, <2>2, HoldsBoth
    <2>4. At(s, q[i - 1] + 0) = <<i>>[0 + 1]
        <3>1. 0 \in 0..(Len(<<i>>) - 1)
            BY <2>2
        <3> QED BY <2>3, <3>1, HeldAt
    <2>5. At(s, q[i - 1]) = i
        BY <2>1, <2>2, <2>4
    <2>6. Holds(s, q[i - 1] + 1, entries[i])
        BY <2>2, <2>3
    <2>7. q[i] = q[i - 1] + 1 + width
        <3>1. q[i] = q[i - 1] + (1 + width) /\ q[i - 1] \in Nat
            BY <2>1
        <3> QED BY <3>1
    <2> QED BY <2>5, <2>6, <2>7
<1>9. \A i \in 0..n : At(s, q[i]) = End \/ At(s, q[i]) > i
    <2> DEFINE others == {j \in 0..n : ~(At(s, q[n - j]) = End \/ At(s, q[n - j]) > n - j)}
    <2>1. others = {}
        <3> SUFFICES ASSUME others # {} PROVE FALSE
            OBVIOUS
        <3>1. PICK m \in others : \A j \in others : m <= j
            <4>1. others \in SUBSET Nat
                OBVIOUS
            <4> HIDE DEF others
            <4> QED BY <4>1, LeastNatural
        <3> DEFINE i == n - m + 1
        <3>2. m # 0
            <4>1. At(s, q[n] + 0) = <<End>>[0 + 1]
                <5>1. 0 \in 0..(Len(<<End>>) - 1)
                    OBVIOUS
                <5>2. Holds(s, q[n], <<End>>)
                    BY <1>5, <1>6
                <5> QED BY <5>1, <5>2, HeldAt
            <4>2. q[n] \in Nat /\ <<End>>[0 + 1] = End
                BY <1>6
            <4>3. At(s, q[n - 0]) = End
                BY <4>1, <4>2
            <4> QED BY <3>1, <4>3
        <3>3. m \in 0..n /\ m - 1 \in 0..n /\ ~(m <= m - 1) /\ i \in 1..n /\ i - 1 = n - m /\ n - (m - 1) = i
            BY <3>1, <3>2
        <3>4. At(s, q[i]) = End \/ At(s, q[i]) > i
            BY <3>1, <3>3
        <3>5. ~(At(s, q[i - 1]) = End \/ At(s, q[i - 1]) > i - 1)
            BY <3>1, <3>3
        <3> HIDE DEF i
        <3>6. CASE entries[i] = <<>>
            <4>1. q[i - 1] = q[i]
                BY <1>7, <3>3, <3>6
            <4> HIDE DEF others
            <4>2. CASE At(s, q[i]) = End
                BY <3>5, <4>1, <4>2
            <4>3. CASE At(s, q[i]) > i
                <5>1. At(s, q[i]) \in Int /\ At(s, q[i - 1]) = At(s, q[i])
                    BY <4>1, WordType DEF Holds
                <5> QED BY <3>3, <3>5, <4>3, <5>1
            <4> QED BY <3>4, <4>2, <4>3
        <3>7. CASE entries[i] # <<>>
            BY <1>8, <3>3, <3>5, <3>7
        <3> QED BY <3>6, <3>7
    <2> SUFFICES ASSUME NEW i \in 0..n PROVE At(s, q[i]) = End \/ At(s, q[i]) > i
        OBVIOUS
    <2>2. n - i \in 0..n /\ n - (n - i) = i
        OBVIOUS
    <2> QED BY <2>1, <2>2
<1>10. ASSUME NEW i \in 1..n PROVE At(s, q[i - 1]) = i <=> entries[i] # <<>>
    <2>1. CASE entries[i] = <<>>
        <3>1. i \in 0..n /\ q[i] = q[i - 1]
            BY <1>7, <2>1
        <3>2. At(s, q[i]) = End \/ At(s, q[i]) > i
            BY <1>9, <3>1
        <3>3. At(s, q[i]) # i
            BY <3>2 DEF End
        <3> QED BY <2>1, <3>1, <3>3
    <2>2. CASE entries[i] # <<>>
        BY <1>8, <2>2
    <2> QED BY <2>1, <2>2
<1>11. q = [i \in 0..n |-> q[i]]
    BY <1>6
<1>12. Recurs(q)
    <2> USE DEF Recurs
    <2>1. \A i \in 0..n : q[i] = IF i = 0 THEN p
                                 ELSE IF At(s, q[i - 1]) = i THEN q[i - 1] + 1 + width ELSE q[i - 1]
        <3> SUFFICES ASSUME NEW i \in 0..n, i # 0
                     PROVE  q[i] = IF At(s, q[i - 1]) = i THEN q[i - 1] + 1 + width ELSE q[i - 1]
            BY <1>6
        <3>1. i \in 1..n
            OBVIOUS
        <3> QED BY <1>7, <1>8, <1>10, <3>1
    <2> QED BY <1>11, <2>1
<1>13. Recurs(after)
    BY <1>12 DEF after
<1>14. \A f : Recurs(f) => f = q
    <2> SUFFICES ASSUME NEW f, Recurs(f) PROVE f = q
        OBVIOUS
    <2>1. /\ f = [i \in 0..n |-> f[i]] /\ f[0] = p
          /\ \A i \in 1..n : f[i] = IF At(s, f[i - 1]) = i THEN f[i - 1] + 1 + width ELSE f[i - 1]
        <3>1. f = [i \in 0..n |-> IF i = 0 THEN p ELSE IF At(s, f[i - 1]) = i THEN f[i - 1] + 1 + width ELSE f[i - 1]]
            BY DEF Recurs
        <3>2. \A i \in 0..n : f[i] = IF i = 0 THEN p
                  ELSE IF At(s, f[i - 1]) = i THEN f[i - 1] + 1 + width ELSE f[i - 1]
            BY <3>1
        <3>3. 0 \in 0..n /\ \A i \in 1..n : i \in 0..n /\ i # 0
            OBVIOUS
        <3>4. DOMAIN f = 0..n
            BY <3>1
        <3>5. f = [i \in DOMAIN f |-> f[i]]
            BY <3>1
        <3> QED BY <3>2, <3>3, <3>4, <3>5
    <2> DEFINE others == {i \in 0..n : f[i] # q[i]}
    <2>2. others = {}
        <3> SUFFICES ASSUME others # {} PROVE FALSE
            OBVIOUS
        <3>1. PICK m \in others : \A j \in others : m <= j
            <4>1. others \in SUBSET Nat
                OBVIOUS
            <4> HIDE DEF others
            <4> QED BY <4>1, LeastNatural
        <3>2. m # 0
            BY <1>6, <2>1, <3>1
        <3>3. m \in 1..n /\ m - 1 \in 0..n /\ ~(m <= m - 1)
            BY <3>1, <3>2
        <3>4. f[m - 1] = q[m - 1]
            BY <3>1, <3>3
        <3>5. f[m] = IF At(s, q[m - 1]) = m THEN q[m - 1] + 1 + width ELSE q[m - 1]
            BY <2>1, <3>3, <3>4
        <3>6. f[m] = q[m]
            BY <1>7, <1>8, <1>10, <3>3, <3>5
        <3> QED BY <3>1, <3>6
    <2> QED BY <1>11, <2>1, <2>2
<1>15. after = q
    BY <1>13, <1>14
<1>16. r = [at |-> [i \in 1..n |-> IF At(s, after[i - 1]) = i THEN after[i - 1] + 1 ELSE Nothing],
            p  |-> after[n] + 1]
    BY DEF ReadSparse, r, after, Recurs
<1>17. r.p = p + Len(Sparse(entries))
    <2>1. r.p = q[n] + 1 /\ p \in Nat
        BY <1>15, <1>16 DEF Holds
    <2> QED BY <1>5, <1>6, <2>1
<1>18. ASSUME NEW i \in 1..n, NEW k \in 0..(width - 1)
       PROVE  Entry(s, r.at[i], k) = IF entries[i] = <<>> THEN Nothing ELSE entries[i][k + 1]
    <2>1. r.at[i] = IF entries[i] # <<>> THEN q[i - 1] + 1 ELSE Nothing
        BY <1>10, <1>15, <1>16
    <2>2. CASE entries[i] = <<>>
        BY <2>1, <2>2 DEF Entry
    <2>3. CASE entries[i] # <<>>
        <3>1. Holds(s, q[i - 1] + 1, entries[i]) /\ k \in 0..(Len(entries[i]) - 1)
            BY <1>8, <2>3
        <3>2. At(s, q[i - 1] + 1 + k) = entries[i][k + 1]
            BY <3>1, HeldAt
        <3>3. q[i - 1] + 1 # Nothing
            BY <1>6 DEF Nothing
        <3> QED BY <2>1, <2>3, <3>2, <3>3 DEF Entry
    <2> QED BY <2>2, <2>3
<1> QED BY <1>17, <1>18 DEF r, TableRead

-----------------------------------------------------------------------------
(* The arena.                                                              *)

Data(s, ovls, b) == IF At(s, b.p) = 0 /\ b.at \notin ovls THEN At(s, b.p + 1) ELSE 0
Behind(s, ovls, b) == b.p + 2 + Data(s, ovls, b)
Reading(s, p, at, ovls, node) ==
    node = [k \in 1..Len(s) |->
               IF k = 1 THEN [p |-> p, at |-> at]
               ELSE [p  |-> Behind(s, ovls, node[k - 1]) + 1,
                     at |-> node[k - 1].at + At(s, node[k - 1].p + 1)]]

(* There is a function that leads from node to node. *)
LEMMA ReadingGoesOn ==
    ASSUME NEW s \in Seq(Int), NEW p \in Int, NEW at \in Int, NEW ovls
    PROVE  \E node : Reading(s, p, at, ovls, node)
<1> DEFINE S == [p : Int, at : Int]
           N == Len(s) - 1
           a == [p |-> p, at |-> at]
           On(b) == [p |-> Behind(s, ovls, b) + 1, at |-> b.at + At(s, b.p + 1)]
           G == [k \in 1..N |-> [b \in S |-> On(b)]]
           Node0 == [k \in 1..0 |-> a]
<1>1. Len(s) \in Nat
    BY LenProperties
<1>2. ASSUME NEW b \in S PROVE On(b) \in S
    <2>1. b.p \in Int /\ b.at \in Int /\ At(s, b.p) \in Int /\ At(s, b.p + 1) \in Int
        BY WordType
    <2>2. Data(s, ovls, b) \in Int
        BY <2>1 DEF Data
    <2> QED BY <2>1, <2>2 DEF Behind
<1>3. CASE Len(s) = 0
    <2>1. 1..Len(s) = {}
        BY <1>3
    <2>2. Reading(s, p, at, ovls, Node0)
        BY <1>3, <2>1 DEF Reading
    <2> QED BY <2>2
<1>4. CASE Len(s) # 0
    <2>1. N \in Nat
        BY <1>1, <1>4
    <2>2. G \in Steps(N, S) /\ a \in S
        BY <1>2 DEF Steps
    <2> HIDE DEF G, N, a, S
    <2>3. PICK f : f \in Recursions(S, a, N, G)
        BY <2>1, <2>2, RecursionUpTo
    <2>4. f \in [0..N -> S] /\ f[0] = a /\ \A k \in 1..N : f[k] = G[k][f[k - 1]]
        BY <2>3 DEF Recursions
    <2>5. ASSUME NEW k \in 1..N PROVE f[k] = On(f[k - 1])
        <3>1. k - 1 \in 0..N
            BY <2>1
        <3>2. f[k - 1] \in S
            BY <2>4, <3>1
        <3> QED BY <2>4, <3>2 DEF G
    <2> DEFINE node == [k \in 1..Len(s) |-> f[k - 1]]
    <2>6. \A k \in 1..Len(s) : f[k - 1] = IF k = 1 THEN a ELSE On(node[k - 1])
        <3> SUFFICES ASSUME NEW k \in 1..Len(s) PROVE f[k - 1] = IF k = 1 THEN a ELSE On(node[k - 1])
            OBVIOUS
        <3>1. CASE k = 1
            BY <2>4, <3>1
        <3>2. CASE k # 1
            <4>1. k - 1 \in 1..N /\ k - 1 \in 1..Len(s)
                BY <1>1, <3>2 DEF N
            <4>2. node[k - 1] = f[k - 1 - 1]
                BY <4>1
            <4> HIDE DEF node, On
            <4> QED BY <2>5, <3>2, <4>1, <4>2
        <3> QED BY <3>1, <3>2
    <2>7. node = [k \in 1..Len(s) |-> IF k = 1 THEN a ELSE On(node[k - 1])]
        <3> HIDE DEF On
        <3> QED BY <2>6
    <2>8. Reading(s, p, at, ovls, node)
        <3> HIDE DEF node
        <3> QED BY <2>7 DEF Reading, a
    <2> HIDE DEF node
    <2> QED BY <2>8
<1> QED BY <1>3, <1>4

(* How many words of a node's memory are in the stream. *)
Words(g, node) == IF node.free = 0 /\ node.at \notin OverlayAt(g.ovl) THEN node.size ELSE 0

(* The nodes of the arena lie in memory, one behind the other.             *)
LEMMA NodeTypes ==
    ASSUME NEW g, Kept(g)
    PROVE  /\ Len(g.nodes) \in Nat \ {0} /\ DOMAIN g.nodes = 1..Len(g.nodes)
           /\ g.nodes \in Seq([at : Addresses, size : Nat \ {0}, free : Int])
           /\ g.cell \in [Addresses -> Int]
           /\ \A k \in 1..Len(g.nodes) :
                 LET node == g.nodes[k] IN
                 /\ node = [at |-> node.at, size |-> node.size, free |-> node.free]
                 /\ node.at \in Nat \ {0} /\ node.size \in Nat \ {0} /\ node.free \in Int
                 /\ \A a \in node.at..(node.at + node.size - 1) : a \in Addresses
                 /\ Words(g, node) \in Nat
                 /\ k > 1 => node.at = g.nodes[k - 1].at + g.nodes[k - 1].size
<1>1. /\ g.nodes \in Seq([at : Addresses, size : Nat \ {0}, free : Int]) /\ g.nodes # <<>>
      /\ g.cell \in [Addresses -> Int]
      /\ \A k \in DOMAIN g.nodes :
            /\ g.nodes[k].at + g.nodes[k].size <= ARENA + 1
            /\ k > 1 => g.nodes[k].at = g.nodes[k - 1].at + g.nodes[k - 1].size
    BY DEF Kept, Game
<1>2. Len(g.nodes) \in Nat \ {0} /\ DOMAIN g.nodes = 1..Len(g.nodes)
    BY <1>1, EmptySeq, LenProperties
<1>3. ASSUME NEW k \in 1..Len(g.nodes)
      PROVE  LET node == g.nodes[k] IN
             /\ node = [at |-> node.at, size |-> node.size, free |-> node.free]
             /\ node.at \in Nat \ {0} /\ node.size \in Nat \ {0} /\ node.free \in Int
             /\ \A a \in node.at..(node.at + node.size - 1) : a \in Addresses
             /\ Words(g, node) \in Nat
             /\ k > 1 => node.at = g.nodes[k - 1].at + g.nodes[k - 1].size
    <2> DEFINE node == g.nodes[k]
    <2>1. node \in [at : Addresses, size : Nat \ {0}, free : Int] /\ node.at + node.size <= ARENA + 1
        <3>1. node \in [at : Addresses, size : Nat \ {0}, free : Int]
            BY <1>1, ElementOfSeq
        <3>2. k \in DOMAIN g.nodes
            BY <1>2
        <3> QED BY <1>1, <3>1, <3>2
    <2>2. ARENA \in Nat /\ Addresses \subseteq Nat \ {0}
        BY StateAssumption DEF Addresses
    <2>3. k > 1 => node.at = g.nodes[k - 1].at + g.nodes[k - 1].size
        BY <1>1, <1>2
    <2> HIDE DEF node
    <2>4. /\ node = [at |-> node.at, size |-> node.size, free |-> node.free]
          /\ node.at \in Nat \ {0} /\ node.size \in Nat \ {0} /\ node.free \in Int
        BY <2>1, <2>2
    <2>5. \A a \in node.at..(node.at + node.size - 1) : a \in Addresses
        BY <2>1, <2>2, <2>4 DEF Addresses
    <2>6. Words(g, node) \in Nat
        BY <2>4 DEF Words
    <2> QED BY <2>3, <2>4, <2>5, <2>6 DEF node
<1> QED BY <1>1, <1>2, <1>3

(* The words of a node in the stream. *)
LEMMA NodeHeld ==
    ASSUME NEW g, Kept(g), NEW k \in 1..Len(g.nodes), NEW s, NEW q
    PROVE  LET node == g.nodes[k]
               words == ArenaNode(g, node)
           IN /\ words \in Seq(Int) /\ Len(words) = 3 + Words(g, node)
              /\ Holds(s, q, words) =>
                    /\ At(s, q) = Node /\ At(s, q + 1) = node.free /\ At(s, q + 2) = node.size
                    /\ \A j \in 0..(Words(g, node) - 1) : At(s, q + 3 + j) = g.cell[node.at + j]
<1> DEFINE node == g.nodes[k]
           n == Words(g, node)
           head == <<Node, node.free, node.size>>
           data == [j \in 1..n |-> g.cell[node.at + j - 1]]
<1>1. /\ node.at \in Nat \ {0} /\ node.size \in Nat \ {0} /\ node.free \in Int
      /\ \A a \in node.at..(node.at + node.size - 1) : a \in Addresses
      /\ n \in Nat /\ g.cell \in [Addresses -> Int]
    BY NodeTypes
<1>2. n <= node.size
    BY <1>1 DEF Words
<1>3. ArenaNode(g, node) = head \o data
    <2>1. CASE node.free = 0 /\ node.at \notin OverlayAt(g.ovl)
        <3>1. n = node.size
            BY <2>1 DEF Words
        <3> HIDE DEF node, n
        <3> QED BY <2>1, <3>1 DEF ArenaNode
    <2>2. CASE ~(node.free = 0 /\ node.at \notin OverlayAt(g.ovl))
        <3>1. n = 0
            BY <2>2 DEF Words
        <3> HIDE DEF node, n
        <3>2. data = <<>>
            BY <3>1
        <3> HIDE DEF data
        <3> QED BY <2>2, <3>2 DEF ArenaNode
    <2> QED BY <2>1, <2>2
<1> HIDE DEF node, n
<1>4. head \in Seq(Int) /\ Len(head) = 3
    BY <1>1 DEF Node
<1>5. data \in Seq(Int) /\ Len(data) = n
    <2>1. \A j \in 1..n : node.at + j - 1 \in node.at..(node.at + node.size - 1)
        BY <1>1, <1>2
    <2>2. \A j \in 1..n : g.cell[node.at + j - 1] \in Int
        BY <1>1, <2>1
    <2>3. data \in [1..n -> Int]
        BY <2>2
    <2> HIDE DEF data
    <2> QED BY <1>1, <2>3, FunctionIsSequence
<1>6. head[1] = Node /\ head[2] = node.free /\ head[3] = node.size
    OBVIOUS
<1>7. \A j \in 0..(n - 1) : data[j + 1] = g.cell[node.at + j]
    <2> SUFFICES ASSUME NEW j \in 0..(n - 1) PROVE data[j + 1] = g.cell[node.at + j]
        OBVIOUS
    <2>1. j + 1 \in 1..n /\ node.at + (j + 1) - 1 = node.at + j
        BY <1>1
    <2> QED BY <2>1
<1> HIDE DEF head, data
<1>8. head \o data \in Seq(Int) /\ Len(head \o data) = 3 + n
    <2>1. head \o data \in Seq(Int) /\ Len(head \o data) = Len(head) + Len(data)
        BY <1>4, <1>5, ConcatProperties
    <2> QED BY <1>4, <1>5, <2>1
<1>9. ASSUME Holds(s, q, head \o data)
      PROVE  /\ At(s, q) = Node /\ At(s, q + 1) = node.free /\ At(s, q + 2) = node.size
             /\ \A j \in 0..(n - 1) : At(s, q + 3 + j) = g.cell[node.at + j]
    <2>1. Holds(s, q, head) /\ Holds(s, q + Len(head), data)
        BY <1>4, <1>5, <1>9, HoldsBoth
    <2>2. 0 \in 0..(Len(head) - 1) /\ 1 \in 0..(Len(head) - 1) /\ 2 \in 0..(Len(head) - 1)
        BY <1>4
    <2>3. At(s, q + 0) = head[0 + 1] /\ At(s, q + 1) = head[1 + 1] /\ At(s, q + 2) = head[2 + 1]
        BY <2>1, <2>2, HeldAt
    <2>4. q \in Nat
        BY <2>1 DEF Holds
    <2>5. \A j \in 0..(n - 1) : At(s, q + 3 + j) = data[j + 1]
        BY <1>4, <1>5, <2>1, HeldAt
    <2> QED BY <1>6, <1>7, <2>3, <2>4, <2>5
<1> QED BY <1>3, <1>8, <1>9 DEF node, n

ArenaIs(r, p, g) ==
    /\ r.p = p + Len(Arena(g)) /\ r.nodes = g.nodes
    /\ \A a : a \in DOMAIN r.cells <=>
          \E k \in 1..Len(g.nodes) :
             a \in g.nodes[k].at..(g.nodes[k].at + Words(g, g.nodes[k]) - 1)
    /\ \A a \in DOMAIN r.cells : r.cells[a] = g.cell[a]

(* The arena is read node for node, and what it holds.                     *)
LEMMA ArenaRead ==
    ASSUME NEW s, NEW p, NEW g, Kept(g), Holds(s, p, Arena(g))
    PROVE  ArenaIs(ReadArena(s, p, g.ovl), p, g)
<1> DEFINE n == Len(g.nodes)
           N(k) == g.nodes[k]
           ovls == OverlayAt(g.ovl)
           at == N(1).at
           w == [k \in DOMAIN g.nodes |-> ArenaNode(g, N(k))]
           node == CHOOSE f : Reading(s, p + 2, At(s, p), ovls, f)
           Ends(k) == At(s, Behind(s, ovls, node[k])) # Node \/ Behind(s, ovls, node[k]) >= Len(s)
           Is(k) == Ends(k) /\ \A j \in 1..(k - 1) : ~Ends(j)
           last == CHOOSE k \in 1..Len(s) : Is(k)
           Cells(k) == node[k].at..(node[k].at + Data(s, ovls, node[k]) - 1)
           cells == [a \in UNION {Cells(k) : k \in 1..last} |->
                        LET k == CHOOSE k \in 1..last : a \in Cells(k)
                        IN At(s, node[k].p + 2 + a - node[k].at)]
           r == ReadArena(s, p, g.ovl)
<1>0. r = [nodes |-> [k \in 1..last |-> [at |-> node[k].at, size |-> At(s, node[k].p + 1),
                                         free |-> At(s, node[k].p)]],
           cells |-> cells, p |-> Behind(s, ovls, node[last]) + 1]
    BY DEF ReadArena, ReadNodes, Data, Behind, Reading
<1> HIDE DEF r, cells, last, Is, Ends, node, Cells
<1>1. /\ n \in Nat \ {0} /\ DOMAIN g.nodes = 1..n
      /\ \A k \in 1..n : /\ N(k).at \in Nat \ {0} /\ N(k).size \in Nat \ {0} /\ N(k).free \in Int
                         /\ Words(g, N(k)) \in Nat
                         /\ k > 1 => N(k).at = N(k - 1).at + N(k - 1).size
    BY NodeTypes
<1>2. s \in Seq(Int) /\ p \in Nat \ {0} /\ Len(s) \in Nat
    BY LenProperties DEF Holds
<1>3. \A k \in 1..n : ArenaNode(g, N(k)) \in Seq(Int) /\ Len(ArenaNode(g, N(k))) = 3 + Words(g, N(k))
    BY NodeHeld
<1>4. w \in Seq(Seq(Int)) /\ Len(w) = n /\ \A k \in 1..n : w[k] = ArenaNode(g, N(k))
    <2>1. w = [k \in 1..n |-> ArenaNode(g, N(k))]
        BY <1>1
    <2> HIDE DEF w, N, n
    <2>2. w \in [1..n -> Seq(Int)]
        BY <1>3, <2>1
    <2> QED BY <1>1, <2>1, <2>2, FunctionIsSequence
<1>5. /\ at \in Nat \ {0} /\ At(s, p) = at
      /\ Holds(s, p + 1, FlattenSeq(w)) /\ Holds(s, p + 1 + Len(FlattenSeq(w)), <<End>>)
      /\ Len(Arena(g)) = Len(FlattenSeq(w)) + 2 /\ Len(FlattenSeq(w)) \in Nat
    <2>0. at \in Nat \ {0}
        <3>1. 1 \in 1..n
            BY <1>1
        <3> QED BY <1>1, <3>1
    <2>1. Arena(g) = <<at>> \o FlattenSeq(w) \o <<End>>
        BY DEF Arena
    <2> HIDE DEF at, w, n, N
    <2>2. PICK f \in [0..Len(w) -> Seq(Int)] : FlattenSeq(w) = f[Len(w)]
        BY <1>4, FlattenStepwise
    <2>3. /\ <<at>> \in Seq(Int) /\ Len(<<at>>) = 1 /\ <<at>>[1] = at
          /\ <<End>> \in Seq(Int) /\ Len(<<End>>) = 1
        BY <2>0 DEF End
    <2>4. FlattenSeq(w) \in Seq(Int)
        BY <1>1, <1>4, <2>2
    <2> DEFINE F == FlattenSeq(w)
    <2> HIDE DEF F
    <2>5. F \in Seq(Int)
        BY <2>4 DEF F
    <2>6. /\ <<at>> \o F \in Seq(Int) /\ Len(<<at>> \o F) = 1 + Len(F)
          /\ Len((<<at>> \o F) \o <<End>>) = Len(<<at>> \o F) + 1
        BY <2>3, <2>5, ConcatProperties
    <2>7. Holds(s, p, (<<at>> \o F) \o <<End>>)
        BY <2>1 DEF F
    <2>8. Holds(s, p, <<at>> \o F) /\ Holds(s, p + Len(<<at>> \o F), <<End>>)
        BY <2>3, <2>6, <2>7, HoldsBoth
    <2>9. Holds(s, p, <<at>>) /\ Holds(s, p + Len(<<at>>), F) /\ Len(F) \in Nat
        BY <2>3, <2>5, <2>8, HoldsBoth
    <2>10. At(s, p + 0) = <<at>>[0 + 1]
        <3>1. 0 \in 0..(Len(<<at>>) - 1)
            BY <2>3
        <3> QED BY <2>9, <3>1, HeldAt
    <2>11. At(s, p) = at
        BY <1>2, <2>3, <2>10
    <2>12. Holds(s, p + 1, F) /\ p + Len(<<at>> \o F) = p + 1 + Len(F)
        BY <1>2, <2>3, <2>6, <2>9
    <2>13. Len(Arena(g)) = Len(F) + 2
        BY <2>1, <2>6, <2>9 DEF F
    <2> QED BY <2>0, <2>8, <2>9, <2>11, <2>12, <2>13 DEF F
<1> HIDE DEF at
<1>6. PICK q : Placed(s, p + 1, w, q)
    BY <1>4, <1>5, HoldsEach
<1>7. /\ q \in [0..n -> Nat \ {0}] /\ q[0] = p + 1 /\ q[n] = p + 1 + Len(FlattenSeq(w))
      /\ \A k \in 1..n : q[k] = q[k - 1] + Len(w[k]) /\ Holds(s, q[k - 1], w[k])
    BY <1>4, <1>6 DEF Placed
<1> HIDE DEF n, w, N
<1>8. ASSUME NEW k \in 1..n
      PROVE  /\ k - 1 \in 0..n /\ k \in 0..n /\ q[k - 1] \in Nat \ {0}
             /\ q[k] = q[k - 1] + 3 + Words(g, N(k)) /\ q[k - 1] + 1 <= Len(s)
             /\ At(s, q[k - 1]) = Node /\ At(s, q[k - 1] + 1) = N(k).free
             /\ At(s, q[k - 1] + 2) = N(k).size
             /\ \A j \in 0..(Words(g, N(k)) - 1) : At(s, q[k - 1] + 3 + j) = g.cell[N(k).at + j]
    <2>1. k - 1 \in 0..n /\ k \in 0..n
        BY <1>1
    <2>2. q[k - 1] \in Nat \ {0} /\ Words(g, N(k)) \in Nat
        BY <1>1, <1>7, <2>1
    <2>3. /\ Holds(s, q[k - 1], ArenaNode(g, N(k))) /\ q[k] = q[k - 1] + (3 + Words(g, N(k)))
          /\ Len(ArenaNode(g, N(k))) = 3 + Words(g, N(k))
        BY <1>3, <1>4, <1>7
    <2>4. q[k - 1] + 1 <= Len(s)
        <3>1. 2 \in 1..Len(ArenaNode(g, N(k)))
            BY <2>2, <2>3
        <3>2. q[k - 1] + 2 - 1 \in 1..Len(s)
            BY <2>3, <3>1 DEF Holds
        <3> QED BY <2>2, <3>2
    <2>5. q[k] = q[k - 1] + 3 + Words(g, N(k))
        BY <2>2, <2>3
    <2>6. /\ At(s, q[k - 1]) = Node /\ At(s, q[k - 1] + 1) = N(k).free
          /\ At(s, q[k - 1] + 2) = N(k).size
          /\ \A j \in 0..(Words(g, N(k)) - 1) : At(s, q[k - 1] + 3 + j) = g.cell[N(k).at + j]
        BY <2>3, NodeHeld DEF N, n
    <2> QED BY <2>1, <2>2, <2>4, <2>5, <2>6
<1>9. At(s, q[n]) = End /\ q[n] \in 1..Len(s)
    <2>1. Holds(s, q[n], <<End>>) /\ q[n] \in Nat \ {0}
        BY <1>1, <1>5, <1>7
    <2>2. Len(<<End>>) = 1 /\ <<End>>[1] = End
        OBVIOUS
    <2>3. At(s, q[n] + 0) = <<End>>[0 + 1]
        <3>1. 0 \in 0..(Len(<<End>>) - 1)
            BY <2>2
        <3> QED BY <2>1, <3>1, HeldAt
    <2>4. q[n] + 1 - 1 \in 1..Len(s)
        <3>1. 1 \in 1..Len(<<End>>)
            BY <2>2
        <3> QED BY <2>1, <3>1 DEF Holds
    <2> QED BY <1>2, <2>1, <2>2, <2>3, <2>4
<1>10. n \in 1..Len(s)
    <2> DEFINE B == {k \in 0..n : q[k] > k}
    <2>1. 0 \in B
        BY <1>1, <1>2, <1>7
    <2>2. \A k \in (0 + 1)..n : k - 1 \in B => k \in B
        <3> SUFFICES ASSUME NEW k \in 1..n, q[k - 1] > k - 1 PROVE q[k] > k /\ k \in 0..n
            OBVIOUS
        <3>1. q[k] = q[k - 1] + 3 + Words(g, N(k)) /\ Words(g, N(k)) \in Nat /\ q[k - 1] \in Nat
            BY <1>1, <1>8
        <3> QED BY <1>8, <3>1
    <2> HIDE DEF B
    <2>3. n \in B
        <3>1. 0 \in Nat /\ n \in Nat /\ n \in 0..n
            BY <1>1
        <3>2. \A k \in 0..n : k \in B
            BY <2>1, <2>2, <3>1, EveryPlace
        <3> QED BY <3>1, <3>2
    <2> QED BY <1>1, <1>2, <1>9, <2>3 DEF B
<1>11. \A k \in 1..Len(s) :
          node[k] = IF k = 1 THEN [p |-> p + 2, at |-> at]
                    ELSE [p  |-> Behind(s, ovls, node[k - 1]) + 1,
                          at |-> node[k - 1].at + At(s, node[k - 1].p + 1)]
    <2>1. at \in Int /\ p + 2 \in Int
        BY <1>2, <1>5
    <2>2. \E f : Reading(s, p + 2, at, ovls, f)
        BY <1>2, <2>1, ReadingGoesOn
    <2>3. Reading(s, p + 2, at, ovls, node)
        BY <1>5, <2>2 DEF node
    <2>4. node = [k \in 1..Len(s) |->
                     IF k = 1 THEN [p |-> p + 2, at |-> at]
                     ELSE [p  |-> Behind(s, ovls, node[k - 1]) + 1,
                           at |-> node[k - 1].at + At(s, node[k - 1].p + 1)]]
        BY <2>3 DEF Reading
    <2> QED BY <2>4
<1> HIDE DEF ovls
<1> DEFINE R(k) == node[k] = [p |-> q[k - 1] + 1, at |-> N(k).at]
<1>12. ASSUME NEW k \in 1..n, R(k)
       PROVE  /\ Data(s, ovls, node[k]) = Words(g, N(k)) /\ Behind(s, ovls, node[k]) = q[k]
              /\ node[k].p = q[k - 1] + 1 /\ node[k].at = N(k).at
              /\ At(s, node[k].p) = N(k).free /\ At(s, node[k].p + 1) = N(k).size
    <2>1. node[k].p = q[k - 1] + 1 /\ node[k].at = N(k).at
        BY <1>12
    <2>2. q[k - 1] \in Nat /\ q[k - 1] + 1 + 1 = q[k - 1] + 2
        BY <1>8
    <2>3. At(s, node[k].p) = N(k).free /\ At(s, node[k].p + 1) = N(k).size
        BY <1>8, <2>1, <2>2
    <2>4. Data(s, ovls, node[k]) = Words(g, N(k))
        BY <2>1, <2>3 DEF Data, Words, ovls
    <2>5. Behind(s, ovls, node[k]) = q[k]
        BY <1>1, <1>8, <2>1, <2>2, <2>4 DEF Behind
    <2> QED BY <2>1, <2>3, <2>4, <2>5
<1>13. \A k \in 1..n : R(k)
    <2> DEFINE B == {k \in 1..n : R(k)}
    <2>1. 1 \in B
        <3>1. 1 \in 1..n /\ 1 \in 1..Len(s) /\ 1 - 1 = 0
            BY <1>1, <1>10
        <3>2. node[1] = [p |-> p + 2, at |-> at]
            BY <1>11, <3>1
        <3>3. q[1 - 1] + 1 = p + 2
            BY <1>2, <1>7, <3>1
        <3> QED BY <3>1, <3>2, <3>3 DEF at
    <2>2. \A k \in (1 + 1)..n : k - 1 \in B => k \in B
        <3> SUFFICES ASSUME NEW k \in 2..n, R(k - 1), k - 1 \in 1..n PROVE k \in 1..n /\ R(k)
            OBVIOUS
        <3>1. k \in 1..n /\ k # 1 /\ k \in 1..Len(s) /\ k > 1
            BY <1>1, <1>10
        <3> DEFINE b == node[k - 1]
        <3>2. /\ Behind(s, ovls, b) = q[k - 1]
              /\ b.at = N(k - 1).at /\ At(s, b.p + 1) = N(k - 1).size
            BY <1>12
        <3>3. node[k] = [p |-> Behind(s, ovls, b) + 1, at |-> b.at + At(s, b.p + 1)]
            BY <1>11, <3>1
        <3>4. N(k).at = N(k - 1).at + N(k - 1).size
            BY <1>1, <3>1
        <3> HIDE DEF b
        <3> QED BY <3>1, <3>2, <3>3, <3>4
    <2> HIDE DEF R
    <2>3. \A k \in 1..n : k \in B
        <3> HIDE DEF B
        <3>1. 1 \in Nat /\ n \in Nat
            BY <1>1
        <3> QED BY <2>1, <2>2, <3>1, EveryPlace
    <2> QED BY <2>3
<1>14. \A k \in 1..n : Ends(k) <=> k = n
    <2> SUFFICES ASSUME NEW k \in 1..n PROVE Ends(k) <=> k = n
        OBVIOUS
    <2>1. Behind(s, ovls, node[k]) = q[k]
        BY <1>12, <1>13
    <2>2. CASE k = n
        BY <1>9, <2>1, <2>2 DEF Ends, End, Node
    <2>3. CASE k # n
        <3>1. k + 1 \in 1..n /\ (k + 1) - 1 = k
            BY <1>1, <2>3
        <3>2. At(s, q[k]) = Node /\ q[k] + 1 <= Len(s) /\ q[k] \in Nat
            BY <1>8, <3>1
        <3>3. ~(q[k] >= Len(s))
            BY <1>2, <3>2
        <3> QED BY <2>1, <2>3, <3>2, <3>3 DEF Ends
    <2> QED BY <2>2, <2>3
<1>15. last = n
    <2>1. \A j \in 1..(n - 1) : j \in 1..n /\ j # n
        BY <1>1
    <2>2. Is(n) /\ n \in 1..Len(s)
        <3>1. n \in 1..n
            BY <1>1
        <3> QED BY <1>10, <1>14, <2>1, <3>1 DEF Is
    <2>3. Is(last) /\ last \in 1..Len(s)
        BY <2>2 DEF last
    <2> HIDE DEF last
    <2>4. CASE last < n
        <3>1. last \in 1..n /\ last # n
            BY <1>1, <2>3, <2>4
        <3> QED BY <1>14, <2>3, <3>1 DEF Is
    <2>5. CASE last > n
        <3>1. n \in 1..(last - 1) /\ n \in 1..n
            BY <1>1, <2>3, <2>5
        <3> QED BY <1>14, <2>3, <3>1 DEF Is
    <2> QED BY <1>1, <2>3, <2>4, <2>5
<1> HIDE DEF R
<1>16. r.p = p + Len(Arena(g))
    <2>1. n \in 1..n
        BY <1>1
    <2>2. r.p = q[n] + 1
        BY <1>0, <1>12, <1>13, <1>15, <2>1
    <2> QED BY <1>2, <1>5, <1>7, <2>2
<1>17. r.nodes = g.nodes
    <2>1. \A k \in 1..n : N(k) = [at |-> N(k).at, size |-> N(k).size, free |-> N(k).free]
        BY NodeTypes DEF n, N
    <2>2. r.nodes = [k \in 1..n |-> [at |-> node[k].at, size |-> At(s, node[k].p + 1),
                                     free |-> At(s, node[k].p)]]
        BY <1>0, <1>15
    <2>3. \A k \in 1..n : [at |-> node[k].at, size |-> At(s, node[k].p + 1),
                           free |-> At(s, node[k].p)] = N(k)
        <3> SUFFICES ASSUME NEW k \in 1..n
                     PROVE  [at |-> node[k].at, size |-> At(s, node[k].p + 1),
                             free |-> At(s, node[k].p)] = N(k)
            OBVIOUS
        <3>1. node[k].at = N(k).at /\ At(s, node[k].p) = N(k).free /\ At(s, node[k].p + 1) = N(k).size
            BY <1>12, <1>13
        <3> QED BY <2>1, <3>1
    <2>4. r.nodes = [k \in 1..n |-> N(k)]
        BY <2>2, <2>3
    <2>5. g.nodes = [k \in 1..n |-> g.nodes[k]]
        BY <1>1, NodeTypes
    <2> QED BY <2>4, <2>5 DEF N
<1>18. \A k \in 1..n : Cells(k) = N(k).at..(N(k).at + Words(g, N(k)) - 1)
    BY <1>12, <1>13 DEF Cells
<1>19. r.cells = cells /\ DOMAIN cells = UNION {Cells(k) : k \in 1..n}
    BY <1>0, <1>15 DEF cells
<1>20. ASSUME NEW a PROVE a \in DOMAIN r.cells <=> \E k \in 1..n : a \in N(k).at..(N(k).at + Words(g, N(k)) - 1)
    <2>1. a \in DOMAIN r.cells <=> \E k \in 1..n : a \in Cells(k)
        BY <1>19
    <2> QED BY <1>18, <2>1
<1>21. ASSUME NEW a \in DOMAIN r.cells PROVE r.cells[a] = g.cell[a]
    <2> DEFINE k == CHOOSE k \in 1..n : a \in Cells(k)
    <2>1. k \in 1..n /\ a \in Cells(k)
        <3>1. \E j \in 1..n : a \in Cells(j)
            BY <1>19
        <3> QED BY <3>1
    <2>2. r.cells[a] = At(s, node[k].p + 2 + a - node[k].at)
        BY <1>15, <1>19 DEF cells
    <2> HIDE DEF k
    <2>3. node[k].p = q[k - 1] + 1 /\ node[k].at = N(k).at /\ a \in N(k).at..(N(k).at + Words(g, N(k)) - 1)
        BY <1>12, <1>13, <1>18, <2>1
    <2>4. /\ q[k - 1] \in Nat /\ N(k).at \in Nat /\ Words(g, N(k)) \in Nat
          /\ \A j \in 0..(Words(g, N(k)) - 1) : At(s, q[k - 1] + 3 + j) = g.cell[N(k).at + j]
        BY <1>1, <1>8, <2>1
    <2> DEFINE j == a - N(k).at
    <2>5. j \in 0..(Words(g, N(k)) - 1) /\ N(k).at + j = a
          /\ node[k].p + 2 + a - node[k].at = q[k - 1] + 3 + j
        BY <2>3, <2>4
    <2> HIDE DEF j
    <2> QED BY <2>2, <2>4, <2>5
<1> QED BY <1>16, <1>17, <1>20, <1>21 DEF r, n, N, ArenaIs

-----------------------------------------------------------------------------
(* The overlays.                                                           *)

(* A table is written as numbers.                                          *)
LEMMA SparseType ==
    ASSUME NEW n \in Nat, NEW entries \in [1..n -> Seq(Int)]
    PROVE  /\ entries \in Seq(Seq(Int)) /\ Len(entries) = n
           /\ Sparse(entries) \in Seq(Int) /\ Len(Sparse(entries)) \in Nat
<1> DEFINE w == [i \in DOMAIN entries |-> IF entries[i] = <<>> THEN <<>> ELSE <<i>> \o entries[i]]
<1>1. entries \in Seq(Seq(Int)) /\ Len(entries) = n /\ DOMAIN entries = 1..n
    BY FunctionIsSequence
<1>2. \A i \in 1..n : <<i>> \o entries[i] \in Seq(Int)
    BY ConcatProperties
<1>3. w \in [1..n -> Seq(Int)]
    BY <1>1, <1>2
<1>4. Sparse(entries) = FlattenSeq(w) \o <<End>>
    BY DEF Sparse
<1> HIDE DEF w
<1>5. w \in Seq(Seq(Int)) /\ Len(w) = n
    BY <1>3, FunctionIsSequence
<1>6. PICK f \in [0..Len(w) -> Seq(Int)] : FlattenSeq(w) = f[Len(w)]
    BY <1>5, FlattenStepwise
<1>7. FlattenSeq(w) \in Seq(Int) /\ <<End>> \in Seq(Int)
    BY <1>5, <1>6 DEF End
<1>8. Sparse(entries) \in Seq(Int)
    BY <1>4, <1>7, ConcatProperties
<1> QED BY <1>1, <1>8, LenProperties

(* The words of an overlay, with what comes before them for an actor.      *)
LEMMA OneAndTwo ==
    ASSUME NEW a \in Int, NEW b \in Int, NEW c \in Int
    PROVE  <<a>> \o <<b, c>> = <<a, b, c>> /\ <<>> \o <<b, c>> = <<b, c>>
<1> DEFINE u == <<a>>
           v == <<b, c>>
           w == <<a, b, c>>
<1>1. /\ u \in Seq(Int) /\ v \in Seq(Int) /\ w \in Seq(Int)
      /\ Len(u) = 1 /\ Len(v) = 2 /\ Len(w) = 3
      /\ u[1] = a /\ v[1] = b /\ v[2] = c /\ w[1] = a /\ w[2] = b /\ w[3] = c
    OBVIOUS
<1> HIDE DEF u, v, w
<1>2. /\ u \o v \in Seq(Int) /\ Len(u \o v) = Len(u) + Len(v)
      /\ \A i \in 1..(Len(u) + Len(v)) : (u \o v)[i] = IF i <= Len(u) THEN u[i] ELSE v[i - Len(u)]
    BY <1>1, ConcatProperties
<1>3. (u \o v)[1] = a /\ (u \o v)[2] = b /\ (u \o v)[3] = c
    BY <1>1, <1>2
<1>4. \A i \in 1..3 : (u \o v)[i] = w[i]
    <2> SUFFICES ASSUME NEW i \in 1..3 PROVE (u \o v)[i] = w[i]
        OBVIOUS
    <2>1. i = 1 \/ i = 2 \/ i = 3
        OBVIOUS
    <2> QED BY <1>1, <1>3, <2>1
<1>5. Len(u \o v) = 3
    BY <1>1, <1>2
<1>6. u \o v = w
    BY <1>1, <1>2, <1>4, <1>5, SeqEqual
<1>7. <<>> \o v = v
    BY <1>1, ConcatEmptySeq
<1> QED BY <1>6, <1>7 DEF u, v, w

(* What save_state writes for a place of an overlay table. *)
Saved(g, t, i) ==
    IF g.ovl[t][i] = Nothing THEN <<>>
    ELSE (IF t = 1 THEN <<g.loaded_cnt[i]>> ELSE <<>>) \o SavedOverlay(g, t, i)
SavedTable(g, t) == [i \in Entries |-> Saved(g, t, i)]

(* What is written for a place: nothing, or the overlay it has.            *)
LEMMA SavedType ==
    ASSUME NEW g, Kept(g), NEW t \in Tables
    PROVE  /\ SavedTable(g, t) \in [1..2 -> Seq(Int)]
           /\ \A i \in Entries :
                 LET e == SavedTable(g, t)[i]
                     o == g.ovl[t][i]
                 IN IF o = Nothing THEN e = <<>>
                    ELSE /\ e # <<>>
                         /\ t = 1 => Len(e) = 3 /\ e[1] = g.loaded_cnt[i] /\ e[2] = o /\ e[3] = g.cell[o]
                         /\ t # 1 => Len(e) = 2 /\ e[1] = o /\ e[2] = g.cell[o]
<1>1. /\ g.ovl \in [Tables -> [Entries -> Addresses \cup {Nothing}]] /\ g.cell \in [Addresses -> Int]
      /\ g.loaded_cnt \in [Entries -> Int]
    BY DEF Kept, Game
<1>2. ASSUME NEW i \in Entries, g.ovl[t][i] # Nothing
      PROVE  /\ Saved(g, t, i) \in Seq(Int) /\ Saved(g, t, i) # <<>>
             /\ Saved(g, t, i) = IF t = 1 THEN <<g.loaded_cnt[i], g.ovl[t][i], g.cell[g.ovl[t][i]]>>
                                 ELSE <<g.ovl[t][i], g.cell[g.ovl[t][i]]>>
    <2> DEFINE o == g.ovl[t][i]
               c == g.loaded_cnt[i]
    <2>1. o \in Addresses /\ c \in Int
        BY <1>1, <1>2
    <2>2. g.cell[o] \in Int /\ o \in Int
        BY <1>1, <2>1, StateAssumption DEF Addresses
    <2>3. Saved(g, t, i) = (IF t = 1 THEN <<c>> ELSE <<>>) \o <<o, g.cell[o]>>
        BY <1>2 DEF Saved, SavedOverlay
    <2> HIDE DEF o, c
    <2>4. CASE t = 1
        <3>1. Saved(g, t, i) = <<c>> \o <<o, g.cell[o]>>
            BY <2>3, <2>4
        <3>2. Saved(g, t, i) = <<c, o, g.cell[o]>>
            BY <2>1, <2>2, <3>1, OneAndTwo
        <3>3. <<c, o, g.cell[o]>> \in Seq(Int) /\ <<c, o, g.cell[o]>> # <<>>
            BY <2>1, <2>2
        <3> QED BY <2>4, <3>2, <3>3 DEF o, c
    <2>5. CASE t # 1
        <3>1. Saved(g, t, i) = <<>> \o <<o, g.cell[o]>>
            BY <2>3, <2>5
        <3>2. Saved(g, t, i) = <<o, g.cell[o]>>
            BY <2>1, <2>2, <3>1, OneAndTwo
        <3>3. <<o, g.cell[o]>> \in Seq(Int) /\ <<o, g.cell[o]>> # <<>>
            BY <2>2
        <3> QED BY <2>5, <3>2, <3>3 DEF o, c
    <2> QED BY <2>4, <2>5
<1>3. ASSUME NEW i \in Entries, g.ovl[t][i] = Nothing PROVE Saved(g, t, i) = <<>>
    BY <1>3 DEF Saved
<1>4. \A i \in Entries : SavedTable(g, t)[i] = Saved(g, t, i)
    BY DEF SavedTable
<1>5. SavedTable(g, t) \in [1..2 -> Seq(Int)]
    <2>1. \A i \in Entries : Saved(g, t, i) \in Seq(Int)
        <3>1. <<>> \in Seq(Int)
            OBVIOUS
        <3> QED BY <1>2, <1>3, <3>1
    <2> QED BY <2>1 DEF SavedTable, Entries
<1>6. ASSUME NEW i \in Entries
      PROVE  LET e == SavedTable(g, t)[i]
                 o == g.ovl[t][i]
             IN IF o = Nothing THEN e = <<>>
                ELSE /\ e # <<>>
                     /\ t = 1 => Len(e) = 3 /\ e[1] = g.loaded_cnt[i] /\ e[2] = o /\ e[3] = g.cell[o]
                     /\ t # 1 => Len(e) = 2 /\ e[1] = o /\ e[2] = g.cell[o]
    <2> DEFINE e == SavedTable(g, t)[i]
               o == g.ovl[t][i]
    <2>1. e = Saved(g, t, i)
        BY <1>4
    <2>2. CASE o = Nothing
        BY <1>3, <2>1, <2>2
    <2>3. CASE o # Nothing
        <3>1. e # <<>> /\ e = IF t = 1 THEN <<g.loaded_cnt[i], o, g.cell[o]>> ELSE <<o, g.cell[o]>>
            BY <1>2, <2>1, <2>3
        <3> HIDE DEF e
        <3>2. CASE t = 1
            <4>1. e = <<g.loaded_cnt[i], o, g.cell[o]>>
                BY <3>1, <3>2
            <4> HIDE DEF o
            <4> QED BY <2>3, <3>1, <3>2, <4>1 DEF e, o
        <3>3. CASE t # 1
            <4>1. e = <<o, g.cell[o]>>
                BY <3>1, <3>3
            <4> HIDE DEF o
            <4> QED BY <2>3, <3>1, <3>3, <4>1 DEF e, o
        <3> QED BY <3>2, <3>3
    <2> QED BY <2>2, <2>3
<1> QED BY <1>5, <1>6

OverlaysAre(r, p, g) ==
    /\ r.p = p + Len(OverlayTables(g)) /\ r.cnt = g.loaded_cnt /\ r.ovl = g.ovl
    /\ \A t \in Tables, i \in Entries :
          g.ovl[t][i] # Nothing => r.own[t][i] = g.cell[g.ovl[t][i]]

(* The overlay tables are read as they were, with the overlays' own memory.*)
LEMMA OverlaysRead ==
    ASSUME NEW s, NEW p, NEW g, Kept(g), Holds(s, p, OverlayTables(g))
    PROVE  OverlaysAre(ReadOverlays(s, p), p, g)
<1> DEFINE T(t) == Sparse(SavedTable(g, t))
           w == [t \in Tables |-> T(t)]
           Width(t) == IF t = 1 THEN 3 ELSE 2
           E(t) == SavedTable(g, t)
           act == ReadSparse(s, p, 2, 3)
           ply == ReadSparse(s, act.p, 2, 2)
           prt == ReadSparse(s, ply.p, 2, 2)
           Field(at, k) == [i \in Entries |-> Entry(s, at[i], k)]
           r == ReadOverlays(s, p)
<1>0. r = [cnt |-> Field(act.at, 0), ovl |-> <<Field(act.at, 1), Field(ply.at, 0), Field(prt.at, 0)>>,
           own |-> <<Field(act.at, 2), Field(ply.at, 1), Field(prt.at, 1)>>, p |-> prt.p]
    BY DEF ReadOverlays
<1> HIDE DEF r, act, ply, prt
<1>1. OverlayTables(g) = FlattenSeq(w)
    BY DEF OverlayTables, SavedTable, Saved
<1>2. \A t \in Tables : E(t) \in [1..2 -> Seq(Int)]
    BY SavedType
<1>3. \A t \in Tables : E(t) \in Seq(Seq(Int)) /\ Len(E(t)) = 2 /\ T(t) \in Seq(Int) /\ Len(T(t)) \in Nat
    <2> HIDE DEF E
    <2> SUFFICES ASSUME NEW t \in Tables
                 PROVE  E(t) \in Seq(Seq(Int)) /\ Len(E(t)) = 2 /\ Sparse(E(t)) \in Seq(Int)
                        /\ Len(Sparse(E(t))) \in Nat
        BY DEF E
    <2> QED BY <1>2, SparseType
<1> HIDE DEF T
<1>4. w \in Seq(Seq(Int)) /\ Len(w) = 3 /\ \A t \in 1..3 : w[t] = T(t)
    <2>1. w \in [1..3 -> Seq(Int)]
        BY <1>3 DEF Tables
    <2>2. \A t \in 1..3 : w[t] = T(t)
        BY DEF Tables
    <2> HIDE DEF w
    <2> QED BY <2>1, <2>2, FunctionIsSequence
<1> HIDE DEF w
<1>5. PICK q : Placed(s, p, w, q)
    BY <1>1, <1>4, HoldsEach
<1>6. /\ q[0] = p /\ q[3] = p + Len(OverlayTables(g))
      /\ \A t \in 1..3 : q[t] = q[t - 1] + Len(T(t)) /\ Holds(s, q[t - 1], T(t))
    BY <1>1, <1>4, <1>5 DEF Placed
<1>7. ASSUME NEW t \in Tables, NEW a, a = ReadSparse(s, q[t - 1], 2, Width(t))
      PROVE  /\ a.p = q[t]
             /\ \A i \in 1..2, k \in 0..(Width(t) - 1) :
                   Entry(s, a.at[i], k) = IF E(t)[i] = <<>> THEN Nothing ELSE E(t)[i][k + 1]
    <2>1. Holds(s, q[t - 1], Sparse(E(t))) /\ q[t] = q[t - 1] + Len(Sparse(E(t)))
        BY <1>6 DEF T, Tables
    <2>2. E(t) \in Seq(Seq(Int)) /\ Len(E(t)) = 2 /\ Width(t) \in Nat \ {0}
        BY <1>3
    <2>3. \A i \in 1..2 : E(t)[i] = <<>> \/ Len(E(t)[i]) = Width(t)
        <3> SUFFICES ASSUME NEW i \in Entries PROVE E(t)[i] = <<>> \/ Len(E(t)[i]) = Width(t)
            BY DEF Entries
        <3>1. \/ E(t)[i] = <<>>
              \/ (t = 1 => Len(E(t)[i]) = 3) /\ (t # 1 => Len(E(t)[i]) = 2)
            BY SavedType
        <3> QED BY <3>1
    <2> DEFINE x == q[t - 1]
               e == E(t)
               wd == Width(t)
    <2> HIDE DEF x, e, wd
    <2>4. /\ e \in Seq(Seq(Int)) /\ Len(e) = 2 /\ wd \in Nat \ {0} /\ Holds(s, x, Sparse(e))
          /\ \A i \in 1..2 : e[i] = <<>> \/ Len(e[i]) = wd
        BY <2>1, <2>2, <2>3 DEF x, e, wd
    <2>5. a = ReadSparse(s, x, 2, wd)
        BY <1>7 DEF x, wd
    <2>6. TableRead(s, x, 2, wd, e)
        BY <2>4, SparseRead
    <2>7. /\ a.p = x + Len(Sparse(e))
          /\ \A i \in 1..2, k \in 0..(wd - 1) :
                Entry(s, a.at[i], k) = IF e[i] = <<>> THEN Nothing ELSE e[i][k + 1]
        BY <2>5, <2>6 DEF TableRead
    <2> QED BY <2>1, <2>7 DEF x, e, wd
<1> HIDE DEF E
<1>8. /\ act.p = q[1] /\ \A i \in Entries, k \in 0..2 :
                            Entry(s, act.at[i], k) = IF E(1)[i] = <<>> THEN Nothing ELSE E(1)[i][k + 1]
    <2>1. 1 \in Tables /\ act = ReadSparse(s, q[1 - 1], 2, Width(1)) /\ Width(1) - 1 = 2
        BY <1>6 DEF act, Tables
    <2> QED BY <1>7, <2>1 DEF Entries
<1>9. /\ ply.p = q[2] /\ \A i \in Entries, k \in 0..1 :
                            Entry(s, ply.at[i], k) = IF E(2)[i] = <<>> THEN Nothing ELSE E(2)[i][k + 1]
    <2>1. 2 \in Tables /\ ply = ReadSparse(s, q[2 - 1], 2, Width(2)) /\ Width(2) - 1 = 1
        BY <1>8 DEF ply, Tables
    <2> QED BY <1>7, <2>1 DEF Entries
<1>10. /\ prt.p = q[3] /\ \A i \in Entries, k \in 0..1 :
                            Entry(s, prt.at[i], k) = IF E(3)[i] = <<>> THEN Nothing ELSE E(3)[i][k + 1]
    <2>1. 3 \in Tables /\ prt = ReadSparse(s, q[3 - 1], 2, Width(3)) /\ Width(3) - 1 = 1
        BY <1>9 DEF prt, Tables
    <2> QED BY <1>7, <2>1 DEF Entries
<1>11. /\ g.ovl \in [Tables -> [Entries -> Addresses \cup {Nothing}]] /\ g.loaded_cnt \in [Entries -> Int]
       /\ \A i \in Entries : g.ovl[1][i] = Nothing => g.loaded_cnt[i] = Nothing
    BY DEF Kept, Game, Nothing
<1>12. ASSUME NEW t \in Tables, NEW i \in Entries
       PROVE  IF g.ovl[t][i] = Nothing THEN E(t)[i] = <<>>
              ELSE /\ E(t)[i] # <<>>
                   /\ t = 1 => /\ E(t)[i][1] = g.loaded_cnt[i] /\ E(t)[i][2] = g.ovl[t][i]
                               /\ E(t)[i][3] = g.cell[g.ovl[t][i]]
                   /\ t # 1 => E(t)[i][1] = g.ovl[t][i] /\ E(t)[i][2] = g.cell[g.ovl[t][i]]
    BY SavedType DEF E
<1>13. \A i \in Entries :
          /\ Entry(s, act.at[i], 0) = g.loaded_cnt[i] /\ Entry(s, act.at[i], 1) = g.ovl[1][i]
          /\ g.ovl[1][i] # Nothing => Entry(s, act.at[i], 2) = g.cell[g.ovl[1][i]]
    <2> SUFFICES ASSUME NEW i \in Entries
                 PROVE  /\ Entry(s, act.at[i], 0) = g.loaded_cnt[i] /\ Entry(s, act.at[i], 1) = g.ovl[1][i]
                        /\ g.ovl[1][i] # Nothing => Entry(s, act.at[i], 2) = g.cell[g.ovl[1][i]]
        OBVIOUS
    <2>1. /\ Entry(s, act.at[i], 0) = IF E(1)[i] = <<>> THEN Nothing ELSE E(1)[i][1]
          /\ Entry(s, act.at[i], 1) = IF E(1)[i] = <<>> THEN Nothing ELSE E(1)[i][2]
          /\ Entry(s, act.at[i], 2) = IF E(1)[i] = <<>> THEN Nothing ELSE E(1)[i][3]
        BY <1>8
    <2>2. 1 \in Tables
        BY DEF Tables
    <2> QED BY <1>11, <1>12, <2>1, <2>2
<1>14. ASSUME NEW t \in {2, 3}, NEW at,
              \A i \in Entries, k \in 0..1 :
                 Entry(s, at[i], k) = IF E(t)[i] = <<>> THEN Nothing ELSE E(t)[i][k + 1]
       PROVE  \A i \in Entries :
                 /\ Entry(s, at[i], 0) = g.ovl[t][i]
                 /\ g.ovl[t][i] # Nothing => Entry(s, at[i], 1) = g.cell[g.ovl[t][i]]
    <2> SUFFICES ASSUME NEW i \in Entries
                 PROVE  /\ Entry(s, at[i], 0) = g.ovl[t][i]
                        /\ g.ovl[t][i] # Nothing => Entry(s, at[i], 1) = g.cell[g.ovl[t][i]]
        OBVIOUS
    <2>1. /\ Entry(s, at[i], 0) = IF E(t)[i] = <<>> THEN Nothing ELSE E(t)[i][1]
          /\ Entry(s, at[i], 1) = IF E(t)[i] = <<>> THEN Nothing ELSE E(t)[i][2]
        BY <1>14
    <2>2. t \in Tables /\ t # 1
        BY DEF Tables
    <2> QED BY <1>12, <2>1, <2>2
<1>15. \A i \in Entries :
          /\ Entry(s, ply.at[i], 0) = g.ovl[2][i]
          /\ g.ovl[2][i] # Nothing => Entry(s, ply.at[i], 1) = g.cell[g.ovl[2][i]]
    BY <1>9, <1>14
<1>16. \A i \in Entries :
          /\ Entry(s, prt.at[i], 0) = g.ovl[3][i]
          /\ g.ovl[3][i] # Nothing => Entry(s, prt.at[i], 1) = g.cell[g.ovl[3][i]]
    BY <1>10, <1>14
<1>17. r.p = p + Len(OverlayTables(g))
    BY <1>0, <1>6, <1>10
<1>18. r.cnt = g.loaded_cnt
    <2>1. r.cnt = [i \in Entries |-> g.loaded_cnt[i]]
        BY <1>0, <1>13
    <2> QED BY <1>11, <2>1
<1>19. r.ovl = g.ovl
    <2>1. Field(act.at, 1) = [i \in Entries |-> g.ovl[1][i]]
        BY <1>13
    <2>2. Field(ply.at, 0) = [i \in Entries |-> g.ovl[2][i]]
        BY <1>15
    <2>3. Field(prt.at, 0) = [i \in Entries |-> g.ovl[3][i]]
        BY <1>16
    <2>4. \A t \in Tables : g.ovl[t] = [i \in Entries |-> g.ovl[t][i]]
        BY <1>11
    <2>5. r.ovl = <<g.ovl[1], g.ovl[2], g.ovl[3]>>
        <3>1. 1 \in Tables /\ 2 \in Tables /\ 3 \in Tables
            BY DEF Tables
        <3> HIDE DEF Field
        <3> QED BY <1>0, <2>1, <2>2, <2>3, <2>4, <3>1
    <2>6. g.ovl = [t \in 1..3 |-> g.ovl[t]]
        BY <1>11 DEF Tables
    <2>7. <<g.ovl[1], g.ovl[2], g.ovl[3]>> = [t \in 1..3 |-> g.ovl[t]]
        OBVIOUS
    <2> QED BY <2>5, <2>6, <2>7
<1>20. ASSUME NEW t \in Tables, NEW i \in Entries, g.ovl[t][i] # Nothing
       PROVE  r.own[t][i] = g.cell[g.ovl[t][i]]
    <2>1. /\ r.own[1][i] = Entry(s, act.at[i], 2) /\ r.own[2][i] = Entry(s, ply.at[i], 1)
          /\ r.own[3][i] = Entry(s, prt.at[i], 1)
        BY <1>0
    <2>2. t = 1 \/ t = 2 \/ t = 3
        BY DEF Tables
    <2> QED BY <1>13, <1>15, <1>16, <1>20, <2>1, <2>2
<1> QED BY <1>17, <1>18, <1>19, <1>20 DEF r, OverlaysAre

-----------------------------------------------------------------------------
(* The plain blocks.                                                       *)

(* The plain parts of a moment of the game are words. *)
LEMMA GameTypes ==
    ASSUME NEW g, Kept(g)
    PROVE  /\ g \in Game
           /\ g.stamp \in Int /\ g.seq \in Int /\ g.afx_cfg \in Int /\ g.scene \in Nat \ {0}
           /\ Sizes[g.scene] \in Nat /\ g.room \in Int /\ g.room_ptr \in {1, 2} /\ g.obj \in Int
           /\ g.obj_ptr \in {1, 2} /\ g.pause \in Nat /\ g.timer \in Int
           /\ g.particle \in Seq(Int) /\ g.dot \in [1..2 -> Int]
           /\ g.wobble \in Int /\ g.weather \in Int /\ g.disp \in Nat
<1>1. g \in Game
    BY DEF Kept
<1>2. /\ g.stamp \in Int /\ g.seq \in Int /\ g.afx_cfg \in Int /\ g.scene \in DOMAIN Sizes
      /\ g.room \in Int /\ g.room_ptr \in 1..2 /\ g.obj \in Int
      /\ g.obj_ptr \in 1..2 /\ g.pause \in {0} \cup {n \in Nat : n >= 3} /\ g.timer \in Int
      /\ g.particle \in Seq(Int) /\ g.dot \in [1..2 -> Int]
      /\ g.wobble \in Int /\ g.weather \in Int /\ g.disp \in Nat
    BY <1>1 DEF Game
<1>3. g.scene \in Nat \ {0} /\ Sizes[g.scene] \in Nat
    <2>1. Sizes \in Seq(Nat)
        BY StateAssumption
    <2>2. DOMAIN Sizes = 1..Len(Sizes) /\ Len(Sizes) \in Nat
        BY <2>1, LenProperties
    <2>3. g.scene \in 1..Len(Sizes)
        BY <1>2, <2>2
    <2>4. Sizes[g.scene] \in Nat
        BY <2>1, <2>3, ElementOfSeq
    <2> QED BY <2>2, <2>3, <2>4
<1>4. g.room_ptr \in {1, 2} /\ g.obj_ptr \in {1, 2} /\ g.pause \in Nat
    BY <1>2
<1> QED BY <1>1, <1>2, <1>3, <1>4

(* One word by itself, and a list behind its length. *)
LEMMA OneWord ==
    ASSUME NEW x \in Int, NEW s, NEW p
    PROVE  <<x>> \in Seq(Int) /\ Len(<<x>>) = 1 /\ (Holds(s, p, <<x>>) => At(s, p) = x)
<1>1. <<x>> \in Seq(Int) /\ Len(<<x>>) = 1 /\ <<x>>[0 + 1] = x
    OBVIOUS
<1>2. ASSUME Holds(s, p, <<x>>) PROVE At(s, p) = x
    <2>1. 0 \in 0..(Len(<<x>>) - 1) /\ p \in Nat
        BY <1>1, <1>2 DEF Holds
    <2>2. At(s, p + 0) = <<x>>[0 + 1]
        BY <1>2, <2>1, HeldAt
    <2> QED BY <1>1, <2>1, <2>2
<1> QED BY <1>1, <1>2

(* A list is read by the length before it.                                *)
LEMMA CountedWords ==
    ASSUME NEW n \in Nat, NEW f \in [1..n -> Int], NEW s, NEW p
    PROVE  LET u == <<n>> \o f IN
           /\ u \in Seq(Int) /\ Len(u) = 1 + n
           /\ Holds(s, p, u) => At(s, p) = n /\ \A k \in 1..n : At(s, p + k) = f[k]
<1> DEFINE u == <<n>> \o f
<1>1. <<n>> \in Seq(Int) /\ Len(<<n>>) = 1 /\ f \in Seq(Int) /\ Len(f) = n
    BY OneWord, FunctionIsSequence
<1>2. u \in Seq(Int) /\ Len(u) = 1 + n
    <2>1. u \in Seq(Int) /\ Len(u) = Len(<<n>>) + Len(f)
        BY <1>1, ConcatProperties
    <2> QED BY <1>1, <2>1
<1>3. ASSUME Holds(s, p, u) PROVE At(s, p) = n /\ \A k \in 1..n : At(s, p + k) = f[k]
    <2>1. Holds(s, p, <<n>>) /\ Holds(s, p + 1, f) /\ p \in Nat
        <3>1. Holds(s, p, <<n>>) /\ Holds(s, p + Len(<<n>>), f)
            BY <1>1, <1>3, HoldsBoth
        <3> QED BY <1>1, <3>1 DEF Holds
    <2>2. At(s, p) = n
        BY <2>1, OneWord
    <2>3. ASSUME NEW k \in 1..n PROVE At(s, p + k) = f[k]
        <3> DEFINE j == k - 1
        <3>1. j \in 0..(Len(f) - 1) /\ j + 1 = k /\ p + 1 + j = p + k
            BY <1>1, <2>1
        <3> HIDE DEF j
        <3>2. At(s, p + 1 + j) = f[j + 1]
            BY <2>1, <3>1, HeldAt
        <3> QED BY <3>1, <3>2
    <2> QED BY <2>2, <2>3
<1> HIDE DEF u
<1> QED BY <1>2, <1>3 DEF u

ContextIs(r, p, g, time) ==
    /\ r.p = p + Len(SavedContext(g)) /\ r.scene = g.scene /\ r.room = g.room
    /\ r.room_ptr = g.room_ptr /\ r.obj = g.obj /\ r.obj_ptr = g.obj_ptr
    /\ r.pause = g.pause /\ r.stamp = g.stamp /\ r.timer = Shifted(g.timer, time)

(* The plain blocks are read word for word; the clock goes on from where   *)
(* it was.                                                                 *)
LEMMA ContextRead ==
    ASSUME NEW s, NEW p, NEW g, Kept(g)
    PROVE  /\ SavedContext(g) \in Seq(Int)
           /\ Holds(s, p, SavedContext(g)) => ContextIs(ReadContext(s, p), p, g, At(s, 1))
<1> DEFINE w == SavedContext(g)
<1>1. /\ w \in Seq(Int) /\ Len(w) = 8
      /\ w[1] = g.scene /\ w[2] = g.room /\ w[3] = g.room_ptr /\ w[4] = g.obj
      /\ w[5] = g.obj_ptr /\ w[6] = g.pause /\ w[7] = g.stamp /\ w[8] = g.timer
    BY GameTypes DEF SavedContext
<1> HIDE DEF w
<1>2. ASSUME Holds(s, p, w)
      PROVE  ContextIs(ReadContext(s, p), p, g, At(s, 1))
    <2>1. ASSUME NEW k \in 0..7 PROVE At(s, p + k) = w[k + 1]
        <3>1. k \in 0..(Len(w) - 1)
            BY <1>1
        <3> QED BY <1>2, <3>1, HeldAt
    <2>2. p + 0 = p
        BY <1>2 DEF Holds
    <2>3. /\ At(s, p) = w[1] /\ At(s, p + 1) = w[2] /\ At(s, p + 2) = w[3] /\ At(s, p + 3) = w[4]
          /\ At(s, p + 4) = w[5] /\ At(s, p + 5) = w[6] /\ At(s, p + 6) = w[7] /\ At(s, p + 7) = w[8]
        <3>1. /\ At(s, p + 0) = w[0 + 1] /\ At(s, p + 1) = w[1 + 1] /\ At(s, p + 2) = w[2 + 1]
              /\ At(s, p + 3) = w[3 + 1] /\ At(s, p + 4) = w[4 + 1] /\ At(s, p + 5) = w[5 + 1]
              /\ At(s, p + 6) = w[6 + 1] /\ At(s, p + 7) = w[7 + 1]
            BY <2>1
        <3> QED BY <2>2, <3>1
    <2> QED BY <1>1, <2>3 DEF ReadContext, ContextIs, w
<1> QED BY <1>1, <1>2 DEF w

-----------------------------------------------------------------------------
(* The particles.                                                          *)

(* The place of a particle in the stream, when it is in use. *)
Particle(x) == IF x = Nothing THEN <<>> ELSE <<x>>

SavedParticles(tab) == Sparse([i \in DOMAIN tab |-> Particle(tab[i])])
ReadAsWas(s, p, n, tab) ==
    LET r == ReadSparse(s, p, n, 1)
    IN r.p = p + Len(SavedParticles(tab)) /\ \A i \in 1..n : Entry(s, r.at[i], 0) = tab[i]

(* A table of particles is read as it was. *)
LEMMA ParticleTable ==
    ASSUME NEW n \in Nat, NEW tab \in [1..n -> Int], NEW s, NEW p
    PROVE  /\ SavedParticles(tab) \in Seq(Int)
           /\ Holds(s, p, SavedParticles(tab)) => ReadAsWas(s, p, n, tab)
<1> DEFINE e == [i \in DOMAIN tab |-> Particle(tab[i])]
           r == ReadSparse(s, p, n, 1)
<1> HIDE DEF r
<1>1. e = [i \in 1..n |-> Particle(tab[i])]
    OBVIOUS
<1> HIDE DEF e
<1>2. ASSUME NEW i \in 1..n
      PROVE  /\ e[i] \in Seq(Int) /\ (e[i] = <<>> \/ Len(e[i]) = 1)
             /\ e[i] = <<>> => tab[i] = Nothing
             /\ e[i] # <<>> => e[i][1] = tab[i]
    <2>1. e[i] = Particle(tab[i]) /\ tab[i] \in Int
        BY <1>1
    <2>2. CASE tab[i] = Nothing
        <3>1. e[i] = <<>>
            BY <2>1, <2>2 DEF Particle
        <3> QED BY <2>2, <3>1
    <2>3. CASE tab[i] # Nothing
        <3>1. e[i] = <<tab[i]>>
            BY <2>1, <2>3 DEF Particle
        <3> QED BY <2>1, <3>1
    <2> QED BY <2>2, <2>3
<1>3. e \in [1..n -> Seq(Int)]
    BY <1>1, <1>2
<1>4. e \in Seq(Seq(Int)) /\ Len(e) = n /\ Sparse(e) \in Seq(Int)
    BY <1>3, SparseType
<1>5. ASSUME Holds(s, p, Sparse(e))
      PROVE  r.p = p + Len(Sparse(e)) /\ \A i \in 1..n : Entry(s, r.at[i], 0) = tab[i]
    <2>1. 1 \in Nat \ {0} /\ \A i \in 1..n : e[i] = <<>> \/ Len(e[i]) = 1
        BY <1>2
    <2>2. TableRead(s, p, n, 1, e)
        BY <1>4, <1>5, <2>1, SparseRead
    <2>3. r.p = p + Len(Sparse(e))
        BY <2>2 DEF TableRead, r
    <2>4. \A i \in 1..n, k \in 0..(1 - 1) :
             Entry(s, r.at[i], k) = IF e[i] = <<>> THEN Nothing ELSE e[i][k + 1]
        BY <2>2 DEF TableRead, r
    <2>5. ASSUME NEW i \in 1..n PROVE Entry(s, r.at[i], 0) = tab[i]
        <3>1. 0 \in 0..(1 - 1) /\ 0 + 1 = 1
            OBVIOUS
        <3>2. Entry(s, r.at[i], 0) = IF e[i] = <<>> THEN Nothing ELSE e[i][1]
            BY <2>4, <3>1
        <3> QED BY <1>2, <3>2
    <2> QED BY <2>3, <2>5
<1>6. SavedParticles(tab) = Sparse(e)
    BY DEF SavedParticles, e
<1> QED BY <1>4, <1>5, <1>6 DEF r, ReadAsWas

ParticlesAre(r, p, g) ==
    r.p = p + Len(Particles(g)) /\ r.particle = g.particle /\ r.dot = g.dot

(* The particles are read as they were, however many there are. *)
LEMMA ParticlesRead ==
    ASSUME NEW s, NEW p, NEW g, Kept(g)
    PROVE  /\ Particles(g) \in Seq(Int)
           /\ Holds(s, p, Particles(g)) => ParticlesAre(ReadParticles(s, p), p, g)
<1> DEFINE n == Len(g.particle)
           u == SavedParticles(g.particle)
           v == SavedParticles(g.dot)
           dyn == ReadSparse(s, p + 1, At(s, p), 1)
           dot == ReadSparse(s, dyn.p, 2, 1)
           r == ReadParticles(s, p)
<1>0. r = [particle |-> [i \in 1..At(s, p) |-> Entry(s, dyn.at[i], 0)],
           dot |-> [i \in 1..2 |-> Entry(s, dot.at[i], 0)], p |-> dot.p]
    BY DEF ReadParticles
<1> HIDE DEF r, dyn, dot, n
<1>1. /\ n \in Nat /\ g.particle \in [1..n -> Int] /\ g.dot \in [1..2 -> Int] /\ g.particle \in Seq(Int)
    <2>1. g.particle \in Seq(Int) /\ g.dot \in [1..2 -> Int]
        BY GameTypes
    <2>2. n \in Nat /\ g.particle \in [1..n -> Int]
        BY <2>1, LenProperties DEF n
    <2> QED BY <2>1, <2>2
<1>2. u \in Seq(Int) /\ v \in Seq(Int)
    BY <1>1, ParticleTable
<1>3. Particles(g) = <<n>> \o u \o v
    BY DEF Particles, SavedParticles, Particle, n
<1> HIDE DEF u, v
<1>4. /\ <<n>> \in Seq(Int) /\ Len(<<n>>) = 1
      /\ <<n>> \o u \in Seq(Int) /\ (<<n>> \o u) \o v \in Seq(Int)
      /\ Len(<<n>> \o u) = 1 + Len(u) /\ Len((<<n>> \o u) \o v) = Len(<<n>> \o u) + Len(v)
      /\ Len(u) \in Nat /\ Len(v) \in Nat
    <2>1. <<n>> \in Seq(Int) /\ Len(<<n>>) = 1 /\ Len(u) \in Nat /\ Len(v) \in Nat
        BY <1>1, <1>2, OneWord, LenProperties
    <2>2. <<n>> \o u \in Seq(Int) /\ Len(<<n>> \o u) = 1 + Len(u)
        BY <1>2, <2>1, ConcatProperties
    <2>3. (<<n>> \o u) \o v \in Seq(Int) /\ Len((<<n>> \o u) \o v) = Len(<<n>> \o u) + Len(v)
        BY <1>2, <2>2, ConcatProperties
    <2> QED BY <2>1, <2>2, <2>3
<1>5. ASSUME Holds(s, p, Particles(g))
      PROVE  r.p = p + Len(Particles(g)) /\ r.particle = g.particle /\ r.dot = g.dot
    <2>1. Holds(s, p, <<n>> \o u) /\ Holds(s, p + Len(<<n>> \o u), v)
        BY <1>2, <1>3, <1>4, <1>5, HoldsBoth
    <2>2. Holds(s, p, <<n>>) /\ Holds(s, p + 1, u)
        BY <1>2, <1>4, <2>1, HoldsBoth
    <2>3. At(s, p) = n
        BY <1>1, <2>2, OneWord
    <2>4. dyn = ReadSparse(s, p + 1, n, 1)
        BY <2>3 DEF dyn
    <2>5. dyn.p = p + 1 + Len(u) /\ \A i \in 1..n : Entry(s, dyn.at[i], 0) = g.particle[i]
        <3>1. ReadAsWas(s, p + 1, n, g.particle)
            BY <1>1, <2>2, ParticleTable DEF u
        <3> QED BY <2>4, <3>1 DEF ReadAsWas, u
    <2>6. p \in Nat
        BY <1>5 DEF Holds
    <2>7. p + Len(<<n>> \o u) = dyn.p
        BY <1>4, <2>5, <2>6
    <2>8. Holds(s, dyn.p, v)
        BY <2>1, <2>7
    <2>9. dot.p = dyn.p + Len(v) /\ \A i \in 1..2 : Entry(s, dot.at[i], 0) = g.dot[i]
        <3>1. ReadAsWas(s, dyn.p, 2, g.dot)
            BY <1>1, <2>8, ParticleTable DEF v
        <3> QED BY <3>1 DEF ReadAsWas, v, dot
    <2>10. r.p = p + Len(Particles(g))
        BY <1>0, <1>3, <1>4, <2>5, <2>6, <2>9
    <2>11. r.particle = g.particle
        <3>1. r.particle = [i \in 1..n |-> g.particle[i]]
            BY <1>0, <2>3, <2>5
        <3> QED BY <1>1, <3>1
    <2>12. r.dot = g.dot
        <3>1. r.dot = [i \in 1..2 |-> g.dot[i]]
            BY <1>0, <2>9
        <3> QED BY <1>1, <3>1
    <2> QED BY <2>10, <2>11, <2>12
<1> QED BY <1>3, <1>4, <1>5 DEF r, ParticlesAre

-----------------------------------------------------------------------------
(* The blocks version 8 has added to, and the display lists.               *)

(* A word that version 8 has added. *)
Added(version, x) == IF version >= 8 THEN <<x>> ELSE <<>>

(* It is there from version 8 on.                                          *)
LEMMA AddedWord ==
    ASSUME NEW version \in Nat, NEW x \in Int, NEW s, NEW p
    PROVE  /\ Added(version, x) \in Seq(Int)
           /\ version >= 8 => /\ Len(Added(version, x)) = 1
                              /\ Holds(s, p, Added(version, x)) => At(s, p) = x
           /\ ~(version >= 8) => Len(Added(version, x)) = 0
<1>1. CASE version >= 8
    <2>1. Added(version, x) = <<x>>
        BY <1>1 DEF Added
    <2> QED BY <1>1, <2>1, OneWord
<1>2. CASE ~(version >= 8)
    <2>1. Added(version, x) = <<>>
        BY <1>2 DEF Added
    <2> QED BY <1>2, <2>1
<1> QED BY <1>1, <1>2

CutsceneIs(r, p, g, version) ==
    /\ r.p = p + Len(SavedCutscene(g, version))
    /\ r.wobble = IF version >= 8 THEN g.wobble ELSE z2.wobble
CollisionIs(r, p, g, version) ==
    /\ r.p = p + Len(SavedCollision(g, version))
    /\ r.weather = IF version >= 8 THEN g.weather ELSE z2.weather
DisplayIs(r, p, g) == r.p = p + Len(SavedDisplay(g)) /\ r.disp = g.disp

(* The cutscene's block is as long as the scene restored before tells. *)
LEMMA CutsceneRead ==
    ASSUME NEW s, NEW p, NEW g, Kept(g), NEW version \in Nat
    PROVE  /\ SavedCutscene(g, version) \in Seq(Int)
           /\ Holds(s, p, SavedCutscene(g, version)) =>
                CutsceneIs(ReadCutscene(s, p, g.scene, version), p, g, version)
<1> DEFINE n == Sizes[g.scene]
           a == <<g.stamp>>
           v == Added(version, g.wobble)
           map == [k \in 1..n |-> g.stamp]
           r == ReadCutscene(s, p, g.scene, version)
<1>0. r = IF version >= 8 THEN [wobble |-> At(s, p + 1), p |-> p + 3 + n]
                          ELSE [wobble |-> z2.wobble, p |-> p + 2 + n]
    BY DEF ReadCutscene
<1> HIDE DEF r
<1>1. /\ n \in Nat /\ a \in Seq(Int) /\ Len(a) = 1
      /\ v \in Seq(Int) /\ Len(v) = (IF version >= 8 THEN 1 ELSE 0)
      /\ map \in Seq(Int) /\ Len(map) = n
    <2>1. n \in Nat /\ g.stamp \in Int /\ g.wobble \in Int
        BY GameTypes
    <2> HIDE DEF n
    <2>2. map \in [1..n -> Int]
        BY <2>1
    <2> HIDE DEF map
    <2> QED BY <2>1, <2>2, OneWord, AddedWord, FunctionIsSequence
<1>2. SavedCutscene(g, version) = a \o v \o a \o map
    BY DEF SavedCutscene, Added
<1> HIDE DEF n, a, v, map
<1> DEFINE u1 == a \o v
           u2 == u1 \o a
           u3 == u2 \o map
<1>3. u1 \in Seq(Int) /\ Len(u1) = Len(a) + Len(v)
    BY <1>1, ConcatProperties
<1> HIDE DEF u1
<1>4. u2 \in Seq(Int) /\ Len(u2) = Len(u1) + Len(a)
    BY <1>1, <1>3, ConcatProperties
<1> HIDE DEF u2
<1>5. u3 \in Seq(Int) /\ Len(u3) = Len(u2) + Len(map)
    BY <1>1, <1>4, ConcatProperties
<1> HIDE DEF u3
<1>6. SavedCutscene(g, version) = u3
    BY <1>2 DEF u1, u2, u3
<1>7. ASSUME Holds(s, p, u3)
      PROVE  r.p = p + Len(u3) /\ r.wobble = IF version >= 8 THEN g.wobble ELSE z2.wobble
    <2>1. Holds(s, p, u2)
        BY <1>1, <1>4, <1>7, HoldsBoth DEF u3
    <2>2. Holds(s, p, u1)
        BY <1>1, <1>3, <2>1, HoldsBoth DEF u2
    <2>3. Holds(s, p + 1, v)
        BY <1>1, <2>2, HoldsBoth DEF u1
    <2>4. p \in Nat
        BY <1>7 DEF Holds
    <2>5. CASE version >= 8
        <3>1. At(s, p + 1) = g.wobble
            BY <2>3, <2>5, AddedWord, GameTypes DEF v
        <3>2. Len(u3) = 3 + n
            BY <1>1, <1>3, <1>4, <1>5, <2>5
        <3>3. r.p = p + 3 + n /\ r.wobble = At(s, p + 1)
            BY <1>0, <2>5
        <3> QED BY <1>1, <2>4, <2>5, <3>1, <3>2, <3>3
    <2>6. CASE ~(version >= 8)
        <3>1. Len(u3) = 2 + n
            BY <1>1, <1>3, <1>4, <1>5, <2>6
        <3>2. r.p = p + 2 + n /\ r.wobble = z2.wobble
            BY <1>0, <2>6
        <3> QED BY <1>1, <2>4, <2>6, <3>1, <3>2
    <2> QED BY <2>5, <2>6
<1> QED BY <1>5, <1>6, <1>7 DEF r, CutsceneIs

(* The collision's block is as long as its own header tells. *)
LEMMA CollisionRead ==
    ASSUME NEW s, NEW p, NEW g, Kept(g), NEW version \in Nat
    PROVE  /\ SavedCollision(g, version) \in Seq(Int)
           /\ Holds(s, p, SavedCollision(g, version)) =>
                CollisionIs(ReadCollision(s, p, version), p, g, version)
<1> DEFINE n == g.scene
           boxes == [k \in 1..n |-> k]
           w == WaterBoxes(g)
           a == <<g.stamp>>
           v == Added(version, g.weather)
           sky == p + 1 + At(s, p) + 1
           r == ReadCollision(s, p, version)
<1>0. r = IF version >= 8 THEN [weather |-> At(s, sky), p |-> sky + 1]
                          ELSE [weather |-> z2.weather, p |-> sky]
    BY DEF ReadCollision
<1> HIDE DEF r, sky
<1>1. /\ n \in Nat /\ boxes \in [1..n -> Int] /\ a \in Seq(Int) /\ Len(a) = 1
      /\ v \in Seq(Int) /\ Len(v) = (IF version >= 8 THEN 1 ELSE 0)
    <2>1. n \in Nat /\ g.stamp \in Int /\ g.weather \in Int
        BY GameTypes
    <2> HIDE DEF n
    <2>2. boxes \in [1..n -> Int]
        BY <2>1
    <2> HIDE DEF boxes
    <2> QED BY <2>1, <2>2, OneWord, AddedWord
<1>2. w = <<n>> \o boxes
    BY DEF WaterBoxes
<1> HIDE DEF boxes, n, w
<1>3. w \in Seq(Int) /\ Len(w) = 1 + n /\ (Holds(s, p, w) => At(s, p) = n)
    BY <1>1, <1>2, CountedWords
<1>4. SavedCollision(g, version) = w \o a \o v
    BY DEF SavedCollision, Added, w
<1> HIDE DEF a, v
<1> DEFINE u1 == w \o a
           u2 == u1 \o v
<1>5. u1 \in Seq(Int) /\ Len(u1) = Len(w) + Len(a)
    BY <1>1, <1>3, ConcatProperties
<1> HIDE DEF u1
<1>6. u2 \in Seq(Int) /\ Len(u2) = Len(u1) + Len(v)
    BY <1>1, <1>5, ConcatProperties
<1> HIDE DEF u2
<1>7. SavedCollision(g, version) = u2
    BY <1>4 DEF u1, u2
<1>8. ASSUME Holds(s, p, u2)
      PROVE  r.p = p + Len(u2) /\ r.weather = IF version >= 8 THEN g.weather ELSE z2.weather
    <2>1. Holds(s, p, u1) /\ Holds(s, p + Len(u1), v)
        BY <1>1, <1>5, <1>8, HoldsBoth DEF u2
    <2>2. Holds(s, p, w)
        BY <1>1, <1>3, <2>1, HoldsBoth DEF u1
    <2>3. p \in Nat
        BY <1>8 DEF Holds
    <2>4. sky = p + Len(u1)
        <3>1. sky = p + 1 + n + 1
            BY <1>3, <2>2 DEF sky
        <3> QED BY <1>1, <1>3, <1>5, <2>3, <3>1
    <2>5. Len(u1) \in Nat
        BY <1>5, LenProperties
    <2>6. CASE version >= 8
        <3>1. At(s, sky) = g.weather
            BY <2>1, <2>4, <2>6, AddedWord, GameTypes DEF v
        <3>2. r.p = sky + 1 /\ r.weather = At(s, sky)
            BY <1>0, <2>6
        <3>3. Len(u2) = Len(u1) + 1
            BY <1>1, <1>6, <2>6
        <3> QED BY <2>3, <2>4, <2>5, <2>6, <3>1, <3>2, <3>3
    <2>7. CASE ~(version >= 8)
        <3>1. r.p = sky /\ r.weather = z2.weather
            BY <1>0, <2>7
        <3>2. Len(u2) = Len(u1)
            BY <1>1, <1>6, <2>5, <2>7
        <3> QED BY <2>4, <2>7, <3>1, <3>2
    <2> QED BY <2>6, <2>7
<1> QED BY <1>6, <1>7, <1>8 DEF r, CollisionIs

(* The display lists are as many as were written.                          *)
LEMMA DisplayRead ==
    ASSUME NEW s, NEW p, NEW g, Kept(g)
    PROVE  /\ SavedDisplay(g) \in Seq(Int)
           /\ Holds(s, p, SavedDisplay(g)) => DisplayIs(ReadDisplay(s, p), p, g)
<1> DEFINE n == g.disp
           list == [k \in 1..n |-> g.stamp]
           u == SavedDisplay(g)
           r == ReadDisplay(s, p)
<1>0. r = [disp |-> At(s, p), p |-> p + 1 + At(s, p)]
    BY DEF ReadDisplay
<1> HIDE DEF r
<1>1. n \in Nat /\ list \in [1..n -> Int]
    BY GameTypes
<1>2. u = <<n>> \o list
    BY DEF SavedDisplay
<1> HIDE DEF list, u, n
<1>3. u \in Seq(Int) /\ Len(u) = 1 + n /\ (Holds(s, p, u) => At(s, p) = n)
    BY <1>1, <1>2, CountedWords
<1>4. ASSUME Holds(s, p, u) PROVE r.p = p + Len(u) /\ r.disp = n
    <2>1. p \in Nat /\ At(s, p) = n
        BY <1>3, <1>4 DEF Holds
    <2> QED BY <1>0, <1>1, <1>3, <2>1
<1> QED BY <1>3, <1>4 DEF r, u, n, DisplayIs

-----------------------------------------------------------------------------
(* The sequencer commands.                                                 *)

QueueIs(r, p, g) ==
    LET b == r.queue
        n == (b.wr - b.rd) % RING
    IN /\ r.p = p + Len(Queue(g))
       /\ b.buf \in [0..(RING - 1) -> Int] /\ b.rd \in 0..(RING - 1) /\ b.wr \in 0..(RING - 1)
       /\ [k \in 1..n |-> b.buf[(b.rd + k - 1) % RING]] = Commands(g)

(* Read back, the same commands wait in the queue. *)
LEMMA QueueRead ==
    ASSUME NEW s, NEW p, NEW g, Kept(g), Kept(z2)
    PROVE  /\ Queue(g) \in Seq(Int)
           /\ Holds(s, p, Queue(g)) => QueueIs(ReadQueue(s, p), p, g)
<1> DEFINE n == (g.wr_pos - g.rd_pos) % RING
           waiting == [k \in 1..n |-> g.cmd_buf[(g.rd_pos + k - 1) % RING]]
           u == Queue(g)
           R == RING
           w == z2.wr_pos
           r == ReadQueue(s, p)
           b == r.queue
           buf == [k \in 0..(R - 1) |-> LET m == (k - w) % R IN
                      IF m < At(s, p) THEN At(s, p + 1 + m) ELSE z2.cmd_buf[k]]
<1>0. /\ b.buf = buf /\ b.rd = w /\ b.wr = (w + At(s, p)) % R /\ r.p = p + 1 + At(s, p)
    BY DEF ReadQueue, Queued
<1> HIDE DEF b, r
<1>1. /\ R \in Nat \ {0} /\ w \in 0..(R - 1) /\ z2.cmd_buf \in [0..(R - 1) -> Int]
      /\ g.cmd_buf \in [0..(R - 1) -> Int] /\ g.rd_pos \in 0..(R - 1) /\ g.wr_pos \in 0..(R - 1)
    <2>1. z2 \in Game /\ g \in Game
        BY DEF Kept
    <2> QED BY <2>1, StateAssumption DEF Game
<1> HIDE DEF w
<1>2. n \in 0..(R - 1) /\ \A k \in 1..n : (g.rd_pos + k - 1) % R \in 0..(R - 1)
    <2> DEFINE x == g.rd_pos
               y == g.wr_pos
    <2>1. x \in Int /\ y \in Int /\ R \in Nat \ {0}
        BY <1>1
    <2>2. n = (y - x) % R /\ \A k \in 1..n : (g.rd_pos + k - 1) % R = (x + k - 1) % R
        OBVIOUS
    <2> HIDE DEF n, x, y, R
    <2>3. n \in 0..(R - 1)
        BY <2>1, <2>2, InRing
    <2>4. \A k \in 1..n : (x + k - 1) % R \in 0..(R - 1)
        BY <2>1, InRing
    <2> QED BY <2>2, <2>3, <2>4
<1>3. waiting \in [1..n -> Int]
    BY <1>1, <1>2
<1>4. u = <<n>> \o waiting /\ Commands(g) = waiting
    BY DEF Queue, Commands
<1> HIDE DEF n, waiting, u
<1>5. /\ u \in Seq(Int) /\ Len(u) = 1 + n
      /\ Holds(s, p, u) => At(s, p) = n /\ \A k \in 1..n : At(s, p + k) = waiting[k]
    <2>1. n \in Nat
        BY <1>1, <1>2
    <2> DEFINE U == <<n>> \o waiting
    <2>2. /\ U \in Seq(Int) /\ Len(U) = 1 + n
          /\ Holds(s, p, U) => At(s, p) = n /\ \A k \in 1..n : At(s, p + k) = waiting[k]
        BY <1>3, <2>1, CountedWords
    <2>3. U = u
        BY <1>4
    <2> HIDE DEF U
    <2> QED BY <2>2, <2>3
<1>6. ASSUME Holds(s, p, u)
      PROVE  /\ r.p = p + Len(u)
             /\ b.buf \in [0..(R - 1) -> Int] /\ b.rd \in 0..(R - 1) /\ b.wr \in 0..(R - 1)
             /\ [k \in 1..((b.wr - b.rd) % R) |-> b.buf[(b.rd + k - 1) % R]] = waiting
    <2>1. p \in Nat /\ s \in Seq(Int) /\ At(s, p) = n /\ \A k \in 1..n : At(s, p + k) = waiting[k]
        BY <1>5, <1>6 DEF Holds
    <2>2. r.p = p + Len(u)
        BY <1>0, <1>2, <1>5, <2>1
    <2>3. b.buf \in [0..(R - 1) -> Int]
        <3>1. \A k \in 0..(R - 1) : buf[k] \in Int
            BY <1>1, <2>1, WordType
        <3> QED BY <1>0, <3>1
    <2>4. b.rd = w /\ b.wr = (w + n) % R /\ b.wr \in 0..(R - 1) /\ (b.wr - b.rd) % R = n
        <3>1. (w + n) % R \in 0..(R - 1) /\ (((w + n) % R) - w) % R = n
            BY <1>1, <1>2, PlaceInRing
        <3> QED BY <1>0, <2>1, <3>1
    <2>5. ASSUME NEW k \in 1..n PROVE b.buf[(b.rd + k - 1) % R] = waiting[k]
        <3> DEFINE m == k - 1
                   i == (w + m) % R
        <3>0. n \in 0..(R - 1) /\ R \in Nat \ {0} /\ w \in Int /\ p \in Nat
            BY <1>1, <1>2, <2>1
        <3>1. m \in 0..(R - 1) /\ m < n /\ w + k - 1 = w + m /\ p + 1 + m = p + k
            BY <3>0
        <3> HIDE DEF m
        <3>2. i \in 0..(R - 1) /\ (i - w) % R = m
            BY <1>1, <3>1, PlaceInRing
        <3>3. (b.rd + k - 1) % R = i
            BY <2>4, <3>1
        <3> HIDE DEF i
        <3>4. buf[i] = At(s, p + 1 + m)
            BY <2>1, <3>1, <3>2
        <3> QED BY <1>0, <2>1, <3>1, <3>3, <3>4
    <2>6. waiting = [k \in 1..n |-> waiting[k]]
        BY <1>3
    <2> QED BY <1>1, <2>2, <2>3, <2>4, <2>5, <2>6
<1> QED BY <1>4, <1>5, <1>6 DEF r, b, u, QueueIs

-----------------------------------------------------------------------------
(* The whole stream.                                                       *)

(* These blocks are numbers too.                                           *)
LEMMA OverlayTablesType ==
    ASSUME NEW g, Kept(g)
    PROVE  OverlayTables(g) \in Seq(Int)
<1> DEFINE w == [t \in Tables |-> Sparse(SavedTable(g, t))]
<1>1. ASSUME NEW t \in Tables PROVE Sparse(SavedTable(g, t)) \in Seq(Int)
    <2> DEFINE e == SavedTable(g, t)
    <2>1. e \in [1..2 -> Seq(Int)]
        BY SavedType
    <2> HIDE DEF e
    <2>2. Sparse(e) \in Seq(Int)
        BY <2>1, SparseType
    <2> QED BY <2>2 DEF e
<1>2. w \in [1..3 -> Seq(Int)]
    BY <1>1 DEF Tables
<1>3. OverlayTables(g) = FlattenSeq(w)
    BY DEF OverlayTables, SavedTable, Saved
<1> HIDE DEF w
<1>4. w \in Seq(Seq(Int))
    BY <1>2, FunctionIsSequence
<1> QED BY <1>3, <1>4, FlattenType

LEMMA ArenaType ==
    ASSUME NEW g, Kept(g)
    PROVE  Arena(g) \in Seq(Int)
<1> DEFINE n == Len(g.nodes)
           w == [k \in DOMAIN g.nodes |-> ArenaNode(g, g.nodes[k])]
           a == <<g.nodes[1].at>>
<1>1. n \in Nat \ {0} /\ DOMAIN g.nodes = 1..n /\ \A k \in 1..n : g.nodes[k].at \in Nat
    BY NodeTypes
<1>2. \A k \in 1..n : ArenaNode(g, g.nodes[k]) \in Seq(Int)
    BY NodeHeld
<1>3. w \in [1..n -> Seq(Int)]
    BY <1>1, <1>2
<1>4. a \in Seq(Int) /\ <<End>> \in Seq(Int)
    <2>1. 1 \in 1..n
        BY <1>1
    <2>2. g.nodes[1].at \in Int
        BY <1>1, <2>1
    <2> QED BY <2>2, OneWord DEF End
<1>5. Arena(g) = a \o FlattenSeq(w) \o <<End>>
    BY DEF Arena
<1> HIDE DEF w, a
<1>6. w \in Seq(Seq(Int))
    BY <1>1, <1>3, FunctionIsSequence
<1> DEFINE F == FlattenSeq(w)
<1>7. F \in Seq(Int)
    BY <1>6, FlattenType
<1> HIDE DEF F
<1>8. (a \o F) \o <<End>> \in Seq(Int)
    BY <1>4, <1>7, ConcatProperties
<1> QED BY <1>5, <1>8 DEF F

(* The words of the sound, behind the time of the save. *)
LEMMA SoundRead ==
    ASSUME NEW g, Kept(g), NEW s, NEW p
    PROVE  /\ SavedSound(g) \in Seq(Int) /\ Len(SavedSound(g)) = 3
           /\ Holds(s, p, SavedSound(g)) => At(s, p) = g.seq /\ At(s, p + 2) = g.afx_cfg
<1> DEFINE w == SavedSound(g)
<1>1. w \in Seq(Int) /\ Len(w) = 3 /\ w[1] = g.seq /\ w[3] = g.afx_cfg
    BY GameTypes DEF SavedSound
<1> HIDE DEF w
<1>2. ASSUME Holds(s, p, w) PROVE At(s, p) = g.seq /\ At(s, p + 2) = g.afx_cfg
    <2>1. 0 \in 0..(Len(w) - 1) /\ 2 \in 0..(Len(w) - 1) /\ p + 0 = p
        BY <1>1, <1>2 DEF Holds
    <2>2. At(s, p + 0) = w[0 + 1] /\ At(s, p + 2) = w[2 + 1]
        BY <1>2, <2>1, HeldAt
    <2> QED BY <1>1, <2>1, <2>2
<1> QED BY <1>1, <1>2 DEF w

(* What the reader has of a stream, and where it ends. *)
MomentRead(s, g, version, time) ==
    LET r == Read(s, version) IN
    /\ s \in Seq(Int) /\ At(s, 1) = time /\ At(s, 2) = g.seq /\ At(s, 4) = g.afx_cfg
    /\ r.ovl.cnt = g.loaded_cnt /\ r.ovl.ovl = g.ovl
    /\ \A t \in Tables, i \in Entries :
          g.ovl[t][i] # Nothing => r.ovl.own[t][i] = g.cell[g.ovl[t][i]]
    /\ ContextIs(r.ctx, r.ovl.p, g, time) /\ ArenaIs(r.arena, r.ctx.p, g)
    /\ ParticlesAre(r.prt, r.arena.p, g) /\ CutsceneIs(r.cut, r.prt.p, g, version)
    /\ CollisionIs(r.col, r.cut.p, g, version) /\ DisplayIs(r.disp, r.col.p, g)
    /\ QueueIs(r.queue, r.disp.p, g) /\ r.queue.p = Len(s)

(* The stream is read to its end, and each block as it was written. *)
LEMMA StreamRead ==
    ASSUME NEW g, Kept(g), Kept(z2), NEW version \in Nat, NEW time \in Int
    PROVE  MomentRead(save_state(g, version, time), g, version, time)
<1> DEFINE s == save_state(g, version, time)
           w1 == <<time>>
           w2 == SavedSound(g)
           w3 == OverlayTables(g)
           w4 == SavedContext(g)
           w5 == Arena(g)
           w6 == Particles(g)
           w7 == SavedCutscene(g, version)
           w8 == SavedCollision(g, version)
           w9 == SavedDisplay(g)
           w10 == Queue(g)
           w11 == <<g.stamp>>
           u1 == w1
           u2 == u1 \o w2
           u3 == u2 \o w3
           u4 == u3 \o w4
           u5 == u4 \o w5
           u6 == u5 \o w6
           u7 == u6 \o w7
           u8 == u7 \o w8
           u9 == u8 \o w9
           u10 == u9 \o w10
           u11 == u10 \o w11
<1>1. s = u11
    BY DEF save_state
<1>2. /\ w1 \in Seq(Int) /\ w2 \in Seq(Int) /\ w3 \in Seq(Int) /\ w4 \in Seq(Int) /\ w5 \in Seq(Int)
      /\ w6 \in Seq(Int) /\ w7 \in Seq(Int) /\ w8 \in Seq(Int) /\ w9 \in Seq(Int)
      /\ w10 \in Seq(Int) /\ w11 \in Seq(Int) /\ Len(w1) = 1 /\ Len(w2) = 3 /\ Len(w11) = 1
    BY GameTypes, OneWord, SoundRead, OverlayTablesType, ContextRead, ArenaType, ParticlesRead,
       CutsceneRead, CollisionRead, DisplayRead, QueueRead
<1> HIDE DEF s, w1, w2, w3, w4, w5, w6, w7, w8, w9, w10, w11
<1>3. u1 \in Seq(Int) /\ Len(u1) = 1
    BY <1>2
<1> HIDE DEF u1
<1>4. u2 \in Seq(Int) /\ Len(u2) = Len(u1) + Len(w2)
    BY <1>2, <1>3, ConcatProperties
<1> HIDE DEF u2
<1>5. u3 \in Seq(Int) /\ Len(u3) = Len(u2) + Len(w3)
    BY <1>2, <1>4, ConcatProperties
<1> HIDE DEF u3
<1>6. u4 \in Seq(Int) /\ Len(u4) = Len(u3) + Len(w4)
    BY <1>2, <1>5, ConcatProperties
<1> HIDE DEF u4
<1>7. u5 \in Seq(Int) /\ Len(u5) = Len(u4) + Len(w5)
    BY <1>2, <1>6, ConcatProperties
<1> HIDE DEF u5
<1>8. u6 \in Seq(Int) /\ Len(u6) = Len(u5) + Len(w6)
    BY <1>2, <1>7, ConcatProperties
<1> HIDE DEF u6
<1>9. u7 \in Seq(Int) /\ Len(u7) = Len(u6) + Len(w7)
    BY <1>2, <1>8, ConcatProperties
<1> HIDE DEF u7
<1>10. u8 \in Seq(Int) /\ Len(u8) = Len(u7) + Len(w8)
    BY <1>2, <1>9, ConcatProperties
<1> HIDE DEF u8
<1>11. u9 \in Seq(Int) /\ Len(u9) = Len(u8) + Len(w9)
    BY <1>2, <1>10, ConcatProperties
<1> HIDE DEF u9
<1>12. u10 \in Seq(Int) /\ Len(u10) = Len(u9) + Len(w10)
    BY <1>2, <1>11, ConcatProperties
<1> HIDE DEF u10
<1>13. u11 \in Seq(Int) /\ Len(u11) = Len(u10) + Len(w11)
    BY <1>2, <1>12, ConcatProperties
<1> HIDE DEF u11
<1>14. s \in Seq(Int) /\ Len(s) \in Nat /\ DOMAIN s = 1..Len(s)
    BY <1>1, <1>13, LenProperties
<1>15. Holds(s, 1, u11)
    <2>1. \A k \in 1..Len(s) : 1 + k - 1 = k
        BY <1>14
    <2> QED BY <1>1, <1>14, <2>1 DEF Holds
<1>16. Holds(s, 1, u10) /\ Holds(s, 1 + Len(u10), w11)
    BY <1>2, <1>12, <1>15, HoldsBoth DEF u11
<1>17. Holds(s, 1, u9) /\ Holds(s, 1 + Len(u9), w10)
    BY <1>2, <1>11, <1>16, HoldsBoth DEF u10
<1>18. Holds(s, 1, u8) /\ Holds(s, 1 + Len(u8), w9)
    BY <1>2, <1>10, <1>17, HoldsBoth DEF u9
<1>19. Holds(s, 1, u7) /\ Holds(s, 1 + Len(u7), w8)
    BY <1>2, <1>9, <1>18, HoldsBoth DEF u8
<1>20. Holds(s, 1, u6) /\ Holds(s, 1 + Len(u6), w7)
    BY <1>2, <1>8, <1>19, HoldsBoth DEF u7
<1>21. Holds(s, 1, u5) /\ Holds(s, 1 + Len(u5), w6)
    BY <1>2, <1>7, <1>20, HoldsBoth DEF u6
<1>22. Holds(s, 1, u4) /\ Holds(s, 1 + Len(u4), w5)
    BY <1>2, <1>6, <1>21, HoldsBoth DEF u5
<1>23. Holds(s, 1, u3) /\ Holds(s, 1 + Len(u3), w4)
    BY <1>2, <1>5, <1>22, HoldsBoth DEF u4
<1>24. Holds(s, 1, u2) /\ Holds(s, 1 + Len(u2), w3)
    BY <1>2, <1>4, <1>23, HoldsBoth DEF u3
<1>25. Holds(s, 1, u1) /\ Holds(s, 1 + Len(u1), w2)
    BY <1>2, <1>3, <1>24, HoldsBoth DEF u2
<1>26. Len(u1) = 1 /\ Len(u2) = 4
    BY <1>2, <1>3, <1>4
<1>27. At(s, 1) = time
    BY <1>25, OneWord DEF u1, w1
<1>28. At(s, 2) = g.seq /\ At(s, 4) = g.afx_cfg
    <2>1. Holds(s, 2, w2)
        BY <1>3, <1>25
    <2>2. At(s, 2) = g.seq /\ At(s, 2 + 2) = g.afx_cfg
        BY <2>1, SoundRead DEF w2
    <2> QED BY <2>2
<1> DEFINE ovl == ReadOverlays(s, 5)
           ctx == ReadContext(s, ovl.p)
           arena == ReadArena(s, ctx.p, ovl.ovl)
           prt == ReadParticles(s, arena.p)
           cut == ReadCutscene(s, prt.p, ctx.scene, version)
           col == ReadCollision(s, cut.p, version)
           disp == ReadDisplay(s, col.p)
           queue == ReadQueue(s, disp.p)
           r == Read(s, version)
<1>29. r = [ovl |-> ovl, ctx |-> ctx, arena |-> arena, prt |-> prt, cut |-> cut, col |-> col,
            disp |-> disp, queue |-> queue]
    BY DEF Read
<1> HIDE DEF r, ovl, ctx, arena, prt, cut, col, disp, queue
<1>30. OverlaysAre(ovl, 5, g) /\ ovl.p = 1 + Len(u3)
    <2>1. Holds(s, 5, w3)
        BY <1>26, <1>24
    <2>3. OverlaysAre(ovl, 5, g)
        BY <2>1, OverlaysRead DEF w3, ovl
    <2>4. ovl.p = 5 + Len(w3)
        BY <2>3 DEF OverlaysAre, w3
    <2>5. Len(u2) \in Nat /\ Len(w3) \in Nat
        BY <1>2, <1>4, LenProperties
    <2> QED BY <1>26, <1>5, <2>3, <2>4, <2>5
<1>31. ContextIs(ctx, ovl.p, g, time) /\ ctx.p = 1 + Len(u4)
    <2>1. Holds(s, ovl.p, w4)
        BY <1>23, <1>30
    <2>3. ContextIs(ctx, ovl.p, g, time)
        BY <1>27, <2>1, ContextRead DEF w4, ctx
    <2>4. ctx.p = ovl.p + Len(w4)
        BY <2>3 DEF ContextIs, w4
    <2>5. Len(u3) \in Nat /\ Len(w4) \in Nat
        BY <1>2, <1>5, LenProperties
    <2> QED BY <1>30, <1>6, <2>3, <2>4, <2>5
<1>32. ArenaIs(arena, ctx.p, g) /\ arena.p = 1 + Len(u5)
    <2>1. Holds(s, ctx.p, w5)
        BY <1>22, <1>31
    <2>2. arena = ReadArena(s, ctx.p, g.ovl)
        BY <1>30 DEF arena, OverlaysAre
    <2>3. ArenaIs(arena, ctx.p, g)
        BY <2>1, <2>2, ArenaRead DEF w5
    <2>4. arena.p = ctx.p + Len(w5)
        BY <2>3 DEF ArenaIs, w5
    <2>5. Len(u4) \in Nat /\ Len(w5) \in Nat
        BY <1>2, <1>6, LenProperties
    <2> QED BY <1>31, <1>7, <2>3, <2>4, <2>5
<1>33. ParticlesAre(prt, arena.p, g) /\ prt.p = 1 + Len(u6)
    <2>1. Holds(s, arena.p, w6)
        BY <1>21, <1>32
    <2>3. ParticlesAre(prt, arena.p, g)
        BY <2>1, ParticlesRead DEF w6, prt
    <2>4. prt.p = arena.p + Len(w6)
        BY <2>3 DEF ParticlesAre, w6
    <2>5. Len(u5) \in Nat /\ Len(w6) \in Nat
        BY <1>2, <1>7, LenProperties
    <2> QED BY <1>32, <1>8, <2>3, <2>4, <2>5
<1>34. CutsceneIs(cut, prt.p, g, version) /\ cut.p = 1 + Len(u7)
    <2>1. Holds(s, prt.p, w7)
        BY <1>20, <1>33
    <2>2. cut = ReadCutscene(s, prt.p, g.scene, version)
        BY <1>31 DEF cut, ContextIs
    <2>3. CutsceneIs(cut, prt.p, g, version)
        BY <2>1, <2>2, CutsceneRead DEF w7
    <2>4. cut.p = prt.p + Len(w7)
        BY <2>3 DEF CutsceneIs, w7
    <2>5. Len(u6) \in Nat /\ Len(w7) \in Nat
        BY <1>2, <1>8, LenProperties
    <2> QED BY <1>33, <1>9, <2>3, <2>4, <2>5
<1>35. CollisionIs(col, cut.p, g, version) /\ col.p = 1 + Len(u8)
    <2>1. Holds(s, cut.p, w8)
        BY <1>19, <1>34
    <2>3. CollisionIs(col, cut.p, g, version)
        BY <2>1, CollisionRead DEF w8, col
    <2>4. col.p = cut.p + Len(w8)
        BY <2>3 DEF CollisionIs, w8
    <2>5. Len(u7) \in Nat /\ Len(w8) \in Nat
        BY <1>2, <1>9, LenProperties
    <2> QED BY <1>34, <1>10, <2>3, <2>4, <2>5
<1>36. DisplayIs(disp, col.p, g) /\ disp.p = 1 + Len(u9)
    <2>1. Holds(s, col.p, w9)
        BY <1>18, <1>35
    <2>3. DisplayIs(disp, col.p, g)
        BY <2>1, DisplayRead DEF w9, disp
    <2>4. disp.p = col.p + Len(w9)
        BY <2>3 DEF DisplayIs, w9
    <2>5. Len(u8) \in Nat /\ Len(w9) \in Nat
        BY <1>2, <1>10, LenProperties
    <2> QED BY <1>35, <1>11, <2>3, <2>4, <2>5
<1>37. QueueIs(queue, disp.p, g) /\ queue.p = 1 + Len(u10)
    <2>1. Holds(s, disp.p, w10)
        BY <1>17, <1>36
    <2>3. QueueIs(queue, disp.p, g)
        BY <2>1, QueueRead DEF w10, queue
    <2>4. queue.p = disp.p + Len(w10)
        <3>1. queue.p = disp.p + 1 + At(s, disp.p)
            BY DEF queue, ReadQueue
        <3> QED BY <2>3, <3>1 DEF QueueIs, w10
    <2>5. Len(u9) \in Nat /\ Len(w10) \in Nat
        BY <1>2, <1>11, LenProperties
    <2> QED BY <1>36, <1>12, <2>3, <2>4, <2>5
<1>38. queue.p = Len(s)
    <2>1. Len(s) = Len(u10) + 1 /\ Len(u10) \in Nat
        BY <1>1, <1>2, <1>12, <1>13, LenProperties
    <2> QED BY <1>37, <2>1
<1> QED BY <1>14, <1>27, <1>28, <1>29, <1>30, <1>31, <1>32, <1>33, <1>34, <1>35, <1>36, <1>37, <1>38
    DEF MomentRead, OverlaysAre, r, s

-----------------------------------------------------------------------------
(* What a load makes of it.                                                *)

(* Overlays lie in memory, each by itself.                                 *)
LEMMA OverlayTypes ==
    ASSUME NEW g, Kept(g)
    PROVE  /\ g.ovl \in [Tables -> [Entries -> Addresses \cup {Nothing}]]
           /\ Addresses \subseteq Nat \ {0} /\ Nothing \notin Addresses
           /\ \A t \in Tables, i \in Entries : g.ovl[t][i] # Nothing => g.ovl[t][i] \in Addresses
           /\ \A t, u \in Tables, i, j \in Entries :
                 g.ovl[t][i] = g.ovl[u][j] /\ g.ovl[t][i] # Nothing => t = u /\ i = j
<1>1. g \in Game
    BY DEF Kept
<1>2. g.ovl \in [Tables -> [Entries -> Addresses \cup {Nothing}]]
    BY <1>1 DEF Game
<1>3. Addresses \subseteq Nat \ {0} /\ Nothing \notin Addresses
    BY StateAssumption DEF Addresses, Nothing
<1>4. \A t \in Tables, i \in Entries : g.ovl[t][i] # Nothing => g.ovl[t][i] \in Addresses
    BY <1>2
<1>5. \A t, u \in Tables, i, j \in Entries :
         g.ovl[t][i] = g.ovl[u][j] /\ g.ovl[t][i] # Nothing => t = u /\ i = j
    BY DEF Kept
<1> QED BY <1>2, <1>3, <1>4, <1>5

(* The entry of the overlay that lies at an address. *)
EntryAt(ovl, a) == CHOOSE e \in Tables \X Entries : ovl[e[1]][e[2]] = a

(* Only one overlay lies at an address.                                    *)
LEMMA OnlyEntryAt ==
    ASSUME NEW g, Kept(g), NEW t \in Tables, NEW i \in Entries, g.ovl[t][i] # Nothing
    PROVE  EntryAt(g.ovl, g.ovl[t][i]) = <<t, i>>
<1> DEFINE a == g.ovl[t][i]
           e == EntryAt(g.ovl, a)
<1>1. \E d \in Tables \X Entries : g.ovl[d[1]][d[2]] = a
    <2>1. <<t, i>> \in Tables \X Entries /\ g.ovl[<<t, i>>[1]][<<t, i>>[2]] = a
        OBVIOUS
    <2> QED BY <2>1
<1>2. e \in Tables \X Entries /\ g.ovl[e[1]][e[2]] = a
    BY <1>1 DEF EntryAt
<1> HIDE DEF e
<1>3. e[1] \in Tables /\ e[2] \in Entries /\ e = <<e[1], e[2]>>
    BY <1>2
<1>4. e[1] = t /\ e[2] = i
    BY <1>2, <1>3, OverlayTypes
<1> QED BY <1>3, <1>4 DEF e

(* No overlay lies in what the arena gave back. *)
LEMMA OverlaysOutside ==
    ASSUME NEW g, Kept(g), NEW k \in 1..Len(g.nodes),
           NEW a \in g.nodes[k].at..(g.nodes[k].at + Words(g, g.nodes[k]) - 1)
    PROVE  a \notin OverlayAt(g.ovl)
<1> DEFINE node == g.nodes[k]
<1>1. /\ node.at \in Nat \ {0} /\ node.size \in Nat \ {0} /\ node.free \in Int
      /\ Words(g, node) \in Nat /\ k \in DOMAIN g.nodes
    BY NodeTypes
<1>2. node.free = 0 /\ node.size > 1 =>
         \A x \in OverlayAt(g.ovl) : x < node.at \/ x >= node.at + node.size
    BY <1>1 DEF Kept
<1>3. a \in node.at..(node.at + Words(g, node) - 1)
    OBVIOUS
<1> HIDE DEF node
<1>4. node.free = 0 /\ node.at \notin OverlayAt(g.ovl) /\ Words(g, node) = node.size
    BY <1>1, <1>3 DEF Words
<1>5. CASE node.size > 1
    <2>1. ~(a < node.at) /\ ~(a >= node.at + node.size)
        BY <1>1, <1>3, <1>4
    <2> QED BY <1>2, <1>4, <1>5, <2>1
<1>6. CASE ~(node.size > 1)
    <2>1. a = node.at
        BY <1>1, <1>3, <1>4, <1>6
    <2> QED BY <1>4, <2>1
<1> QED BY <1>5, <1>6

(* What lies in memory in use is an overlay's or a node's whose memory is  *)
(* in the stream.                                                          *)
LEMMA UsedIsSaved ==
    ASSUME NEW g, Kept(g), NEW a \in UsedCells(g) \ {Nothing}, a \notin OverlayAt(g.ovl)
    PROVE  a \in Addresses /\ \E k \in 1..Len(g.nodes) :
              a \in g.nodes[k].at..(g.nodes[k].at + Words(g, g.nodes[k]) - 1)
<1>1. PICK k \in 1..Len(g.nodes) :
         g.nodes[k].free = 0 /\ a \in g.nodes[k].at..(g.nodes[k].at + g.nodes[k].size - 1)
    <2>1. DOMAIN g.nodes = 1..Len(g.nodes)
        BY NodeTypes
    <2> QED BY <2>1 DEF UsedCells
<1> DEFINE node == g.nodes[k]
<1>2. /\ node.at \in Nat \ {0} /\ node.size \in Nat \ {0} /\ node.free = 0
      /\ a \in node.at..(node.at + node.size - 1)
      /\ \A x \in node.at..(node.at + node.size - 1) : x \in Addresses
      /\ node.size > 1 => \A x \in OverlayAt(g.ovl) : x < node.at \/ x >= node.at + node.size
    <2>1. k \in DOMAIN g.nodes
        BY NodeTypes
    <2> QED BY <1>1, <2>1, NodeTypes DEF Kept
<1> HIDE DEF node
<1>3. node.at \notin OverlayAt(g.ovl)
    <2>1. CASE node.size > 1
        <3>1. ~(node.at < node.at) /\ ~(node.at >= node.at + node.size)
            BY <1>2
        <3> QED BY <1>2, <2>1, <3>1
    <2>2. CASE ~(node.size > 1)
        <3>1. a = node.at
            BY <1>2, <2>2
        <3> QED BY <3>1
    <2> QED BY <2>1, <2>2
<1>4. Words(g, node) = node.size
    BY <1>2, <1>3 DEF Words
<1>5. a \in Addresses /\ a \in node.at..(node.at + Words(g, node) - 1)
    BY <1>2, <1>4
<1> QED BY <1>5 DEF node

BlocksAre(h, g, version, time) ==
    /\ h.stamp = g.stamp /\ h.seq = Music(g.seq, g.afx_cfg) /\ h.afx_cfg = g.afx_cfg
    /\ h.ovl = g.ovl /\ h.loaded_cnt = g.loaded_cnt /\ h.scene = g.scene /\ h.room = g.room
    /\ h.room_ptr = g.room_ptr /\ h.obj = g.obj /\ h.obj_ptr = g.obj_ptr /\ h.pause = g.pause
    /\ h.timer = Shifted(g.timer, time) /\ h.nodes = g.nodes
    /\ h.particle = g.particle /\ h.dot = g.dot /\ h.disp = g.disp
    /\ h.wobble = (IF version >= 8 THEN g.wobble ELSE z2.wobble)
    /\ h.weather = (IF version >= 8 THEN g.weather ELSE z2.weather)
    /\ h.water = (IF g.scene # z2.scene THEN Nothing ELSE z2.water)
    /\ h.cmd_buf \in [0..(RING - 1) -> Int] /\ h.rd_pos \in 0..(RING - 1)
    /\ h.wr_pos \in 0..(RING - 1) /\ Commands(h) = Commands(g)

(* What a load makes of the stream, block by block: the moment that was    *)
(* saved, with the clock shifted and the commands behind the ones that were*)
(* played.                                                                 *)
LEMMA RestoredBlocks ==
    ASSUME NEW s, NEW g, Kept(g), Kept(z2), NEW version \in Nat, NEW time \in Int,
           MomentRead(s, g, version, time)
    PROVE  BlocksAre(Restored(s, Read(s, version)), g, version, time)
<1> DEFINE r == Read(s, version)
           h == Restored(s, r)
<1> HIDE DEF r
<1>1. /\ At(s, 2) = g.seq /\ At(s, 4) = g.afx_cfg /\ r.ovl.cnt = g.loaded_cnt /\ r.ovl.ovl = g.ovl
      /\ ContextIs(r.ctx, r.ovl.p, g, time) /\ ArenaIs(r.arena, r.ctx.p, g)
      /\ ParticlesAre(r.prt, r.arena.p, g) /\ CutsceneIs(r.cut, r.prt.p, g, version)
      /\ CollisionIs(r.col, r.cut.p, g, version) /\ DisplayIs(r.disp, r.col.p, g)
      /\ QueueIs(r.queue, r.disp.p, g)
    BY DEF MomentRead, r
<1>2. /\ h.stamp = r.ctx.stamp /\ h.seq = Music(At(s, 2), At(s, 4)) /\ h.afx_cfg = At(s, 4)
      /\ h.ovl = r.ovl.ovl /\ h.loaded_cnt = r.ovl.cnt
      /\ h.scene = r.ctx.scene /\ h.room = r.ctx.room /\ h.room_ptr = r.ctx.room_ptr
      /\ h.obj = r.ctx.obj /\ h.obj_ptr = r.ctx.obj_ptr /\ h.pause = r.ctx.pause /\ h.timer = r.ctx.timer
      /\ h.nodes = r.arena.nodes /\ h.particle = r.prt.particle /\ h.dot = r.prt.dot
      /\ h.wobble = r.cut.wobble /\ h.weather = r.col.weather
      /\ h.water = (IF r.ctx.scene # z2.scene THEN Nothing ELSE z2.water)
      /\ h.disp = r.disp.disp /\ h.cmd_buf = r.queue.queue.buf /\ h.rd_pos = r.queue.queue.rd
      /\ h.wr_pos = r.queue.queue.wr
    BY DEF Restored
<1> HIDE DEF h
<1>3. /\ h.stamp = g.stamp /\ h.scene = g.scene /\ h.room = g.room
      /\ h.room_ptr = g.room_ptr /\ h.obj = g.obj /\ h.obj_ptr = g.obj_ptr /\ h.pause = g.pause
      /\ h.timer = Shifted(g.timer, time) /\ h.water = (IF g.scene # z2.scene THEN Nothing ELSE z2.water)
    BY <1>1, <1>2 DEF ContextIs
<1>4. h.seq = Music(g.seq, g.afx_cfg) /\ h.afx_cfg = g.afx_cfg /\ h.ovl = g.ovl /\ h.loaded_cnt = g.loaded_cnt
    BY <1>1, <1>2
<1>5. h.nodes = g.nodes /\ h.particle = g.particle /\ h.dot = g.dot /\ h.disp = g.disp
    BY <1>1, <1>2 DEF ArenaIs, ParticlesAre, DisplayIs
<1>6. /\ h.wobble = (IF version >= 8 THEN g.wobble ELSE z2.wobble)
      /\ h.weather = (IF version >= 8 THEN g.weather ELSE z2.weather)
    BY <1>1, <1>2 DEF CutsceneIs, CollisionIs
<1>7. /\ h.cmd_buf \in [0..(RING - 1) -> Int] /\ h.rd_pos \in 0..(RING - 1)
      /\ h.wr_pos \in 0..(RING - 1) /\ Commands(h) = Commands(g)
    <2> DEFINE b == r.queue.queue
    <2>1. /\ b.buf \in [0..(RING - 1) -> Int] /\ b.rd \in 0..(RING - 1) /\ b.wr \in 0..(RING - 1)
          /\ [k \in 1..((b.wr - b.rd) % RING) |-> b.buf[(b.rd + k - 1) % RING]] = Commands(g)
        BY <1>1 DEF QueueIs
    <2>2. h.cmd_buf = b.buf /\ h.rd_pos = b.rd /\ h.wr_pos = b.wr
        BY <1>2
    <2>3. Commands(h) = [k \in 1..((b.wr - b.rd) % RING) |-> b.buf[(b.rd + k - 1) % RING]]
        BY <2>2 DEF Commands
    <2> QED BY <2>1, <2>2, <2>3
<1> QED BY <1>3, <1>4, <1>5, <1>6, <1>7 DEF h, r, BlocksAre

CellsAre(h, g) ==
    h.cell \in [Addresses -> Int] /\ \A a \in UsedCells(g) \ {Nothing} : h.cell[a] = g.cell[a]
LoadedCells(ovl, own, cells) ==
    [a \in Addresses |->
        IF a \in OverlayAt(ovl) THEN LET e == EntryAt(ovl, a) IN own[e[1]][e[2]]
        ELSE IF a \in DOMAIN cells THEN cells[a] ELSE z2.cell[a]]

(* The memory after a load, address by address. *)
LEMMA RestoredCells ==
    ASSUME NEW s, NEW g, Kept(g), Kept(z2), NEW version \in Nat, NEW time \in Int,
           MomentRead(s, g, version, time)
    PROVE  CellsAre(Restored(s, Read(s, version)), g)
<1> DEFINE r == Read(s, version)
           h == Restored(s, r)
           cells == r.arena.cells
           own(a) == LET e == EntryAt(g.ovl, a) IN r.ovl.own[e[1]][e[2]]
           InNode(a) == \E k \in 1..Len(g.nodes) :
              a \in g.nodes[k].at..(g.nodes[k].at + Words(g, g.nodes[k]) - 1)
<1> HIDE DEF r
<1>1. /\ r.ovl.ovl = g.ovl /\ ArenaIs(r.arena, r.ctx.p, g)
      /\ \A t \in Tables, i \in Entries :
            g.ovl[t][i] # Nothing => r.ovl.own[t][i] = g.cell[g.ovl[t][i]]
    BY DEF MomentRead, r
<1>2. h.cell = [a \in Addresses |-> IF a \in OverlayAt(g.ovl) THEN own(a)
                                    ELSE IF a \in DOMAIN cells THEN cells[a] ELSE z2.cell[a]]
    <2>1. h.cell = LoadedCells(r.ovl.ovl, r.ovl.own, r.arena.cells)
        BY DEF Restored, EntryAt, LoadedCells
    <2> HIDE DEF h
    <2>2. h.cell = LoadedCells(g.ovl, r.ovl.own, r.arena.cells)
        BY <1>1, <2>1
    <2> QED BY <2>2 DEF LoadedCells
<1>3. ASSUME NEW a, a \in OverlayAt(g.ovl), a # Nothing PROVE a \in Addresses /\ own(a) = g.cell[a]
    <2>1. PICK t \in Tables, i \in Entries : g.ovl[t][i] = a
        BY <1>3 DEF OverlayAt
    <2>2. EntryAt(g.ovl, a) = <<t, i>>
        BY <1>3, <2>1, OnlyEntryAt
    <2>3. own(a) = r.ovl.own[t][i]
        BY <2>2
    <2> QED BY <1>1, <1>3, <2>1, <2>3, OverlayTypes
<1> HIDE DEF h, own, cells
<1>4. /\ \A a : a \in DOMAIN cells <=> InNode(a)
      /\ \A a \in DOMAIN cells : cells[a] = g.cell[a]
    BY <1>1 DEF ArenaIs, cells
<1> HIDE DEF InNode
<1>5. g.cell \in [Addresses -> Int] /\ z2.cell \in [Addresses -> Int]
    BY DEF Kept, Game
<1>6. \A a \in Addresses :
         h.cell[a] = IF a \in OverlayAt(g.ovl) \/ a \in DOMAIN cells THEN g.cell[a] ELSE z2.cell[a]
    <2> SUFFICES ASSUME NEW a \in Addresses
                 PROVE  h.cell[a] = IF a \in OverlayAt(g.ovl) \/ a \in DOMAIN cells THEN g.cell[a] ELSE z2.cell[a]
        OBVIOUS
    <2>1. a # Nothing
        BY OverlayTypes
    <2>2. h.cell[a] = IF a \in OverlayAt(g.ovl) THEN own(a)
                      ELSE IF a \in DOMAIN cells THEN cells[a] ELSE z2.cell[a]
        BY <1>2
    <2> QED BY <1>3, <1>4, <2>1, <2>2
<1>7. h.cell \in [Addresses -> Int]
    <2>1. \A a \in Addresses : h.cell[a] \in Int
        BY <1>5, <1>6
    <2>2. h.cell = [a \in Addresses |-> h.cell[a]]
        BY <1>2
    <2> QED BY <2>1, <2>2
<1>8. ASSUME NEW a \in UsedCells(g) \ {Nothing} PROVE h.cell[a] = g.cell[a]
    <2>1. CASE a \in OverlayAt(g.ovl)
        BY <1>3, <1>6, <1>8, <2>1
    <2>2. CASE a \notin OverlayAt(g.ovl)
        <3>1. a \in Addresses /\ InNode(a)
            BY <2>2, UsedIsSaved DEF InNode
        <3> QED BY <1>4, <1>6, <3>1
    <2> QED BY <2>1, <2>2
<1> QED BY <1>7, <1>8 DEF h, r, CellsAre

(* What plays after a load is what played when it was saved.               *)
LEMMA MusicType ==
    ASSUME NEW seq \in Int, NEW cfg \in Int, z2.seq \in Int
    PROVE  Music(seq, cfg) \in Int /\ Music(seq, cfg) = seq
BY DEF Music, Stops, Nothing

(* A load leaves memory kept the way the game keeps it. *)
LEMMA RestoredIsKept ==
    ASSUME NEW s, NEW g, Kept(g), Kept(z2), NEW version \in Nat, NEW time \in Int, now \in Int,
           MomentRead(s, g, version, time)
    PROVE  Kept(Restored(s, Read(s, version)))
<1> DEFINE r == Read(s, version)
           h == Restored(s, r)
<1>1. h = [stamp |-> h.stamp, seq |-> h.seq, afx_cfg |-> h.afx_cfg, ovl |-> h.ovl,
           loaded_cnt |-> h.loaded_cnt, scene |-> h.scene, room |-> h.room, room_ptr |-> h.room_ptr,
           obj |-> h.obj, obj_ptr |-> h.obj_ptr, pause |-> h.pause, timer |-> h.timer,
           nodes |-> h.nodes, cell |-> h.cell, particle |-> h.particle, dot |-> h.dot,
           wobble |-> h.wobble, weather |-> h.weather, water |-> h.water, disp |-> h.disp,
           cmd_buf |-> h.cmd_buf, rd_pos |-> h.rd_pos, wr_pos |-> h.wr_pos]
    BY DEF Restored
<1> HIDE DEF h, r
<1>2. /\ h.ovl = g.ovl /\ h.loaded_cnt = g.loaded_cnt /\ h.nodes = g.nodes
      /\ h.stamp = g.stamp /\ h.seq = Music(g.seq, g.afx_cfg) /\ h.afx_cfg = g.afx_cfg
      /\ h.scene = g.scene /\ h.room = g.room /\ h.room_ptr = g.room_ptr /\ h.obj = g.obj
      /\ h.obj_ptr = g.obj_ptr /\ h.pause = g.pause /\ h.timer = Shifted(g.timer, time)
      /\ h.particle = g.particle /\ h.dot = g.dot /\ h.disp = g.disp
      /\ h.wobble = (IF version >= 8 THEN g.wobble ELSE z2.wobble)
      /\ h.weather = (IF version >= 8 THEN g.weather ELSE z2.weather)
      /\ h.water = (IF g.scene # z2.scene THEN Nothing ELSE z2.water)
      /\ h.cmd_buf \in [0..(RING - 1) -> Int] /\ h.rd_pos \in 0..(RING - 1)
      /\ h.wr_pos \in 0..(RING - 1)
    <2>1. BlocksAre(h, g, version, time)
        BY RestoredBlocks DEF h, r
    <2> QED BY <2>1 DEF BlocksAre
<1>3. h.cell \in [Addresses -> Int]
    <2>1. CellsAre(h, g)
        BY RestoredCells DEF h, r
    <2> QED BY <2>1 DEF CellsAre
<1>4. g \in Game /\ z2 \in Game
    BY DEF Kept
<1>5. /\ g.stamp \in Int /\ g.seq \in Int /\ g.afx_cfg \in Int
      /\ g.ovl \in [Tables -> [Entries -> Addresses \cup {Nothing}]] /\ g.loaded_cnt \in [Entries -> Int]
      /\ g.scene \in DOMAIN Sizes /\ g.room \in Int /\ g.room_ptr \in 1..2 /\ g.obj \in Int
      /\ g.obj_ptr \in 1..2 /\ g.pause \in {0} \cup {n \in Nat : n >= 3} /\ g.timer \in Int
      /\ g.nodes \in Seq([at : Addresses, size : Nat \ {0}, free : Int])
      /\ g.particle \in Seq(Int) /\ g.dot \in [1..2 -> Int]
      /\ g.wobble \in Int /\ g.weather \in Int /\ g.disp \in Nat
      /\ z2.seq \in Int /\ z2.wobble \in Int /\ z2.weather \in Int /\ z2.water \in Int
    BY <1>4 DEF Game
<1>6. h.seq \in Int /\ h.timer \in Int /\ h.water \in Int /\ h.wobble \in Int /\ h.weather \in Int
    <2>1. h.seq \in Int
        BY <1>2, <1>5, MusicType
    <2>2. h.timer \in Int
        BY <1>2, <1>5 DEF Shifted
    <2>3. h.water \in Int /\ h.wobble \in Int /\ h.weather \in Int
        BY <1>2, <1>5 DEF Nothing
    <2> QED BY <2>1, <2>2, <2>3
<1>7. h \in Game
    BY <1>1, <1>2, <1>3, <1>5, <1>6 DEF Game
<1>8. Kept(h)
    BY <1>2, <1>7 DEF Kept
<1> QED BY <1>8 DEF h, r

(* Which files lie where: numbers of overlays, rooms and objects.          *)
Rams == [text : [Addresses -> Int], scene : Int, room : [1..2 -> Int], obj : [1..2 -> Int]]

(* Its code is the one that belongs there.                                 *)
LEMMA EntryTypes ==
    ASSUME NEW g, Kept(g), NEW a \in Addresses, NEW t \in Tables, NEW i \in Entries, g.ovl[t][i] = a
    PROVE  /\ EntryAt(g.ovl, a) = <<t, i>>
           /\ Overlay(EntryAt(g.ovl, a)[1], EntryAt(g.ovl, a)[2]) = Overlay(t, i)
           /\ Overlay(t, i) \in Int
<1>1. a # Nothing
    BY OverlayTypes
<1>2. EntryAt(g.ovl, a) = <<t, i>>
    BY <1>1, OnlyEntryAt
<1>3. Overlay(t, i) \in Int
    BY DEF Overlay, Tables, Entries
<1> QED BY <1>2, <1>3

(* Where the game got to by itself, it has its files. *)
LEMMA GameResident ==
    ASSUME NEW g, Kept(g)
    PROVE  RamOf(g) \in Rams /\ Resident(g, RamOf(g))
<1> DEFINE m == RamOf(g)
           Here(a) == \E t \in Tables, i \in Entries : g.ovl[t][i] = a
           Code(a) == LET e == EntryAt(g.ovl, a) IN Overlay(e[1], e[2])
<1>1. /\ m.text = [a \in Addresses |-> IF Here(a) THEN Code(a) ELSE Nothing]
      /\ m.scene = g.scene
      /\ m.room = [b \in 1..2 |-> IF b = g.room_ptr /\ g.room # Nothing THEN RoomFile(g) ELSE Nothing]
      /\ m.obj = [b \in 1..2 |-> IF g.pause # 0 THEN Pause
                                 ELSE IF b = g.obj_ptr /\ g.obj > 0 THEN g.obj ELSE Nothing]
      /\ m = [text |-> m.text, scene |-> m.scene, room |-> m.room, obj |-> m.obj]
    BY DEF RamOf, EntryAt
<1> HIDE DEF m
<1>2. ASSUME NEW a \in Addresses, NEW t \in Tables, NEW i \in Entries, g.ovl[t][i] = a
      PROVE  Here(a) /\ Code(a) = Overlay(t, i) /\ Code(a) \in Int
    BY <1>2, EntryTypes
<1> HIDE DEF Code
<1>3. /\ g.scene \in Nat /\ g.room \in Int /\ g.room_ptr \in {1, 2} /\ g.obj \in Int
      /\ g.obj_ptr \in {1, 2} /\ g.pause \in Nat
    BY GameTypes
<1>4. m.text \in [Addresses -> Int]
    <2>1. \A a \in Addresses : (IF Here(a) THEN Code(a) ELSE Nothing) \in Int
        BY <1>2 DEF Nothing
    <2> HIDE DEF Here
    <2> QED BY <1>1, <2>1
<1>5. m.room \in [1..2 -> Int] /\ m.obj \in [1..2 -> Int]
    BY <1>1, <1>3 DEF RoomFile, Nothing, Pause
<1>6. m \in Rams
    BY <1>1, <1>3, <1>4, <1>5 DEF Rams
<1>7. ASSUME NEW t \in Tables, NEW i \in Entries, g.ovl[t][i] # Nothing
      PROVE  m.text[g.ovl[t][i]] = Overlay(t, i)
    <2> DEFINE a == g.ovl[t][i]
    <2>1. a \in Addresses
        BY <1>7, OverlayTypes
    <2>2. Here(a) /\ Code(a) = Overlay(t, i)
        BY <1>2, <2>1
    <2> HIDE DEF a, Here
    <2>3. m.text[a] = Code(a)
        BY <1>1, <2>1, <2>2
    <2> QED BY <2>2, <2>3 DEF a
<1>8. g.room # Nothing => m.room[g.room_ptr] = RoomFile(g)
    BY <1>1, <1>3
<1>9. g.pause = 0 /\ g.obj > 0 => m.obj[g.obj_ptr] = g.obj
    BY <1>1, <1>3
<1>10. g.pause # 0 => \A b \in 1..2 : m.obj[b] = Pause
    BY <1>1
<1> QED BY <1>1, <1>6, <1>7, <1>8, <1>9, <1>10 DEF Resident, m

(* After a load, every file is where it is believed to be. *)
LEMMA LoadedResident ==
    ASSUME NEW s, NEW g, Kept(g), Kept(z2), NEW version \in Nat, NEW time \in Int,
           MomentRead(s, g, version, time), ram \in Rams, Resident(z2, ram)
    PROVE  LET r == Read(s, version)
               h == Restored(s, r)
               m == LoadedRam(h, r.arena.cells)
           IN m \in Rams /\ Resident(h, m)
<1> DEFINE r == Read(s, version)
           h == Restored(s, r)
           cells == r.arena.cells
           m == LoadedRam(h, cells)
           Moved(a) == \E t \in Tables, i \in Entries : LoadsText(t, i, g.ovl) /\ g.ovl[t][i] = a
           Code(a) == LET e == EntryAt(g.ovl, a) IN Overlay(e[1], e[2])
<1>1. /\ h.ovl = g.ovl /\ h.scene = g.scene /\ h.room = g.room /\ h.room_ptr = g.room_ptr
      /\ h.obj = g.obj /\ h.obj_ptr = g.obj_ptr /\ h.pause = g.pause
    <2>1. BlocksAre(h, g, version, time)
        BY RestoredBlocks
    <2> HIDE DEF h
    <2> QED BY <2>1 DEF BlocksAre
<1>2. \A a \in DOMAIN cells : a \notin OverlayAt(g.ovl)
    <2>1. ArenaIs(r.arena, r.ctx.p, g)
        BY DEF MomentRead
    <2> HIDE DEF r, h, m
    <2>2. \A a : a \in DOMAIN cells <=> \E k \in 1..Len(g.nodes) :
             a \in g.nodes[k].at..(g.nodes[k].at + Words(g, g.nodes[k]) - 1)
        BY <2>1 DEF ArenaIs
    <2> HIDE DEF cells
    <2> QED BY <2>2, OverlaysOutside
<1> HIDE DEF r, h, cells
<1> DEFINE id == IF g.obj < 0 THEN - g.obj ELSE g.obj
           reloads == id # 0 /\ (z2.obj # id \/ z2.obj_ptr # g.obj_ptr \/ z2.pause >= 3)
<1>3. /\ m.text = LoadedText(g.ovl, cells)
      /\ m.scene = (IF z2.scene # g.scene THEN g.scene ELSE ram.scene)
      /\ m.room = (IF ReloadsRoom(g) THEN [ram.room EXCEPT ![g.room_ptr] = RoomFile(g)] ELSE ram.room)
      /\ m.obj = (IF g.pause # 0 THEN [b \in 1..2 |-> Pause]
                  ELSE IF reloads THEN [ram.obj EXCEPT ![g.obj_ptr] = id] ELSE ram.obj)
      /\ m = [text |-> m.text, scene |-> m.scene, room |-> m.room, obj |-> m.obj]
    <2>1. /\ m.text = LoadedText(h.ovl, cells)
          /\ m.scene = (IF z2.scene # h.scene THEN h.scene ELSE ram.scene)
          /\ m = [text |-> m.text, scene |-> m.scene, room |-> m.room, obj |-> m.obj]
        BY DEF LoadedRam
    <2>2. m.room = (IF ReloadsRoom(h) THEN [ram.room EXCEPT ![h.room_ptr] = RoomFile(h)] ELSE ram.room)
        BY DEF LoadedRam
    <2>3. ReloadsRoom(h) = ReloadsRoom(g) /\ RoomFile(h) = RoomFile(g)
        BY <1>1 DEF ReloadsRoom, RoomFile
    <2>4. m.obj = (IF h.pause # 0 THEN [b \in 1..2 |-> Pause]
                   ELSE LET x == IF h.obj < 0 THEN - h.obj ELSE h.obj IN
                        IF ReloadsObject(x, h) THEN [ram.obj EXCEPT ![h.obj_ptr] = x] ELSE ram.obj)
        BY DEF LoadedRam
    <2>5. m.obj = (IF g.pause # 0 THEN [b \in 1..2 |-> Pause]
                   ELSE IF reloads THEN [ram.obj EXCEPT ![g.obj_ptr] = id] ELSE ram.obj)
        <3> HIDE DEF m
        <3> QED BY <1>1, <2>4 DEF ReloadsObject
    <2> HIDE DEF m
    <2> QED BY <1>1, <2>1, <2>2, <2>3, <2>5
<1> HIDE DEF m
<1>4. /\ ram.text \in [Addresses -> Int] /\ ram.scene \in Int /\ ram.room \in [1..2 -> Int]
      /\ ram.obj \in [1..2 -> Int]
    BY DEF Rams
<1>5. /\ ram.scene = z2.scene
      /\ z2.room # Nothing => ram.room[z2.room_ptr] = RoomFile(z2)
      /\ \A t \in Tables, i \in Entries :
            z2.ovl[t][i] # Nothing => ram.text[z2.ovl[t][i]] = Overlay(t, i)
      /\ z2.pause = 0 /\ z2.obj > 0 => ram.obj[z2.obj_ptr] = z2.obj
    BY DEF Resident
<1>6. /\ g.scene \in Nat /\ g.room \in Int /\ g.room_ptr \in {1, 2} /\ g.obj \in Int
      /\ g.obj_ptr \in {1, 2} /\ g.pause \in Nat
      /\ z2.scene \in Nat /\ z2.room \in Int /\ z2.room_ptr \in {1, 2} /\ z2.obj \in Int
      /\ z2.obj_ptr \in {1, 2} /\ z2.pause \in Nat
    BY GameTypes
<1>7. z2.pause = 0 \/ z2.pause >= 3
    BY DEF Kept, Game
<1>8. m.text = [a \in Addresses |-> IF Moved(a) THEN Code(a)
                                    ELSE IF a \in DOMAIN cells THEN Nothing ELSE ram.text[a]]
    BY <1>3 DEF LoadedText, EntryAt
<1>9. ASSUME NEW a \in Addresses, NEW t \in Tables, NEW i \in Entries, g.ovl[t][i] = a
      PROVE  Code(a) = Overlay(t, i) /\ Code(a) \in Int
    BY <1>9, EntryTypes
<1> HIDE DEF Code
<1>10. m.text \in [Addresses -> Int]
    <2>1. \A a \in Addresses : Moved(a) => Code(a) \in Int
        BY <1>9
    <2>2. \A a \in Addresses : ram.text[a] \in Int /\ Nothing \in Int
        BY <1>4 DEF Nothing
    <2> HIDE DEF Moved
    <2>3. \A a \in Addresses : (IF Moved(a) THEN Code(a)
                                ELSE IF a \in DOMAIN cells THEN Nothing ELSE ram.text[a]) \in Int
        BY <2>1, <2>2
    <2> QED BY <1>8, <2>3
<1>11. m.room \in [1..2 -> Int] /\ m.obj \in [1..2 -> Int] /\ m.scene \in Int
    <2>1. RoomFile(g) \in Int /\ id \in Int /\ Pause \in Int
        BY <1>6 DEF RoomFile, Pause
    <2> HIDE DEF id, reloads
    <2> QED BY <1>3, <1>4, <1>6, <2>1
<1>12. m \in Rams
    BY <1>3, <1>10, <1>11 DEF Rams
<1>13. m.scene = g.scene
    BY <1>3, <1>5
<1>14. g.room # Nothing => m.room[g.room_ptr] = RoomFile(g)
    <2> SUFFICES ASSUME g.room # Nothing PROVE m.room[g.room_ptr] = RoomFile(g)
        OBVIOUS
    <2>1. CASE ReloadsRoom(g)
        <3>1. m.room = [ram.room EXCEPT ![g.room_ptr] = RoomFile(g)] /\ g.room_ptr \in 1..2
            BY <1>3, <1>6, <2>1
        <3> QED BY <1>4, <3>1
    <2>2. CASE ~ReloadsRoom(g)
        <3>1. z2.room = g.room /\ z2.scene = g.scene /\ z2.room_ptr = g.room_ptr
            BY <2>2 DEF ReloadsRoom
        <3>2. RoomFile(z2) = RoomFile(g)
            BY <3>1 DEF RoomFile
        <3> QED BY <1>3, <1>5, <2>2, <3>1, <3>2
    <2> QED BY <2>1, <2>2
<1>15. ASSUME NEW t \in Tables, NEW i \in Entries, g.ovl[t][i] # Nothing
       PROVE  m.text[g.ovl[t][i]] = Overlay(t, i)
    <2> DEFINE a == g.ovl[t][i]
    <2>1. a \in Addresses
        BY <1>15, OverlayTypes
    <2>2. CASE Moved(a)
        <3>1. Code(a) = Overlay(t, i)
            BY <1>9, <2>1
        <3> HIDE DEF a, Moved
        <3>2. m.text[a] = Code(a)
            BY <1>8, <2>1, <2>2
        <3> QED BY <3>1, <3>2 DEF a
    <2>3. CASE ~Moved(a)
        <3>1. z2.ovl[t][i] = a
            BY <1>15, <2>3 DEF LoadsText
        <3>2. a \notin DOMAIN cells
            BY <1>2 DEF OverlayAt
        <3>3. ram.text[a] = Overlay(t, i)
            BY <1>5, <1>15, <3>1
        <3> HIDE DEF a, Moved
        <3>4. m.text[a] = ram.text[a]
            BY <1>8, <2>1, <2>3, <3>2
        <3> QED BY <3>3, <3>4 DEF a
    <2> QED BY <2>2, <2>3
<1>16. g.pause = 0 /\ g.obj > 0 => m.obj[g.obj_ptr] = g.obj
    <2> SUFFICES ASSUME g.pause = 0, g.obj > 0 PROVE m.obj[g.obj_ptr] = g.obj
        OBVIOUS
    <2>1. id = g.obj
        BY <1>6
    <2>2. CASE reloads
        <3>1. m.obj = [ram.obj EXCEPT ![g.obj_ptr] = g.obj] /\ g.obj_ptr \in 1..2
            BY <1>3, <1>6, <2>1, <2>2
        <3> QED BY <1>4, <3>1
    <2>3. CASE ~reloads
        <3>1. z2.obj = g.obj /\ z2.obj_ptr = g.obj_ptr /\ ~(z2.pause >= 3)
            BY <1>6, <2>1, <2>3
        <3>2. m.obj = ram.obj
            BY <1>3, <2>3
        <3> QED BY <1>5, <1>7, <3>1, <3>2
    <2> QED BY <2>2, <2>3
<1>17. g.pause # 0 => \A b \in 1..2 : m.obj[b] = Pause
    BY <1>3
<1>18. Resident(h, m)
    <2>1. RoomFile(h) = RoomFile(g)
        BY <1>1 DEF RoomFile
    <2> QED BY <1>1, <1>13, <1>14, <1>15, <1>16, <1>17, <2>1 DEF Resident
<1> QED BY <1>12, <1>18 DEF m, h, r, cells

-----------------------------------------------------------------------------
(* The invariant of the stream, and what follows from it.                  *)

(* The inductive invariant: whatever moment the game is at, its memory is  *)
(* kept the way the game does, its files are where it believes them to be, *)
(* and the slot holds the stream of the moment it was filled at.           *)
StateInv ==
    /\ Kept(z2) /\ ram \in Rams /\ Resident(z2, ram)
    /\ now \in Nat
    /\ state # NoState =>
          /\ Kept(saved_at.game) /\ saved_at.time \in Int /\ state.version \in Nat
          /\ state.stream = save_state(saved_at.game, state.version, saved_at.time)

(* What a load has to keep: the properties the run checks.                 *)
Promises == LoadRestoresMoment /\ StreamReadToEnd /\ FilesResident /\ ClocksGoOn

(* A clock that starts again changes nothing of how memory is kept. *)
LEMMA TimerSet ==
    ASSUME NEW g, Kept(g), NEW time \in Int
    PROVE  LET h == [g EXCEPT !.timer = time] IN
           /\ Kept(h) /\ \A m : Resident(g, m) => Resident(h, m)
<1> DEFINE h == [g EXCEPT !.timer = time]
<1>1. g \in Game
    BY DEF Kept
<1>2. h \in Game
    BY <1>1 DEF Game
<1>3. /\ h.ovl = g.ovl /\ h.loaded_cnt = g.loaded_cnt /\ h.nodes = g.nodes /\ h.scene = g.scene
      /\ h.room = g.room /\ h.room_ptr = g.room_ptr /\ h.obj = g.obj /\ h.obj_ptr = g.obj_ptr
      /\ h.pause = g.pause
    BY <1>1 DEF Game
<1> HIDE DEF h
<1>4. Kept(h)
    BY <1>2, <1>3 DEF Kept
<1>5. ASSUME NEW m, Resident(g, m) PROVE Resident(h, m)
    <2>1. RoomFile(h) = RoomFile(g)
        BY <1>3 DEF RoomFile
    <2> QED BY <1>3, <1>5, <2>1 DEF Resident
<1> QED BY <1>4, <1>5 DEF h

(* A game that has just begun keeps them: nothing has been loaded.         *)
LEMMA InitState == StateInit => StateInv /\ Promises
<1> SUFFICES ASSUME StateInit PROVE StateInv /\ Promises
    OBVIOUS
<1>1. z2 \in Games /\ ram = RamOf(z2) /\ now = 0 /\ state = NoState /\ read_to = 0
    BY DEF StateInit
<1>2. Kept(z2)
    BY <1>1, StateAssumption
<1>3. ram \in Rams /\ Resident(z2, ram)
    BY <1>1, <1>2, GameResident
<1>4. Promises
    BY <1>1 DEF Promises, LoadRestoresMoment, StreamReadToEnd, FilesResident, ClocksGoOn
<1> QED BY <1>1, <1>2, <1>3, <1>4 DEF StateInv

(* A load keeps every promise, whatever the game had been doing. *)
LEMMA LoadPromises == StateInv /\ LoadState => StateInv' /\ Promises'
<1> SUFFICES ASSUME StateInv, LoadState PROVE StateInv' /\ Promises'
    OBVIOUS
<1> DEFINE g == saved_at.game
           time == saved_at.time
           version == state.version
           s == state.stream
           r == Read(s, version)
           h == Restored(s, r)
           m == LoadedRam(h, r.arena.cells)
<1>1. /\ z2' = h /\ ram' = m /\ read_to' = r.queue.p + 1
      /\ now' = now /\ state' = state /\ saved_at' = saved_at /\ state # NoState
    BY DEF LoadState, load_state
<1>2. /\ Kept(z2) /\ Kept(g) /\ ram \in Rams /\ Resident(z2, ram) /\ now \in Nat
      /\ time \in Int /\ version \in Nat /\ s = save_state(g, version, time)
    BY <1>1 DEF StateInv
<1>3. MomentRead(s, g, version, time)
    <2> HIDE DEF g, time, version, s
    <2> QED BY <1>2, StreamRead
<1>4. BlocksAre(h, g, version, time) /\ CellsAre(h, g) /\ Kept(h) /\ m \in Rams /\ Resident(h, m)
    <2>1. now \in Int
        BY <1>2
    <2> HIDE DEF g, time, version, s
    <2>2. BlocksAre(h, g, version, time)
        BY <1>2, <1>3, RestoredBlocks
    <2>3. CellsAre(h, g)
        BY <1>2, <1>3, RestoredCells
    <2>4. Kept(h)
        BY <1>2, <1>3, <2>1, RestoredIsKept
    <2>5. m \in Rams /\ Resident(h, m)
        BY <1>2, <1>3, LoadedResident
    <2> QED BY <2>2, <2>3, <2>4, <2>5
<1>5. r.queue.p = Len(s)
    BY <1>3 DEF MomentRead
<1> HIDE DEF r, h, m
<1>6. StateInv'
    BY <1>1, <1>2, <1>4 DEF StateInv
<1>7. LoadRestoresMoment'
    <2>1. h.seq = g.seq
        <3>1. z2.seq \in Int /\ g.seq \in Int /\ g.afx_cfg \in Int
            BY <1>2, GameTypes
        <3>2. h.seq = Music(g.seq, g.afx_cfg)
            BY <1>4 DEF BlocksAre
        <3> QED BY <3>1, <3>2, MusicType
    <2>2. \A f \in {"stamp", "seq", "afx_cfg", "ovl", "loaded_cnt", "scene", "room", "room_ptr", "obj",
                     "obj_ptr", "pause", "nodes", "particle", "dot", "disp"} : h[f] = g[f]
        BY <1>4, <2>1 DEF BlocksAre
    <2>3. \A a \in UsedCells(g) \ {Nothing} : h.cell[a] = g.cell[a]
        BY <1>4 DEF CellsAre
    <2>4. Commands(h) = Commands(g)
        BY <1>4 DEF BlocksAre
    <2>5. version >= 8 => h.wobble = g.wobble /\ h.weather = g.weather
        BY <1>4 DEF BlocksAre
    <2>6. z2' = h /\ saved_at'.game = g /\ state'.version = version
        BY <1>1
    <2>7. UsedCells(g)' = UsedCells(saved_at'.game) /\ Commands(z2)' = Commands(z2')
        BY DEF UsedCells, Commands
    <2> HIDE DEF g, version
    <2> QED BY <2>2, <2>3, <2>4, <2>5, <2>6, <2>7 DEF LoadRestoresMoment
<1>8. StreamReadToEnd'
    BY <1>1, <1>5 DEF StreamReadToEnd
<1>9. FilesResident'
    BY <1>1, <1>4 DEF FilesResident
<1>10. ClocksGoOn'
    <2>1. h.timer = g.timer + (now - time) /\ g.timer \in Int
        BY <1>2, <1>4, GameTypes DEF BlocksAre, Shifted
    <2>2. now - h.timer = time - g.timer
        BY <1>2, <2>1
    <2>3. z2' = h /\ now' = now /\ saved_at'.time = time /\ saved_at'.game.timer = g.timer
        BY <1>1
    <2> HIDE DEF g, time
    <2> QED BY <2>2, <2>3 DEF ClocksGoOn
<1> QED BY <1>6, <1>7, <1>8, <1>9, <1>10 DEF Promises

(* Every step keeps the invariant and the promises. *)
LEMMA StepState == StateInv /\ Promises /\ [StateNext]_StateVars => StateInv' /\ Promises'
<1> SUFFICES ASSUME StateInv, Promises, [StateNext]_StateVars PROVE StateInv' /\ Promises'
    OBVIOUS
<1>1. ASSUME read_to' = 0 PROVE Promises'
    BY <1>1 DEF Promises, LoadRestoresMoment, StreamReadToEnd, FilesResident, ClocksGoOn
<1>2. CASE GamePlaysOn
    <2>1. PICK g \in Games : z2' = [g EXCEPT !.timer = now] /\ ram' = RamOf(g)
        BY <1>2 DEF GamePlaysOn
    <2>2. Kept(g) /\ now \in Int
        BY StateAssumption DEF StateInv
    <2>3. RamOf(g) \in Rams /\ Resident(g, RamOf(g))
        BY <2>2, GameResident
    <2> DEFINE h == [g EXCEPT !.timer = now]
               m == RamOf(g)
    <2>4. Kept(h) /\ Resident(h, m)
        BY <2>2, <2>3, TimerSet
    <2>5. z2' = h /\ ram' = m /\ m \in Rams
        BY <2>1, <2>3
    <2> HIDE DEF h, m
    <2>6. StateInv'
        BY <1>2, <2>4, <2>5 DEF StateInv, GamePlaysOn
    <2> QED BY <1>1, <1>2, <2>6 DEF GamePlaysOn
<1>3. CASE ClockTicks
    <2>1. StateInv'
        BY <1>3 DEF StateInv, ClockTicks
    <2> QED BY <1>1, <1>3, <2>1 DEF ClockTicks
<1>4. CASE SaveState
    <2>1. /\ state' = [version |-> STATE_VERSION, stream |-> save_state(z2, STATE_VERSION, now)]
          /\ saved_at' = [game |-> z2, time |-> now] /\ UNCHANGED <<z2, ram, now>> /\ read_to' = 0
        BY <1>4 DEF SaveState
    <2>2. /\ Kept(saved_at'.game) /\ saved_at'.time \in Int /\ state'.version \in Nat
          /\ state'.stream = save_state(saved_at'.game, state'.version, saved_at'.time)
        BY <2>1, StateAssumption DEF StateInv
    <2>3. StateInv'
        BY <2>1, <2>2 DEF StateInv
    <2> QED BY <1>1, <2>1, <2>3
<1>5. CASE ImportFile
    <2>1. PICK version \in Versions, g \in Games :
             /\ state' = [version |-> version, stream |-> save_state(g, version, 0)]
             /\ saved_at' = [game |-> g, time |-> 0]
        BY <1>5 DEF ImportFile
    <2>2. UNCHANGED <<z2, ram, now>> /\ read_to' = 0
        BY <1>5 DEF ImportFile
    <2>3. /\ Kept(saved_at'.game) /\ saved_at'.time \in Int /\ state'.version \in Nat
          /\ state'.stream = save_state(saved_at'.game, state'.version, saved_at'.time)
        BY <2>1, StateAssumption
    <2>4. StateInv'
        BY <2>2, <2>3 DEF StateInv
    <2> QED BY <1>1, <2>2, <2>4
<1>6. CASE LoadState
    BY <1>6, LoadPromises
<1>7. CASE UNCHANGED StateVars
    BY <1>7 DEF StateVars, StateInv, Promises, LoadRestoresMoment, StreamReadToEnd, FilesResident, ClocksGoOn,
       UsedCells, Commands, Resident
<1> QED BY <1>2, <1>3, <1>4, <1>5, <1>6, <1>7 DEF StateNext

(* A load gives back the moment that was saved, whatever the game has been *)
(* doing since: save_state and load_state fit each other block by block,   *)
(* for tables, lists and nodes of any number (state.c).                    *)
THEOREM LoadIsExact == StateSpec => []LoadRestoresMoment
<1>1. Promises => LoadRestoresMoment
    BY DEF Promises
<1> QED BY <1>1, InitState, StepState, PTL DEF StateSpec

(* The reader of state.c stops at the stream's last block, neither short of*)
(* it nor beyond, for every version kz accepts.                            *)
THEOREM LoadReadsAll == StateSpec => []StreamReadToEnd
<1>1. Promises => StreamReadToEnd
    BY DEF Promises
<1> QED BY <1>1, InitState, StepState, PTL DEF StateSpec

(* After a load every pointer leads to the file the game believes is there:*)
(* what load_state fetches is all that was missing.                        *)
THEOREM LoadFetchesFiles == StateSpec => []FilesResident
<1>1. Promises => FilesResident
    BY DEF Promises
<1> QED BY <1>1, InitState, StepState, PTL DEF StateSpec

(* A timer that ran when the state was saved has run for as long when it is*)
(* loaded, whenever that is.                                               *)
THEOREM LoadKeepsClocks == StateSpec => []ClocksGoOn
<1>1. Promises => ClocksGoOn
    BY DEF Promises
<1> QED BY <1>1, InitState, StepState, PTL DEF StateSpec

===============================================================================
