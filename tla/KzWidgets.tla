------------------------------- MODULE KzWidgets -------------------------------
(***************************************************************************)
(* The fields of the forms that edit a variable of the game: the number    *)
(* input (src/src/menu_number_input.c), with or without a sign, and the    *)
(* list (src/src/menu_list.c).  In every frame of the menu a field first   *)
(* sees the user's press, then an update from the variable, and is drawn;  *)
(* the game goes on in between.                                            *)
(***************************************************************************)
EXTENDS Integers, FiniteSets

CONSTANTS BASE, LENGTH,   \* of a number input
          WORD,           \* an unsigned word is below it
          CELL,           \* the variable of a field without a sign is below it
          OPTIONS         \* values of a list's options, at 0, 1, ...

ASSUME WidgetAssumption ==
    /\ BASE \in Nat \ {0, 1} /\ LENGTH \in Nat \ {0}
    /\ WORD \in Nat \ {0} /\ CELL \in 1..WORD /\ WORD % CELL = 0
    /\ IsFiniteSet(DOMAIN OPTIONS) /\ DOMAIN OPTIONS # {}
    /\ DOMAIN OPTIONS = 0..(Cardinality(DOMAIN OPTIONS) - 1)
    /\ \A i, j \in DOMAIN OPTIONS : i # j => OPTIONS[i] # OPTIONS[j]
    /\ \A i \in DOMAIN OPTIONS : OPTIONS[i] \in 0..(CELL - 1)

VARIABLES
    kind,          \* "number", "signed" or "list"
    bound,         \* the variable of the game
    data,          \* the item's data
    held, touched  \* the variable in the last frame without an edit, and
                   \* whether the user has changed the field since

WidgetVars == <<kind, bound, data, held, touched>>

Power[n \in 0..LENGTH] == IF n = 0 THEN 1 ELSE BASE * Power[n - 1]

(* Places 1..LENGTH hold the digits, most significant first; a sign is the *)
(* place before them.                                                      *)
Digits(value) == [i \in 1..LENGTH |-> (value \div Power[LENGTH - i]) % BASE]
(* The value is added up from the last digit to the first.                 *)
ValueOf(digits) ==
    LET low[n \in 0..LENGTH] ==
            IF n = 0 THEN 0 ELSE low[n - 1] + digits[LENGTH + 1 - n] * Power[n - 1]
    IN low[LENGTH]
Width == IF kind = "signed" THEN WORD ELSE CELL
First == IF kind = "signed" THEN 0 ELSE 1

NewData == [value |-> 0, digits |-> Digits(0), sign |-> "+", edit_idx |-> LENGTH,
            selected_idx |-> 0, editing |-> FALSE]

-----------------------------------------------------------------------------
(* What the digits and the sign stand for, as an unsigned word.            *)
Entered(d) ==
    LET n == ValueOf(d.digits) IN
    IF kind = "signed" /\ d.sign = "-" THEN (-n) % WORD ELSE n % WORD

(* The second press commits: the list does so before it lets go.           *)
Activated(d) ==
    IF ~d.editing THEN [d EXCEPT !.editing = TRUE]
    ELSE IF kind = "list" THEN [d EXCEPT !.editing = FALSE]
    ELSE [d EXCEPT !.editing = FALSE, !.value = Entered(d)]
Committed(d) == IF kind = "list" THEN OPTIONS[d.selected_idx] ELSE Entered(d) % Width

(* Up takes the next option of a list and down the one before.             *)
ListMoved(d, nav) ==
    LET n == Cardinality(DOMAIN OPTIONS) IN
    [d EXCEPT !.selected_idx = CASE nav = "up" -> (@ + 1) % n
                                 [] nav = "down" -> (@ + n - 1) % n
                                 [] OTHER -> @]

NumberMoved(d, nav) ==
    CASE nav = "left"  -> [d EXCEPT !.edit_idx = IF @ = First THEN LENGTH ELSE @ - 1]
      [] nav = "right" -> [d EXCEPT !.edit_idx = IF @ = LENGTH THEN First ELSE @ + 1]
      [] nav \in {"up", "down"} /\ d.edit_idx = 0 ->
                           [d EXCEPT !.sign = IF @ = "+" THEN "-" ELSE "+"]
      [] nav = "up" /\ d.edit_idx # 0 ->
                           [d EXCEPT !.digits[d.edit_idx] = (@ + 1) % BASE]
      [] nav = "down" /\ d.edit_idx # 0 ->
                           [d EXCEPT !.digits[d.edit_idx] = (@ - 1 + BASE) % BASE]

UpdatedSlip(d, v) ==
    IF kind # "list" THEN (IF d.editing THEN d ELSE [d EXCEPT !.value = v])
    ELSE [d EXCEPT !.selected_idx =
            IF \E i \in DOMAIN OPTIONS : OPTIONS[i] = v
            THEN CHOOSE i \in DOMAIN OPTIONS : OPTIONS[i] = v ELSE 0]
(* A field being edited answers the update itself, before the handler that *)
(* would take the variable's value.  A list shows its first option for a   *)
(* value it does not have.                                                 *)
Updated(d, v) ==
    IF d.editing THEN d
    ELSE IF kind # "list" THEN [d EXCEPT !.value = v]
    ELSE [d EXCEPT !.selected_idx =
            IF \E i \in DOMAIN OPTIONS : OPTIONS[i] = v
            THEN CHOOSE i \in DOMAIN OPTIONS : OPTIONS[i] = v ELSE 0]

(* Drawing renews the digits, under the sign of what was last entered.     *)
Drawn(d) ==
    IF d.editing \/ kind = "list" THEN d
    ELSE [d EXCEPT !.digits =
            Digits(IF kind = "signed" /\ d.sign = "-" THEN (-d.value) % WORD ELSE d.value)]

(* The frame that enters a form updates it and draws it.                   *)
WidgetInit ==
    /\ kind \in {"number", "signed", "list"} /\ bound \in 0..(Width - 1)
    /\ data = Drawn(Updated(NewData, bound))
    /\ held = bound /\ touched = FALSE

Activate ==
    /\ bound' = IF data.editing THEN Committed(data) ELSE bound
    /\ data' = Drawn(Updated(Activated(data), bound'))
    /\ held' = IF data'.editing THEN held ELSE bound'
    /\ touched' = FALSE /\ UNCHANGED kind

(* Without an edit the press moves the menu's cursor, see KzPages.         *)
FieldNavigate(nav) ==
    /\ data.editing
    /\ data' = Drawn(Updated(IF kind = "list" THEN ListMoved(data, nav) ELSE NumberMoved(data, nav),
                             bound))
    /\ touched' = TRUE /\ UNCHANGED <<kind, bound, held>>

IdleFrame ==
    /\ data' = Drawn(Updated(data, bound))
    /\ held' = IF data.editing THEN held ELSE bound
    /\ UNCHANGED <<kind, bound, touched>>

(* External: the game writes its variable.                                 *)
GameSets(v) == bound' = v /\ UNCHANGED <<kind, data, held, touched>>

WidgetNext ==
    \/ Activate
    \/ \E nav \in {"left", "right", "up", "down"} : FieldNavigate(nav)
    \/ IdleFrame
    \/ \E v \in 0..(Width - 1) : GameSets(v)

WidgetSpec == WidgetInit /\ [][WidgetNext]_WidgetVars

-----------------------------------------------------------------------------
(* The values a field has room to show: a list its options, a number input *)
(* what its digits and the sign it has kept can stand for.                 *)
Showable(v) ==
    CASE kind = "list"   -> \E i \in DOMAIN OPTIONS : OPTIONS[i] = v
      [] kind = "number" -> v < Power[LENGTH]
      [] kind = "signed" -> (IF data.sign = "-" THEN (-v) % WORD ELSE v) < Power[LENGTH]

(* An edit that the user has not changed anything in would commit what the *)
(* variable was when it began, however often the game has written the      *)
(* variable, updates have come and the field has been drawn since.         *)
UntouchedEditCommitsHeld ==
    data.editing /\ ~touched /\ Showable(held) => Committed(data) = held
=============================================================================
