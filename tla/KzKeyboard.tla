------------------------------ MODULE KzKeyboard ------------------------------
(***************************************************************************)
(* The on-screen keyboard (src/src/menu_keyboard.c) and a text field that  *)
(* opens it (src/src/menu_text_input.c), such as the label of a watch.     *)
(* Which key the menu's cursor is on is left to KzPages: any can be next.  *)
(***************************************************************************)
EXTENDS Integers, Sequences

CONSTANTS MAX_STR_LEN,   \* the last index of the buffer
          VAL_LEN,       \* characters the field's owner has room for
          Letters,       \* characters with no meaning to the code
          OwnerTexts     \* what the owner puts into the field itself

Characters == Letters \cup {" ", "_"}

(* A text of the owner's fits the buffer.  The file dialog's field has room*)
(* for one character more, which a file's or a state's name may fill: the  *)
(* strcpy of menu_keyboard_get then writes behind the buffer, and what     *)
(* comes of it is not modelled.  No text from the keyboard is that long.   *)
ASSUME KeyboardAssumption ==
    /\ MAX_STR_LEN \in Nat \ {0, 1, 2} /\ VAL_LEN \in Nat \ {0}
    /\ Letters \cap {"", " ", "_"} = {}
    /\ \A text \in OwnerTexts :
         text \in Seq(Characters) /\ Len(text) <= VAL_LEN /\ Len(text) <= MAX_STR_LEN

VARIABLES input_buf, cursor_pos,
          keyboard_open,   \* the keyboard is the innermost menu
          label            \* *value_ptr, which the field shows

KeyVars == <<input_buf, cursor_pos, keyboard_open, label>>

NUL == ""
Index == 0..MAX_STR_LEN

(* strlen; a buffer without a terminator is longer than any.               *)
StrLen(buf) ==
    IF \A i \in Index : buf[i] # NUL THEN MAX_STR_LEN + 1
    ELSE CHOOSE n \in Index : buf[n] = NUL /\ \A i \in 0..(n - 1) : buf[i] # NUL
StringAt(buf) == [i \in 1..StrLen(buf) |-> buf[i - 1]]
BufferOf(text) == [i \in Index |-> IF i < Len(text) THEN text[i + 1] ELSE NUL]

KeyInit ==
    input_buf = BufferOf(<<>>) /\ cursor_pos = 0 /\ keyboard_open = FALSE /\ label = <<>>

-----------------------------------------------------------------------------
FilledSlip(buf, pos) == buf
(* The cells between the end of the string and the cursor become spaces.   *)
Filled(buf, pos) ==
    [i \in Index |-> IF StrLen(buf) <= i /\ i < pos THEN " " ELSE buf[i]]

(* Behind the cursor neither spaces nor the underscores the keyboard itself*)
(* puts under the cursor are kept.                                         *)
buf_sanity(buf, pos) ==
    LET kept == Filled([buf EXCEPT ![pos] = IF @ = NUL THEN "_" ELSE @], pos) IN
    [i \in Index |->
        IF i > pos /\ i < MAX_STR_LEN /\ kept[i] \in {" ", "_"} THEN NUL ELSE kept[i]]

(* strcpy over the character before the cursor.  In a buffer without a     *)
(* terminator it also moves "past", the byte behind the buffer.            *)
StruckOut(past) ==
    [i \in Index |->
        IF \/ i < cursor_pos - 1
           \/ \E z \in cursor_pos..i : input_buf[z] = NUL
        THEN input_buf[i]
        ELSE IF i = MAX_STR_LEN THEN past ELSE input_buf[i + 1]]

(* A file is picked, a default name filled in, a profile loaded: at the end*)
(* of the frame the field shows the new text.                              *)
OwnerSets(text) ==
    /\ ~keyboard_open
    /\ label' = text
    /\ UNCHANGED <<input_buf, cursor_pos, keyboard_open>>

menu_keyboard_get ==
    /\ ~keyboard_open
    /\ keyboard_open' = TRUE /\ cursor_pos' = Len(label)
    /\ input_buf' = buf_sanity(BufferOf(label), Len(label))
    /\ UNCHANGED label

(* The cursor wraps below the last cell, which only typing reaches.        *)
KeyNavigate(step) ==
    LET pos == (cursor_pos + step) % MAX_STR_LEN IN
    /\ keyboard_open
    /\ cursor_pos' = pos /\ input_buf' = buf_sanity(input_buf, pos)
    /\ UNCHANGED <<keyboard_open, label>>

key_event(c) ==
    LET pos == IF cursor_pos < MAX_STR_LEN THEN cursor_pos + 1 ELSE cursor_pos
        put == [input_buf EXCEPT ![cursor_pos] = c]
    IN /\ keyboard_open
       /\ cursor_pos' = pos
       /\ input_buf' = [put EXCEPT ![pos] = IF @ = NUL THEN "_" ELSE @]
       /\ UNCHANGED <<keyboard_open, label>>

(* The shortcut stops one cell earlier than the keys and marks nothing.    *)
Space ==
    /\ keyboard_open /\ cursor_pos < MAX_STR_LEN - 1
    /\ input_buf' = [input_buf EXCEPT ![cursor_pos] = " "] /\ cursor_pos' = cursor_pos + 1
    /\ UNCHANGED <<keyboard_open, label>>

backspace ==
    /\ keyboard_open /\ cursor_pos > 0
    /\ cursor_pos' = cursor_pos - 1
    /\ \E past \in Characters \cup {NUL} : input_buf' = buf_sanity(StruckOut(past), cursor_pos - 1)
    /\ UNCHANGED <<keyboard_open, label>>

(* What is behind the cursor is cut off, then one underscore at the end.   *)
Accepted(buf) ==
    LET text == StringAt([buf EXCEPT ![cursor_pos] = NUL])
        last == Len(text)
    IN IF last > 0 /\ text[last] = "_" THEN SubSeq(text, 1, last - 1) ELSE text

(* The field hands on as much as its owner has room for, and the update    *)
(* that ends the frame shows the owner's copy again.                       *)
accept ==
    LET text == Accepted(input_buf) IN
    /\ keyboard_open
    /\ keyboard_open' = FALSE
    /\ input_buf' = BufferOf(text)
    /\ label' = SubSeq(text, 1, IF Len(text) < VAL_LEN THEN Len(text) ELSE VAL_LEN)
    /\ UNCHANGED cursor_pos

(* "return" leaves at once; the command "return" is swallowed.             *)
keyboard_return ==
    /\ keyboard_open
    /\ keyboard_open' \in {FALSE, TRUE}
    /\ UNCHANGED <<input_buf, cursor_pos, label>>

KeyNext ==
    \/ \E text \in OwnerTexts : OwnerSets(text)
    \/ menu_keyboard_get
    \/ \E step \in {MAX_STR_LEN - 1, 1} : KeyNavigate(step)
    \/ \E c \in Letters \cup {"_"} : key_event(c)
    \/ Space \/ backspace \/ accept \/ keyboard_return

KeySpec == KeyInit /\ [][KeyNext]_KeyVars

-----------------------------------------------------------------------------
(* All that is left of the cursor is one string, whatever keys, shortcuts  *)
(* and turns around the ends of the line led there: accept, which ends the *)
(* text at the cursor, takes every character the user sees before it.      *)
TextReachesCursor ==
    keyboard_open => \A i \in 0..(cursor_pos - 1) : input_buf[i] # NUL
=============================================================================
