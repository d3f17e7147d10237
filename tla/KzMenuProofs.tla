----------------------------- MODULE KzMenuProofs -----------------------------
(***************************************************************************)
(* The safety properties of the menus that hold lists, texts and tables:   *)
(* the keyboard, the file menu, the memory page of the debug menu, the     *)
(* watches menu, the fields of the forms, and the pages they stand on.     *)
(* Each part is about one of them, for every value of its constants.       *)
(***************************************************************************)
EXTENDS KzKeyboard, KzFiles, KzDebug, KzWatches, KzWidgets, KzPages, KzLemmas, SequenceTheorems,
        FiniteSetTheorems

-----------------------------------------------------------------------------
(* The keyboard.  Whatever is in the buffer, buf_sanity leaves text up to  *)
(* the cursor; a key and the space bar only ever go one cell on.           *)

Buffers == [Index -> Characters \cup {NUL}]

KeyInv ==
    /\ input_buf \in Buffers
    /\ cursor_pos \in Index
    /\ label \in Seq(Characters) /\ Len(label) <= MAX_STR_LEN
    /\ TextReachesCursor

LEMMA NulIsNoCharacter == NUL \notin Characters
BY KeyboardAssumption DEF NUL, Characters

(* Up to its length a buffer holds characters, and there it ends. *)
LEMMA StrLenIsFirstNul ==
    ASSUME NEW buf \in Buffers
    PROVE  /\ StrLen(buf) \in 0..(MAX_STR_LEN + 1)
           /\ \A i \in Index : i < StrLen(buf) => buf[i] # NUL
           /\ \A i \in Index : buf[i] = NUL => StrLen(buf) <= i
<1>1. MAX_STR_LEN \in Nat
    BY KeyboardAssumption
<1>2. CASE \A i \in Index : buf[i] # NUL
    <2>1. StrLen(buf) = MAX_STR_LEN + 1
        BY <1>2 DEF StrLen
    <2>2. \A i \in Index : i < MAX_STR_LEN + 1 /\ (buf[i] = NUL => FALSE)
        BY <1>1, <1>2 DEF Index
    <2> QED BY <1>1, <1>2, <2>1, <2>2
<1>3. CASE ~ \A i \in Index : buf[i] # NUL
    <2> DEFINE Ends == {n \in Index : buf[n] = NUL}
               IsFirst(n) == buf[n] = NUL /\ \A i \in 0..(n - 1) : buf[i] # NUL
    <2>1. Ends \in SUBSET Nat /\ Ends # {}
        BY <1>1, <1>3 DEF Index
    <2>2. \E m \in Ends : \A n \in Ends : m <= n
        <3> HIDE DEF Ends
        <3> QED BY <2>1, LeastNatural
    <2>3. PICK m \in Ends : \A n \in Ends : m <= n
        BY <2>2
    <2>4. m \in Index /\ IsFirst(m)
        BY <1>1, <2>1, <2>3 DEF Index
    <2>5. StrLen(buf) = CHOOSE n \in Index : IsFirst(n)
        BY <1>3 DEF StrLen
    <2> HIDE DEF IsFirst
    <2>6. StrLen(buf) \in Index /\ IsFirst(StrLen(buf))
        BY <2>4, <2>5
    <2> QED BY <1>1, <2>6 DEF Index, IsFirst
<1> QED BY <1>2, <1>3

LEMMA SanityReachesCursor ==
    ASSUME NEW buf \in Buffers, NEW pos \in Index
    PROVE  /\ buf_sanity(buf, pos) \in Buffers
           /\ \A i \in 0..(pos - 1) : buf_sanity(buf, pos)[i] # NUL
<1> DEFINE marked == [buf EXCEPT ![pos] = IF @ = NUL THEN "_" ELSE @]
           kept == Filled(marked, pos)
<1>1. MAX_STR_LEN \in Nat
    BY KeyboardAssumption
<1>2. marked \in Buffers
    BY DEF Buffers, Characters
<1>3. kept = [i \in Index |-> IF StrLen(marked) <= i /\ i < pos THEN " " ELSE marked[i]]
    BY DEF Filled
<1> HIDE DEF marked
<1>4. kept \in Buffers
    BY <1>2, <1>3 DEF Buffers, Characters
<1>5. \A i \in 0..(pos - 1) : kept[i] # NUL
    <2>1. StrLen(marked) \in 0..(MAX_STR_LEN + 1)
          /\ \A i \in Index : i < StrLen(marked) => marked[i] # NUL
        BY <1>2, StrLenIsFirstNul
    <2>2. \A i \in 0..(pos - 1) : i \in Index /\ i < pos /\ (StrLen(marked) <= i \/ i < StrLen(marked))
        BY <1>1, <2>1 DEF Index
    <2>3. " " # NUL
        BY DEF NUL
    <2> HIDE DEF kept
    <2> QED BY <1>3, <2>1, <2>2, <2>3
<1>6. buf_sanity(buf, pos) =
          [i \in Index |-> IF i > pos /\ i < MAX_STR_LEN /\ kept[i] \in {" ", "_"} THEN NUL ELSE kept[i]]
    BY DEF buf_sanity, marked
<1> HIDE DEF kept
<1>7. buf_sanity(buf, pos) \in Buffers
    BY <1>4, <1>6 DEF Buffers
<1>8. \A i \in 0..(pos - 1) : i \in Index /\ ~(i > pos)
    BY <1>1 DEF Index
<1>9. \A i \in 0..(pos - 1) : buf_sanity(buf, pos)[i] = kept[i]
    BY <1>6, <1>8
<1> QED BY <1>5, <1>7, <1>9

(* What is accepted is characters only, and fits the buffer. *)
LEMMA AcceptedIsText ==
    ASSUME NEW buf \in Buffers, cursor_pos \in Index
    PROVE  Accepted(buf) \in Seq(Characters) /\ Len(Accepted(buf)) <= MAX_STR_LEN
<1> DEFINE ended == [buf EXCEPT ![cursor_pos] = NUL]
           text == StringAt(ended)
           last == Len(text)
<1>1. MAX_STR_LEN \in Nat
    BY KeyboardAssumption
<1>2. ended \in Buffers /\ ended[cursor_pos] = NUL
    BY DEF Buffers
<1>3. text = [i \in 1..StrLen(ended) |-> ended[i - 1]]
    BY DEF StringAt
<1> HIDE DEF ended
<1>4. /\ StrLen(ended) \in 0..MAX_STR_LEN
      /\ \A i \in Index : i < StrLen(ended) => ended[i] \in Characters
    BY <1>1, <1>2, StrLenIsFirstNul DEF Buffers, Index
<1>5. \A i \in 1..StrLen(ended) : ended[i - 1] \in Characters
    BY <1>1, <1>4 DEF Index
<1>6. text \in Seq(Characters) /\ Len(text) = StrLen(ended)
    BY <1>3, <1>4, <1>5, IsASeq
<1>7. Accepted(buf) = IF last > 0 /\ text[last] = "_" THEN SubSeq(text, 1, last - 1) ELSE text
    BY DEF Accepted, ended
<1> HIDE DEF text
<1>8. SubSeq(text, 1, last - 1) \in Seq(Characters) /\ Len(SubSeq(text, 1, last - 1)) <= MAX_STR_LEN
    <2>1. last \in Nat /\ last <= MAX_STR_LEN /\ \A i \in 1..(last - 1) : text[i] \in Characters
        BY <1>1, <1>4, <1>6
    <2>2. /\ SubSeq(text, 1, last - 1) \in Seq(Characters)
          /\ Len(SubSeq(text, 1, last - 1)) = IF 1 <= last - 1 THEN last - 1 - 1 + 1 ELSE 0
        BY <2>1, SubSeqProperties
    <2> QED BY <1>1, <2>1, <2>2
<1>9. CASE last > 0 /\ text[last] = "_"
    BY <1>7, <1>8, <1>9
<1>10. CASE ~(last > 0 /\ text[last] = "_")
    <2>1. Accepted(buf) = text
        BY <1>7, <1>10
    <2>2. Len(text) <= MAX_STR_LEN
        BY <1>1, <1>4, <1>6
    <2> QED BY <1>6, <2>1, <2>2
<1> QED BY <1>9, <1>10

LEMMA BufferOfIsBuffer ==
    ASSUME NEW text \in Seq(Characters) PROVE BufferOf(text) \in Buffers
<1>1. \A i \in Index : i < Len(text) => text[i + 1] \in Characters
    <2>1. Len(text) \in Nat
        OBVIOUS
    <2> MAX_STR_LEN \in Nat
        BY KeyboardAssumption
    <2>2. \A i \in Index : i \in Nat
        BY DEF Index
    <2>3. \A i \in Nat : i < Len(text) => i + 1 \in 1..Len(text)
        BY <2>1
    <2> QED BY <2>2, <2>3, ElementOfSeq
<1> QED BY <1>1 DEF BufferOf, Buffers

(* The text before the cursor, after one cell more. *)
LEMMA PutReachesCursor ==
    ASSUME input_buf \in Buffers, cursor_pos \in Index, NEW c \in Characters,
           \A i \in 0..(cursor_pos - 1) : input_buf[i] # NUL
    PROVE  /\ [input_buf EXCEPT ![cursor_pos] = c] \in Buffers
           /\ \A i \in 0..cursor_pos : [input_buf EXCEPT ![cursor_pos] = c][i] # NUL
<1> DEFINE put == [input_buf EXCEPT ![cursor_pos] = c]
<1>1. MAX_STR_LEN \in Nat /\ c # NUL
    BY KeyboardAssumption, NulIsNoCharacter
<1>2. \A i \in 0..cursor_pos : i \in Index /\ (i = cursor_pos \/ i \in 0..(cursor_pos - 1))
    BY <1>1 DEF Index
<1>3. \A i \in Index : put[i] = IF i = cursor_pos THEN c ELSE input_buf[i]
    BY DEF Buffers
<1>4. put \in Buffers
    BY DEF Buffers
<1> HIDE DEF put
<1>5. \A i \in 0..cursor_pos : put[i] # NUL
    BY <1>1, <1>2, <1>3
<1> QED BY <1>4, <1>5 DEF put

(* The cursor's cell as a key leaves it. *)
LEMMA MarkKeepsText ==
    ASSUME NEW put \in Buffers, NEW pos \in Index,
           \A i \in 0..(pos - 1) : put[i] # NUL
    PROVE  LET marked == [put EXCEPT ![pos] = IF @ = NUL THEN "_" ELSE @]
           IN  marked \in Buffers /\ \A i \in 0..(pos - 1) : marked[i] # NUL
<1> DEFINE marked == [put EXCEPT ![pos] = IF @ = NUL THEN "_" ELSE @]
<1>1. marked \in Buffers
    BY DEF Buffers, Characters
<1>2. \A i \in 0..(pos - 1) : i \in Index /\ i # pos
    <2>1. MAX_STR_LEN \in Nat
        BY KeyboardAssumption
    <2> QED BY <2>1 DEF Index
<1>3. \A i \in Index : i # pos => marked[i] = put[i]
    BY DEF Buffers
<1> HIDE DEF marked
<1>4. \A i \in 0..(pos - 1) : marked[i] # NUL
    BY <1>2, <1>3
<1> QED BY <1>1, <1>4 DEF marked

LEMMA KeyStep ==
    ASSUME KeyInv, KeyNext PROVE KeyInv'
<1>1. MAX_STR_LEN \in Nat \ {0, 1, 2} /\ VAL_LEN \in Nat \ {0}
    BY KeyboardAssumption
<1>2. input_buf \in Buffers /\ cursor_pos \in Index /\ cursor_pos \in 0..MAX_STR_LEN
    BY DEF KeyInv, Index
<1>3. label \in Seq(Characters) /\ Len(label) <= MAX_STR_LEN
    BY DEF KeyInv
<1>4. keyboard_open => \A i \in 0..(cursor_pos - 1) : input_buf[i] # NUL
    BY DEF KeyInv, TextReachesCursor
<1> DEFINE next == IF cursor_pos < MAX_STR_LEN THEN cursor_pos + 1 ELSE cursor_pos
<1>5. next \in Index /\ \A i \in 0..(next - 1) : i \in 0..cursor_pos
    <2>1. next \in 0..MAX_STR_LEN /\ next - 1 <= cursor_pos
        BY <1>1, <1>2
    <2> QED BY <1>2, <2>1 DEF Index
<1>6. cursor_pos < MAX_STR_LEN - 1 => cursor_pos + 1 \in Index
    BY <1>1, <1>2 DEF Index
<1> HIDE DEF next
(* What leaves the label alone only has to reach the cursor. *)
<1>7. ASSUME label' = label, input_buf' \in Buffers, cursor_pos' \in Index,
             \A i \in 0..(cursor_pos' - 1) : input_buf'[i] # NUL
      PROVE  KeyInv'
    BY <1>3, <1>7 DEF KeyInv, TextReachesCursor
<1>8. CASE menu_keyboard_get
    <2>1. Len(label) \in Index
        BY <1>1, <1>3 DEF Index
    <2>2. label' = label /\ cursor_pos' = Len(label) /\ input_buf' = buf_sanity(BufferOf(label), Len(label))
        BY <1>8 DEF menu_keyboard_get
    <2> QED BY <1>3, <1>7, <2>1, <2>2, BufferOfIsBuffer, SanityReachesCursor
<1>9. ASSUME NEW step \in {MAX_STR_LEN - 1, 1}, KeyNavigate(step) PROVE KeyInv'
    <2>1. (cursor_pos + step) % MAX_STR_LEN \in Index
        BY <1>1, <1>2 DEF Index
    <2> QED BY <1>2, <1>7, <1>9, <2>1, SanityReachesCursor DEF KeyNavigate
<1>10. ASSUME NEW c \in Letters \cup {"_"}, key_event(c) PROVE KeyInv'
    <2> DEFINE put == [input_buf EXCEPT ![cursor_pos] = c]
    <2>1. cursor_pos' = next /\ input_buf' = [put EXCEPT ![next] = IF @ = NUL THEN "_" ELSE @]
          /\ label' = label /\ keyboard_open
        BY <1>10 DEF key_event, next
    <2>2. c \in Characters
        BY DEF Characters
    <2>3. put \in Buffers /\ \A i \in 0..cursor_pos : put[i] # NUL
        BY <1>2, <1>4, <2>1, <2>2, PutReachesCursor
    <2> HIDE DEF put
    <2> QED BY <1>7, <1>5, <2>1, <2>3, MarkKeepsText
<1>11. CASE Space
    <2>1. /\ cursor_pos' = cursor_pos + 1 /\ label' = label /\ keyboard_open
          /\ cursor_pos < MAX_STR_LEN - 1
        BY <1>11 DEF Space
    <2>2. input_buf' = [input_buf EXCEPT ![cursor_pos] = " "] /\ " " \in Characters
        BY <1>11 DEF Space, Characters
    <2>3. input_buf' \in Buffers /\ \A i \in 0..cursor_pos : input_buf'[i] # NUL
        BY <1>2, <1>4, <2>1, <2>2, PutReachesCursor
    <2>4. cursor_pos' \in Index
        BY <1>6, <2>1
    <2>5. \A i \in 0..(cursor_pos' - 1) : input_buf'[i] # NUL
        BY <1>1, <1>2, <2>1, <2>3
    <2> QED BY <1>7, <2>1, <2>3, <2>4, <2>5
<1>12. CASE backspace
    <2>1. PICK past \in Characters \cup {NUL} :
              input_buf' = buf_sanity(StruckOut(past), cursor_pos - 1)
        BY <1>12 DEF backspace
    <2>2. cursor_pos > 0 /\ cursor_pos' = cursor_pos - 1 /\ label' = label
        BY <1>12 DEF backspace
    <2>3. cursor_pos - 1 \in Index
        BY <1>1, <1>2, <2>2 DEF Index
    <2>4. StruckOut(past) \in Buffers
        <3>1. \A i \in Index : i # MAX_STR_LEN => i + 1 \in Index
            BY <1>1 DEF Index
        <3> QED BY <1>2, <3>1 DEF StruckOut, Buffers
    <2> QED BY <1>7, <2>1, <2>2, <2>3, <2>4, SanityReachesCursor
<1>13. CASE accept
    <2> DEFINE text == Accepted(input_buf)
               n == IF Len(text) < VAL_LEN THEN Len(text) ELSE VAL_LEN
    <2>1. text \in Seq(Characters) /\ Len(text) <= MAX_STR_LEN
        BY <1>2, AcceptedIsText
    <2>2. /\ keyboard_open' = FALSE /\ input_buf' = BufferOf(text) /\ label' = SubSeq(text, 1, n)
          /\ cursor_pos' = cursor_pos
        BY <1>13 DEF accept
    <2> HIDE DEF text
    <2>3. n \in Nat /\ n <= MAX_STR_LEN /\ \A i \in 1..n : text[i] \in Characters
        BY <1>1, <2>1
    <2> HIDE DEF n
    <2>4. label' \in Seq(Characters) /\ Len(label') = IF 1 <= n THEN n - 1 + 1 ELSE 0
        BY <2>2, <2>3, SubSeqProperties
    <2>5. Len(label') <= MAX_STR_LEN
        BY <1>1, <2>3, <2>4
    <2>6. input_buf' \in Buffers
        BY <2>1, <2>2, BufferOfIsBuffer
    <2> QED BY <1>2, <2>2, <2>4, <2>5, <2>6 DEF KeyInv, TextReachesCursor
<1>14. CASE keyboard_return
    <2>1. keyboard_open /\ UNCHANGED <<input_buf, cursor_pos, label>>
        BY <1>14 DEF keyboard_return
    <2> QED BY <1>2, <1>4, <1>7, <2>1
<1>15. ASSUME NEW text \in OwnerTexts, OwnerSets(text) PROVE KeyInv'
    <2>1. text \in Seq(Characters) /\ Len(text) <= MAX_STR_LEN
        BY KeyboardAssumption
    <2>2. /\ label' = text /\ ~keyboard_open'
          /\ UNCHANGED <<input_buf, cursor_pos>>
        BY <1>15 DEF OwnerSets
    <2> QED BY <1>2, <2>1, <2>2 DEF KeyInv, TextReachesCursor
<1> QED BY <1>8, <1>9, <1>10, <1>11, <1>12, <1>13, <1>14, <1>15 DEF KeyNext

(* The text goes on to the cursor, whatever is typed, struck out and       *)
(* accepted and however the cursor gets around: the keyboard's string      *)
(* functions never stop short of what the user sees.  A field may have any *)
(* length; what its owner writes into it fits the keyboard's buffer.       *)
THEOREM KeyboardTextReachesCursor == KeySpec => []TextReachesCursor
<1>1. KeyInit => KeyInv
    <2>1. BufferOf(<<>>) \in Buffers
        BY BufferOfIsBuffer, EmptySeq
    <2>2. <<>> \in Seq(Characters) /\ Len(<<>>) = 0
        BY EmptySeq
    <2>3. MAX_STR_LEN \in Nat
        BY KeyboardAssumption
    <2>4. 0 \in Index /\ 0 <= MAX_STR_LEN
        BY <2>3 DEF Index
    <2>5. \A i \in 0..(0 - 1) : FALSE
        OBVIOUS
    <2> QED BY <2>1, <2>2, <2>4, <2>5 DEF KeyInit, KeyInv, TextReachesCursor
<1>2. KeyInv /\ [KeyNext]_KeyVars => KeyInv'
    <2>1. KeyInv /\ UNCHANGED KeyVars => KeyInv'
        BY DEF KeyVars, KeyInv, TextReachesCursor
    <2> QED BY <2>1, KeyStep
<1> QED BY <1>1, <1>2, PTL DEF KeySpec, KeyInv

-----------------------------------------------------------------------------
(* The file menu.  What the rows show depends on the scroll offset, which  *)
(* only some of the handlers that change the list set: the others must not *)
(* make the list shorter, except to nothing.                               *)

Dirs == {"top", "sub"}

FileTypes ==
    /\ card \in {"in", "out"} /\ cwd \in Dirs /\ folders \in [Dirs -> Nat]
    /\ dir_files \in Seq(DirEntries) /\ file_menu_offset \in Nat

(* The buttons and rows that are enabled are those the list calls for.     *)
Listing ==
    /\ file_rows = {r \in TheRows : r < Len(dir_files)}
    /\ \A button \in ScrollButtons : button \in file_buttons <=> Len(dir_files) > FILE_ROWS
Listed == card = "in" => dir_files = readdir(cwd, folders)
OffsetInList ==
    Len(dir_files) = 0 \/ file_menu_offset = 0 \/ file_menu_offset + FILE_ROWS <= Len(dir_files)
CursorScrolls ==
    file_cursor \in {Item(button) : button \in ScrollButtons} => Len(dir_files) > FILE_ROWS

FilesInv ==
    FileTypes /\ (Open => Listing /\ Listed /\ OffsetInList /\ CursorScrolls)

LEMMA ReaddirLength ==
    ASSUME NEW dir \in Dirs, NEW made \in [Dirs -> Nat]
    PROVE  /\ readdir(dir, made) \in Seq(DirEntries)
           /\ Len(readdir(dir, made)) = 1 + made[dir] + IF dir = "top" THEN TopFiles ELSE SubFiles
<1> DEFINE first == IF dir = "top" THEN <<"sub">> ELSE <<"..">>
           made_here == [i \in 1..made[dir] |-> "folder"]
           n == IF dir = "top" THEN TopFiles ELSE SubFiles
           files == [i \in 1..n |-> "file"]
<1>1. made[dir] \in Nat /\ n \in Nat
    BY FilesAssumption
<1>2. first \in Seq(DirEntries) /\ Len(first) = 1
    <2>1. "sub" \in DirEntries /\ ".." \in DirEntries
        BY DEF DirEntries
    <2>2. \A e \in DirEntries : <<e>> \in Seq(DirEntries) /\ Len(<<e>>) = 1
        OBVIOUS
    <2> QED BY <2>1, <2>2
<1>3. made_here \in Seq(DirEntries) /\ Len(made_here) = made[dir]
    <2>1. "folder" \in DirEntries
        BY DEF DirEntries
    <2> QED BY <1>1, <2>1, IsASeq
<1> HIDE DEF n
<1>4. files \in Seq(DirEntries) /\ Len(files) = n
    <2>1. "file" \in DirEntries
        BY DEF DirEntries
    <2> QED BY <1>1, <2>1, IsASeq
<1>5. readdir(dir, made) = first \o made_here \o files
    BY DEF readdir, n
<1> HIDE DEF first, made_here, files
<1>6. /\ first \o made_here \in Seq(DirEntries)
      /\ Len(first \o made_here) = Len(first) + Len(made_here)
    BY <1>2, <1>3, ConcatProperties
<1>7. /\ readdir(dir, made) \in Seq(DirEntries)
      /\ Len(readdir(dir, made)) = Len(first \o made_here) + Len(files)
    BY <1>4, <1>5, <1>6, ConcatProperties
<1>8. Len(readdir(dir, made)) = 1 + made[dir] + n
    BY <1>1, <1>2, <1>3, <1>4, <1>6, <1>7
<1> QED BY <1>7, <1>8 DEF n

(* What update_view leaves behind, on a card and without one. *)
LEMMA ViewUpdated ==
    ASSUME NEW dir \in Dirs, NEW mode, folders' \in [Dirs -> Nat], card' \in {"in", "out"},
           update_view(dir, mode)
    PROVE  /\ dir_files' \in Seq(DirEntries)
           /\ Listing'
           /\ card' = "in" => dir_files' = readdir(dir, folders')
           /\ card' # "in" => Len(dir_files') = 0
<1>1. dir_files' = IF card' = "in" THEN readdir(dir, folders') ELSE <<>>
    BY DEF update_view
<1>2. dir_files' \in Seq(DirEntries) /\ (card' # "in" => Len(dir_files') = 0)
    BY <1>1, ReaddirLength, EmptySeq
<1>3. file_rows' = {r \in TheRows : r < Len(dir_files')}
    BY DEF update_view
<1>4. \A button \in ScrollButtons : button \in file_buttons' <=> Len(dir_files') > FILE_ROWS
    <2>1. SaveButtons \cap ScrollButtons = {}
        BY DEF SaveButtons, ScrollButtons
    <2>2. CASE card' = "out"
        <3>1. Len(dir_files') = 0 /\ ~(0 > FILE_ROWS)
            BY <1>2, <2>2, FilesAssumption
        <3>2. file_buttons' = {}
            BY <2>2 DEF update_view
        <3> QED BY <3>1, <3>2
    <2>3. CASE card' = "in"
        <3>1. file_buttons' = (IF mode = "SAVE" THEN SaveButtons ELSE {})
                              \cup (IF Len(dir_files') > FILE_ROWS THEN ScrollButtons ELSE {})
            BY <2>3 DEF update_view
        <3> QED BY <2>1, <3>1
    <2> QED BY <2>2, <2>3
<1> QED BY <1>1, <1>2, <1>3, <1>4 DEF Listing

LEMMA FilesStep ==
    ASSUME FilesInv, FilesNext PROVE FilesInv'
<1>1. FILE_ROWS \in Nat \ {0} /\ Len(dir_files) \in Nat
    BY FilesAssumption DEF FilesInv, FileTypes
<1>2. FileTypes
    BY DEF FilesInv
(* What leaves the list and the cursor alone. *)
<1>3. ASSUME UNCHANGED <<folders, cwd, dir_files, file_menu_offset, file_rows, file_buttons>>,
             card' \in {"in", "out"}, card' = "in" => card = "in",
             Open' => Open /\ CursorScrolls'
      PROVE  FilesInv'
    BY <1>2, <1>3 DEF FilesInv, FileTypes, Listing, Listed, OffsetInList
(* What lists a directory, leaving the cursor on no scroll button. *)
<1>4. ASSUME NEW dir \in Dirs, NEW mode, update_view(dir, mode), cwd' = dir,
             card' \in {"in", "out"}, folders' \in [Dirs -> Nat], file_menu_offset' \in Nat,
             OffsetInList', file_cursor' \notin {Item(button) : button \in ScrollButtons}
      PROVE  FilesInv'
    <2>1. Listing' /\ Listed' /\ dir_files' \in Seq(DirEntries)
        BY <1>4, ViewUpdated DEF Listed
    <2>2. CursorScrolls'
        BY <1>4 DEF CursorScrolls
    <2> QED BY <1>4, <2>1, <2>2 DEF FilesInv, FileTypes
<1>5. /\ Item("return") \notin {Item(button) : button \in ScrollButtons}
      /\ Item("reset disk") \notin {Item(button) : button \in ScrollButtons}
      /\ Item("accept") \notin {Item(button) : button \in ScrollButtons}
      /\ Item("new folder") \notin {Item(button) : button \in ScrollButtons}
      /\ \A row : RowItem(row) \notin {Item(button) : button \in ScrollButtons}
      /\ file_cursor[1] = "row" => file_cursor \notin {Item(button) : button \in ScrollButtons}
    BY DEF Item, RowItem, ScrollButtons
<1>6. CASE menu_file_get
    <2>1. /\ file_cursor' = Item("return") /\ file_menu_offset' = 0
          /\ UNCHANGED <<card, folders, cwd>> /\ update_view(cwd, file_menu_mode')
        BY <1>6 DEF menu_file_get
    <2>2. OffsetInList' /\ file_menu_offset' \in Nat
        BY <2>1 DEF OffsetInList
    <2> QED BY <1>2, <1>4, <1>5, <2>1, <2>2 DEF FileTypes
<1>7. CASE reset_disk_onactivate
    <2>1. /\ file_cursor' = Item("reset disk") /\ file_menu_offset' = 0 /\ card' \in {"in", "out"}
          /\ cwd' = "top" /\ folders' = folders /\ update_view("top", file_menu_mode)
        BY <1>7 DEF reset_disk_onactivate, On
    <2>2. OffsetInList' /\ file_menu_offset' \in Nat
        BY <2>1 DEF OffsetInList
    <2>3. "top" \in Dirs
        BY DEF Dirs
    <2> QED BY <1>2, <1>4, <1>5, <2>1, <2>2, <2>3 DEF FileTypes
<1>8. CASE CardPulled
    <2>1. Open' => Open /\ CursorScrolls'
        BY <1>8 DEF CardPulled, Open, FilesInv, CursorScrolls
    <2>2. card' = "out" /\ UNCHANGED <<folders, cwd, dir_files, file_menu_offset, file_rows, file_buttons>>
        BY <1>8 DEF CardPulled
    <2> QED BY <1>3, <2>1, <2>2
<1>9. ASSUME NEW entry, return_path(entry) PROVE FilesInv'
    <2>1. ~Open' /\ UNCHANGED <<card, folders, cwd, dir_files, file_menu_offset, file_rows, file_buttons>>
        BY <1>9 DEF return_path, Open
    <2> QED BY <1>2, <1>3, <2>1 DEF FileTypes
<1>10. CASE accept_onactivate
    BY <1>9, <1>10 DEF accept_onactivate
<1>11. CASE menu_file_onactivate
    <2>1. PICK entry \in EntryAt(file_cursor[2] + file_menu_offset) :
          \/ /\ \E dir \in Reached(entry) :
                   cwd' = dir /\ UNCHANGED <<card, folders>> /\ update_view(dir, file_menu_mode)
             /\ file_menu_offset' = 0
             /\ UNCHANGED file_cursor
          \/ /\ file_cursor' = Item("accept")
             /\ UNCHANGED <<card, folders, cwd, dir_files, file_menu_offset, file_rows,
                            file_buttons, file_menu_mode>>
          \/ return_path(entry)
        BY <1>11 DEF menu_file_onactivate, ChdirOffset
    <2>2. Open /\ file_cursor[1] = "row"
        BY <1>11 DEF menu_file_onactivate
    <2>3. Reached(entry) \subseteq Dirs
        BY <1>2 DEF Reached, FileTypes, Dirs
    <2>4. ASSUME NEW dir \in Reached(entry), cwd' = dir, UNCHANGED <<card, folders>>,
                 update_view(dir, file_menu_mode), file_menu_offset' = 0, UNCHANGED file_cursor
          PROVE  FilesInv'
        <3>1. OffsetInList' /\ file_menu_offset' \in Nat
            BY <2>4 DEF OffsetInList
        <3> QED BY <1>2, <1>4, <1>5, <2>2, <2>3, <2>4, <3>1 DEF FileTypes
    <2>5. ASSUME file_cursor' = Item("accept"),
                 UNCHANGED <<card, folders, cwd, dir_files, file_menu_offset, file_rows,
                             file_buttons, file_menu_mode>>
          PROVE  FilesInv'
        <3>1. CursorScrolls'
            BY <1>5, <2>5 DEF CursorScrolls
        <3> QED BY <1>2, <1>3, <2>2, <2>5, <3>1 DEF FileTypes
    <2> QED BY <1>9, <2>1, <2>4, <2>5
<1>12. CASE new_folder_event
    <2>1. /\ Open /\ file_cursor' = Item("new folder") /\ UNCHANGED <<card, cwd, file_menu_offset>>
          /\ update_view(cwd, file_menu_mode)
        BY <1>12 DEF new_folder_event, On
    <2>2. folders' = folders \/ folders' = [folders EXCEPT ![cwd] = @ + 1]
        BY <1>12 DEF new_folder_event
    <2>3. folders' \in [Dirs -> Nat] /\ folders'[cwd] \in Nat /\ folders[cwd] \in Nat
          /\ folders'[cwd] >= folders[cwd]
        <3>1. folders \in [Dirs -> Nat] /\ cwd \in Dirs
            BY <1>2 DEF FileTypes
        <3> QED BY <2>2, <3>1
    <2>4. Listed /\ OffsetInList
        BY <2>1 DEF FilesInv
    <2>5. /\ card' = "in" => dir_files' = readdir(cwd, folders')
          /\ card' # "in" => Len(dir_files') = 0
        BY <1>2, <2>1, <2>3, ViewUpdated DEF FileTypes
    <2>6. CASE card = "in"
        <3>1. /\ Len(dir_files) = 1 + folders[cwd] + IF cwd = "top" THEN TopFiles ELSE SubFiles
              /\ Len(dir_files') = 1 + folders'[cwd] + IF cwd = "top" THEN TopFiles ELSE SubFiles
            BY <1>2, <2>1, <2>3, <2>4, <2>5, <2>6, ReaddirLength DEF FileTypes, Listed
        <3>2. (IF cwd = "top" THEN TopFiles ELSE SubFiles) \in Nat
            BY FilesAssumption
        <3>3. Len(dir_files') >= Len(dir_files) /\ Len(dir_files) # 0
            BY <2>3, <3>1, <3>2
        <3>4. file_menu_offset = 0 \/ file_menu_offset + FILE_ROWS <= Len(dir_files')
            <4>1. Len(dir_files') \in Nat /\ file_menu_offset \in Nat
                BY <1>2, <2>3, <3>1, <3>2 DEF FileTypes
            <4> QED BY <1>1, <2>4, <3>3, <4>1 DEF OffsetInList
        <3> QED BY <1>2, <1>4, <1>5, <2>1, <2>3, <3>4 DEF FileTypes, OffsetInList
    <2>7. CASE card # "in"
        BY <1>2, <1>4, <1>5, <2>1, <2>3, <2>5, <2>7 DEF FileTypes, OffsetInList
    <2> QED BY <2>6, <2>7
<1>13. CASE Scrolled
    <2>1. /\ Open /\ (file_menu_up \/ file_menu_down)
          /\ UNCHANGED <<card, folders, cwd, dir_files, file_rows, file_buttons, file_menu_mode, file_cursor>>
        BY <1>13 DEF Scrolled
    <2>2. Listing /\ Listed /\ OffsetInList /\ CursorScrolls
        BY <2>1 DEF FilesInv
    <2>3. Len(dir_files) > FILE_ROWS
        BY <2>1, <2>2 DEF file_menu_up, file_menu_down, On, CursorScrolls, ScrollButtons
    <2>4. \/ file_menu_offset' = IF file_menu_offset = 0 THEN Len(dir_files) - FILE_ROWS
                                 ELSE file_menu_offset - 1
          \/ file_menu_offset' = IF file_menu_offset >= Len(dir_files) - FILE_ROWS THEN 0
                                 ELSE file_menu_offset + 1
        BY <2>1 DEF file_menu_up, file_menu_down, Hidden
    <2>5. file_menu_offset \in Nat /\ file_menu_offset <= Len(dir_files) - FILE_ROWS
        BY <1>1, <1>2, <2>2, <2>3 DEF OffsetInList, FileTypes
    <2>6. file_menu_offset' \in Nat /\ file_menu_offset' + FILE_ROWS <= Len(dir_files)
        BY <1>1, <2>3, <2>4, <2>5
    <2>7. OffsetInList' /\ CursorScrolls' /\ Listing' /\ Listed'
        BY <2>1, <2>2, <2>6 DEF OffsetInList, CursorScrolls, Listing, Listed
    <2> QED BY <1>2, <2>1, <2>6, <2>7 DEF FilesInv, FileTypes
<1>14. CASE FileCursorMoved
    <2>1. /\ Open
          /\ file_cursor' \in {Item(name) : name \in AlwaysEnabled \cup file_buttons}
                              \cup {RowItem(row) : row \in file_rows}
          /\ UNCHANGED <<card, folders, cwd, dir_files, file_menu_offset, file_rows, file_buttons,
                         file_menu_mode>>
        BY <1>14 DEF FileCursorMoved
    <2>2. \A button \in ScrollButtons : button \in file_buttons => Len(dir_files) > FILE_ROWS
        BY <2>1 DEF FilesInv, Listing
    <2>3. ASSUME NEW button \in ScrollButtons, file_cursor' = Item(button)
          PROVE  button \in file_buttons
        BY <2>1, <2>3 DEF Item, RowItem, ScrollButtons, AlwaysEnabled
    <2>4. CursorScrolls'
        BY <2>1, <2>2, <2>3 DEF CursorScrolls
    <2> QED BY <1>2, <1>3, <2>1, <2>4 DEF FileTypes
<1>15. CASE FileMenuLeft
    <2>1. ~Open' /\ UNCHANGED <<card, folders, cwd, dir_files, file_menu_offset, file_rows, file_buttons>>
        BY <1>15 DEF FileMenuLeft, Open
    <2> QED BY <1>2, <1>3, <2>1 DEF FileTypes
<1> QED BY <1>6, <1>7, <1>8, <1>10, <1>11, <1>12, <1>13, <1>14, <1>15 DEF FilesNext

LEMMA FilesRowsShow == ASSUME FilesInv PROVE RowsShowEntries
<1> SUFFICES ASSUME Open PROVE
        /\ \A row \in file_rows : row + file_menu_offset < Len(dir_files)
        /\ Len(dir_files) > FILE_ROWS => ScrollButtons \subseteq file_buttons /\ file_rows = TheRows
    BY DEF RowsShowEntries
<1>1. FILE_ROWS \in Nat \ {0} /\ Len(dir_files) \in Nat /\ file_menu_offset \in Nat
    BY FilesAssumption DEF FilesInv, FileTypes
<1>2. /\ file_rows = {r \in TheRows : r < Len(dir_files)}
      /\ \A button \in ScrollButtons : button \in file_buttons <=> Len(dir_files) > FILE_ROWS
      /\ Len(dir_files) = 0 \/ file_menu_offset = 0 \/ file_menu_offset + FILE_ROWS <= Len(dir_files)
    BY DEF FilesInv, Listing, OffsetInList
<1>3. \A row \in file_rows : row + file_menu_offset < Len(dir_files)
    BY <1>1, <1>2 DEF TheRows
<1>4. Len(dir_files) > FILE_ROWS => file_rows = TheRows
    BY <1>1, <1>2 DEF TheRows
<1> QED BY <1>2, <1>3, <1>4

(* Every row that is drawn has an entry to draw and every entry can be     *)
(* scrolled to, wherever the user goes and whatever becomes of the card.   *)
THEOREM FilesRowsShowEntries == FilesSpec => []RowsShowEntries
<1>1. FilesInit => FilesInv
    <2>1. FilesInit => FileTypes
        BY EmptySeq DEF FilesInit, FileTypes, Dirs
    <2> QED BY <2>1 DEF FilesInit, FilesInv, Open
<1>2. FilesInv /\ [FilesNext]_FileVars => FilesInv'
    <2>1. FilesInv /\ UNCHANGED FileVars => FilesInv'
        BY DEF FileVars, FilesInv, FileTypes, Listing, Listed, OffsetInList, CursorScrolls, Open
    <2> QED BY <2>1, FilesStep
<1> QED BY <1>1, <1>2, FilesRowsShow, PTL DEF FilesSpec

-----------------------------------------------------------------------------
(* The memory page.  Its address is a multiple of the size shown at every  *)
(* time: what comes from outside is aligned to it, what is added and where *)
(* it is put back to are multiples of eight, as actors' addresses are.     *)

Sizes == {1, 2, 4}

MemoryAligned ==
    /\ memory_view_size \in Sizes
    /\ memory_start_addr \in Int /\ memory_start_addr % memory_view_size = 0
    /\ memory_item_cells = {idx \in 0..(PAGE - 1) : idx % memory_view_size = 0}

ActorInRange ==
    /\ actor_count \in [ActorTypes -> 0..ACTOR_MAX]
    /\ actor_type \in ActorTypes /\ actor_idx \in Nat

DebugInv == MemoryAligned /\ ActorInRange

(* A multiple of eight is one of every size, and sums of multiples are. *)
LEMMA MultiplesOfEight ==
    ASSUME NEW size \in Sizes
    PROVE  /\ \A a \in Int : a % 8 = 0 => a % size = 0
           /\ \A a, b \in Int : a % size = 0 /\ b % size = 0 => (a + b) % size = 0 /\ (a - b) % size = 0
<1>1. CASE size = 1
    BY <1>1
<1>2. CASE size = 2
    BY <1>2
<1>3. CASE size = 4
    BY <1>3
<1> QED BY <1>1, <1>2, <1>3 DEF Sizes

LEMMA AlignedIsMultiple ==
    ASSUME NEW address \in Int, NEW size \in Sizes
    PROVE  AlignedTo(address, size) \in Int /\ AlignedTo(address, size) % size = 0
<1>1. CASE size = 1
    BY <1>1 DEF AlignedTo
<1>2. CASE size = 2
    BY <1>2 DEF AlignedTo
<1>3. CASE size = 4
    BY <1>3 DEF AlignedTo
<1> QED BY <1>1, <1>2, <1>3 DEF Sizes

(* The one cell a byte is in. *)
LEMMA CellOfByte ==
    ASSUME NEW size \in Sizes, NEW byte \in Nat
    PROVE  LET cell == byte - (byte % size)
           IN  /\ cell \in 0..byte /\ cell % size = 0 /\ byte \in cell..(cell + size - 1)
               /\ \A idx \in Nat : idx % size = 0 /\ byte \in idx..(idx + size - 1) => idx = cell
<1>1. CASE size = 1
    BY <1>1
<1>2. CASE size = 2
    BY <1>2
<1>3. CASE size = 4
    BY <1>3
<1> QED BY <1>1, <1>2, <1>3 DEF Sizes

LEMMA DebugCellsAligned == ASSUME MemoryAligned PROVE CellsAligned
<1>1. /\ memory_view_size \in Sizes /\ memory_start_addr \in Int
      /\ memory_start_addr % memory_view_size = 0
      /\ memory_item_cells = {idx \in 0..(PAGE - 1) : idx % memory_view_size = 0}
      /\ PAGE \in Nat
    BY DebugAssumption DEF MemoryAligned, PAGE
<1>2. ASSUME NEW idx \in memory_item_cells
      PROVE  (memory_start_addr + idx) % memory_view_size = 0
    <2>1. idx \in Int /\ idx % memory_view_size = 0
        BY <1>1
    <2> QED BY <1>1, <2>1, MultiplesOfEight
<1>3. ASSUME NEW byte \in 0..(PAGE - 1)
      PROVE  Cardinality({idx \in memory_item_cells : byte \in idx..(idx + memory_view_size - 1)}) = 1
    <2> DEFINE cell == byte - (byte % memory_view_size)
    <2>1. byte \in Nat
        BY <1>1
    <2>2. /\ cell \in 0..byte /\ cell % memory_view_size = 0
          /\ byte \in cell..(cell + memory_view_size - 1)
          /\ \A idx \in Nat : idx % memory_view_size = 0 /\ byte \in idx..(idx + memory_view_size - 1)
                => idx = cell
        BY <1>1, <2>1, CellOfByte
    <2> HIDE DEF cell
    <2>3. cell \in memory_item_cells
        BY <1>1, <2>1, <2>2
    <2>4. \A idx \in memory_item_cells : idx \in Nat /\ idx % memory_view_size = 0
        BY <1>1
    <2>5. {idx \in memory_item_cells : byte \in idx..(idx + memory_view_size - 1)} = {cell}
        BY <2>2, <2>3, <2>4
    <2> QED BY <2>5, FS_Singleton
<1> QED BY <1>2, <1>3 DEF CellsAligned

(* What the page shows after a handler that sets its address and size. *)
LEMMA ShownAligned ==
    ASSUME NEW address \in Int, NEW size \in Sizes, address % size = 0, MemoryShows(address, size)
    PROVE  MemoryAligned'
BY DEF MemoryShows, memory_table_update, MemoryAligned, PAGE

LEMMA DebugStep ==
    ASSUME DebugInv, DebugNext PROVE DebugInv'
<1>1. /\ memory_view_size \in Sizes /\ memory_start_addr \in Int
      /\ memory_start_addr % memory_view_size = 0
    BY DEF DebugInv, MemoryAligned
<1>2. actor_count \in [ActorTypes -> 0..ACTOR_MAX] /\ actor_type \in ActorTypes /\ actor_idx \in Nat
    BY DEF DebugInv, ActorInRange
<1>3. /\ RAM_START \in Nat /\ RAM_START % 8 = 0 /\ MEMORY_MAX \in Nat /\ MEMORY_MAX % 8 = 0
      /\ ROWS \in Nat \ {0} /\ Addresses \subseteq Nat
      /\ ACTOR_TYPES \in Nat \ {0} /\ ACTOR_MAX \in Nat
    BY DebugAssumption
<1>4. PAGE \in Nat /\ PAGE % 8 = 0 /\ (MEMORY_MAX - PAGE) % 8 = 0 /\ MEMORY_MAX - PAGE \in Int
    BY <1>3 DEF PAGE
<1> DEFINE Multiple(a) == a % memory_view_size = 0
<1>5. /\ Multiple(memory_start_addr)
      /\ \A a \in Int : a % 8 = 0 => Multiple(a)
      /\ \A a, b \in Int : Multiple(a) /\ Multiple(b) => Multiple(a + b) /\ Multiple(a - b)
    BY <1>1, MultiplesOfEight
<1> HIDE DEF Multiple
(* The actors stay, or the memory page. *)
<1>6. ASSUME UNCHANGED actorVars, MemoryAligned' PROVE DebugInv'
    BY <1>2, <1>6 DEF actorVars, DebugInv, ActorInRange
<1>7. ASSUME UNCHANGED memoryVars, ActorInRange' PROVE DebugInv'
    BY <1>7 DEF memoryVars, DebugInv, MemoryAligned
<1>8. CASE memory_start_event
    <2>1. PICK value \in Addresses :
              MemoryShows(AlignedTo(value, memory_view_size), memory_view_size) /\ UNCHANGED actorVars
        BY <1>8 DEF memory_start_event
    <2>2. value \in Int
        BY <1>3
    <2> QED BY <1>1, <1>6, <2>1, <2>2, AlignedIsMultiple, ShownAligned
<1>9. CASE memory_size_onlist
    <2>1. PICK size \in Sizes : MemoryShows(AlignedTo(memory_start_addr, size), size) /\ UNCHANGED actorVars
        BY <1>9 DEF memory_size_onlist, Sizes
    <2> QED BY <1>1, <1>6, <2>1, AlignedIsMultiple, ShownAligned
<1>10. CASE memory_inc_onactivate
    <2>1. PICK step \in {8, PAGE} :
              /\ MemoryShows(IF memory_start_addr + step >= MEMORY_MAX - PAGE
                             THEN RAM_START ELSE memory_start_addr + step, memory_view_size)
              /\ UNCHANGED actorVars
        BY <1>10 DEF memory_inc_onactivate
    <2> DEFINE address == IF memory_start_addr + step >= MEMORY_MAX - PAGE
                          THEN RAM_START ELSE memory_start_addr + step
    <2>2. step \in Int /\ step % 8 = 0
        BY <1>4
    <2>3. address \in Int /\ address % memory_view_size = 0
        <3>1. step \in Int /\ Multiple(step)
            BY <2>2, <1>5
        <3>2. RAM_START \in Int /\ RAM_START % 8 = 0
            BY <1>3
        <3>3. RAM_START \in Int /\ Multiple(RAM_START)
            BY <3>2, <1>5
        <3>4. memory_start_addr + step \in Int /\ Multiple(memory_start_addr + step)
            BY <1>1, <1>5, <3>1
        <3>5. address \in Int /\ Multiple(address)
            BY <3>3, <3>4
        <3> QED BY <3>5 DEF Multiple
    <2> HIDE DEF address
    <2>4. MemoryShows(address, memory_view_size) /\ UNCHANGED actorVars
        BY <2>1 DEF address
    <2> QED BY <1>1, <1>6, <2>3, <2>4, ShownAligned
<1>11. CASE memory_dec_onactivate
    <2>1. PICK step \in {8, PAGE} :
              /\ MemoryShows(IF memory_start_addr <= RAM_START
                             THEN MEMORY_MAX - PAGE ELSE memory_start_addr - step, memory_view_size)
              /\ UNCHANGED actorVars
        BY <1>11 DEF memory_dec_onactivate
    <2> DEFINE address == IF memory_start_addr <= RAM_START
                          THEN MEMORY_MAX - PAGE ELSE memory_start_addr - step
    <2>2. step \in Int /\ step % 8 = 0
        BY <1>4
    <2>3. address \in Int /\ address % memory_view_size = 0
        <3>1. step \in Int /\ Multiple(step) /\ MEMORY_MAX - PAGE \in Int /\ Multiple(MEMORY_MAX - PAGE)
            BY <1>4, <1>5, <2>2
        <3>2. memory_start_addr - step \in Int /\ Multiple(memory_start_addr - step)
            BY <1>1, <1>5, <3>1
        <3>3. address \in Int /\ Multiple(address)
            BY <3>1, <3>2
        <3> QED BY <3>3 DEF Multiple
    <2> HIDE DEF address
    <2>4. MemoryShows(address, memory_view_size) /\ UNCHANGED actorVars
        BY <2>1 DEF address
    <2> QED BY <1>1, <1>6, <2>3, <2>4, ShownAligned
<1>12. CASE actor_button_onactivate
    <2> DEFINE address == IF Exists THEN ActorAddress(actor_type, actor_idx) ELSE 0
    <2>1. Exists => ActorAddress(actor_type, actor_idx) \in Nat /\ ActorAddress(actor_type, actor_idx) % 8 = 0
        <3>1. Exists => actor_idx \in 0..ACTOR_MAX
            BY <1>2, <1>3 DEF Exists
        <3> QED BY <1>2, <3>1, DebugAssumption DEF ActorTypes
    <2>2. address \in Int /\ address % 8 = 0
        BY <2>1
    <2> HIDE DEF address
    <2>3. MemoryShows(address, memory_view_size) /\ UNCHANGED actorVars
        BY <1>12 DEF actor_button_onactivate, address
    <2> QED BY <1>1, <1>6, <2>2, <2>3, MultiplesOfEight, ShownAligned
<1>13. CASE ActorSelected
    <2>1. SelectActor /\ UNCHANGED memoryVars /\ UNCHANGED actor_count
        BY <1>13 DEF ActorSelected
    <2>2. actor_type' \in ActorTypes
        BY <1>2, <1>3, <2>1 DEF SelectActor, ActorTypes
    <2>3. actor_count[actor_type] \in Nat /\ actor_count'[actor_type'] \in Nat
        BY <1>2, <1>3, <2>1, <2>2
    <2>4. actor_idx' \in Nat
        BY <1>2, <2>1, <2>3 DEF SelectActor
    <2> QED BY <1>2, <1>7, <2>1, <2>2, <2>4 DEF ActorInRange
<1>14. CASE actor_info_draw
    <2>1. actor_count[actor_type] \in Nat
        BY <1>2, <1>3
    <2>2. actor_idx' \in Nat /\ UNCHANGED memoryVars /\ UNCHANGED <<actor_count, actor_type>>
        BY <1>14, <2>1 DEF actor_info_draw
    <2> QED BY <1>2, <1>7, <2>2 DEF ActorInRange
<1>15. CASE delete_actor_onactivate
    <2>1. /\ Exists /\ actor_count' = [actor_count EXCEPT ![actor_type] = @ - 1]
          /\ UNCHANGED memoryVars /\ UNCHANGED actor_type
        BY <1>15 DEF delete_actor_onactivate
    <2>2. actor_count[actor_type] \in 0..ACTOR_MAX /\ actor_count[actor_type] - 1 \in 0..ACTOR_MAX
        BY <1>2, <1>3, <2>1 DEF Exists
    <2>3. actor_count' \in [ActorTypes -> 0..ACTOR_MAX]
        BY <1>2, <2>1, <2>2
    <2>4. actor_idx' \in Nat
        BY <1>2, <1>15 DEF delete_actor_onactivate
    <2> QED BY <1>2, <1>7, <2>1, <2>3, <2>4 DEF ActorInRange
<1>16. CASE ActorsChange
    <2>1. PICK type \in ActorTypes :
              \/ actor_count[type] < ACTOR_MAX /\ actor_count' = [actor_count EXCEPT ![type] = @ + 1]
              \/ actor_count[type] > 0 /\ actor_count' = [actor_count EXCEPT ![type] = @ - 1]
        BY <1>16 DEF ActorsChange
    <2>2. actor_count[type] \in 0..ACTOR_MAX
        BY <1>2
    <2>3. actor_count' \in [ActorTypes -> 0..ACTOR_MAX]
        BY <1>2, <1>3, <2>1, <2>2
    <2>4. UNCHANGED memoryVars /\ UNCHANGED <<actor_type, actor_idx>>
        BY <1>16 DEF ActorsChange
    <2> QED BY <1>2, <1>7, <2>3, <2>4 DEF ActorInRange
<1>17. CASE view_actor_event \/ ObjectsChange \/ FlagsPage
    <2>1. UNCHANGED memoryVars /\ UNCHANGED actorVars
        BY <1>17 DEF view_actor_event, ObjectsChange, FlagsPage
    <2>2. ActorInRange'
        BY <1>2, <2>1 DEF actorVars, ActorInRange
    <2> QED BY <1>7, <2>1, <2>2
<1> QED BY <1>8, <1>9, <1>10, <1>11, <1>12, <1>13, <1>14, <1>15, <1>16, <1>17 DEF DebugNext

(* The table is read and written in aligned units only, whatever addresses *)
(* are entered, whichever way and by whatever step the page is moved, and  *)
(* whichever actor is looked at, for memory of any place and size.         *)
THEOREM DebugTableAligned == DebugSpec => []CellsAligned
<1>1. DebugInit => DebugInv
    <2> SUFFICES ASSUME DebugInit PROVE DebugInv
        OBVIOUS
    <2>1. memory_view_size = 1 /\ memory_start_addr \in Int /\ PAGE \in Nat
        BY DebugAssumption DEF DebugInit, PAGE
    <2>2. MemoryAligned
        BY <2>1 DEF DebugInit, MemoryAligned, Sizes
    <2>3. ActorInRange
        <3>1. 0 \in ActorTypes /\ 0 \in Nat
            BY DebugAssumption DEF ActorTypes
        <3> QED BY <3>1 DEF DebugInit, ActorsInit, ActorInRange
    <2> QED BY <2>2, <2>3 DEF DebugInv
<1>2. DebugInv /\ [DebugNext]_DebugVars => DebugInv'
    <2>1. DebugInv /\ UNCHANGED DebugVars => DebugInv'
        BY DEF DebugVars, memoryVars, actorVars, DebugInv, MemoryAligned, ActorInRange
    <2> QED BY <2>1, DebugStep
<1>3. DebugInv => CellsAligned
    BY DebugCellsAligned DEF DebugInv
<1> QED BY <1>1, <1>2, <1>3, PTL DEF DebugSpec

-----------------------------------------------------------------------------
(* The watches menu.  Rows and watches are two lists that handlers change  *)
(* together; an identity is what keeps a row at its watch when others go.  *)

Row == [id : Nat, watch : Nat, y : Int, on_tile : {1, 7}, move_enabled : BOOLEAN,
        addr : Int, type : Types]

(* A row and its watch, the k-th of both lists. *)
Shows(row, w, k) ==
    /\ row.id = w.id /\ row.watch = w.id /\ row.y = 2 * k - 1
    /\ row.addr = w.address /\ row.move_enabled = w.floating
    /\ row.on_tile = IF w.floating THEN 1 ELSE 7

IsWatchList(ws) ==
    /\ ws \in Seq(Watch) /\ Len(ws) <= WATCHES_MAX
    /\ \A j \in 1..Len(ws) : ws[j].id \in 1..(WATCHES_MAX + 1)
    /\ \A j, k \in 1..Len(ws) : ws[j].id = ws[k].id => j = k

RowsMatch(rows, ws) ==
    /\ rows \in Seq(Row) /\ Len(rows) = Len(ws)
    /\ \A k \in 1..Len(ws) : Shows(rows[k], ws[k], k)

WatchInv ==
    /\ IsWatchList(watches) /\ RowsMatch(watch_rows, watches)
    /\ add_y = 1 + 2 * Len(watches)
    /\ prev_addr \in Int /\ prev_type \in Types

(* There is always an identity left for one more watch. *)
LEMMA NewIdIsNew ==
    ASSUME IsWatchList(watches), RowsMatch(watch_rows, watches)
    PROVE  /\ NewId(watch_rows) \in 1..(WATCHES_MAX + 1)
           /\ \A k \in 1..Len(watches) : watches[k].id # NewId(watch_rows)
<1> DEFINE ids == {watch_rows[i].id : i \in DOMAIN watch_rows}
           all == 1..(WATCHES_MAX + 1)
           free == all \ ids
<1>1. WATCHES_MAX \in Nat /\ Len(watches) \in Nat /\ Len(watches) <= WATCHES_MAX
    BY WatchesAssumption DEF IsWatchList
<1>2. /\ DOMAIN watch_rows = 1..Len(watches)
      /\ \A k \in 1..Len(watches) : watch_rows[k].id = watches[k].id
    BY DEF RowsMatch, Shows
<1>3. free # {}
    <2> SUFFICES ASSUME free = {} PROVE FALSE
        OBVIOUS
    <2> DEFINE at == [id \in all |-> CHOOSE k \in 1..Len(watches) : watches[k].id = id]
    <2>1. \A id \in all : \E k \in 1..Len(watches) : watches[k].id = id
        BY <1>2
    <2>2. \A id \in all : at[id] \in 1..Len(watches) /\ watches[at[id]].id = id
        BY <2>1
    <2>3. at \in [all -> 1..Len(watches)]
        <3>1. at = [id \in all |-> at[id]]
            OBVIOUS
        <3> HIDE DEF at
        <3> QED BY <2>2, <3>1
    <2> HIDE DEF at
    <2>4. /\ IsFiniteSet(all) /\ Cardinality(all) = WATCHES_MAX + 1
          /\ IsFiniteSet(1..Len(watches)) /\ Cardinality(1..Len(watches)) = Len(watches)
        <3>1. ASSUME NEW m \in Nat PROVE IsFiniteSet(1..m) /\ Cardinality(1..m) = m
            <4>1. IsFiniteSet(1..m) /\ Cardinality(1..m) = IF 1 > m THEN 0 ELSE m - 1 + 1
                BY FS_Interval
            <4> QED BY <4>1
        <3>2. WATCHES_MAX + 1 \in Nat
            BY <1>1
        <3> QED BY <1>1, <3>1, <3>2
    <2>5. Cardinality(1..Len(watches)) < Cardinality(all)
        BY <1>1, <2>4
    <2> HIDE DEF all
    <2>6. \E x, y \in all : x # y /\ at[x] = at[y]
        BY <2>3, <2>4, <2>5, FS_PigeonHole
    <2> QED BY <2>2, <2>6
<1>4. free \in SUBSET Nat
    BY <1>1
<1>5. \E id \in free : \A j \in free : id <= j
    <2> HIDE DEF free
    <2> QED BY <1>3, <1>4, LeastNatural
<1>6. NewId(watch_rows) = CHOOSE id \in free : \A j \in free : id <= j
    BY DEF NewId
<1> HIDE DEF free
<1>7. NewId(watch_rows) \in free
    BY <1>5, <1>6
<1> QED BY <1>2, <1>7 DEF free

(* A row finds its own watch. *)
LEMMA WatchOfRow ==
    ASSUME IsWatchList(watches), RowsMatch(watch_rows, watches), NEW i \in 1..Len(watches)
    PROVE  WatchOf(watch_rows[i]) = i
<1>1. watches[i].id = watch_rows[i].watch
    BY DEF RowsMatch, Shows
<1>2. \A j \in 1..Len(watches) : watches[j].id = watches[i].id => j = i
    BY DEF IsWatchList
<1>3. DOMAIN watches = 1..Len(watches)
    BY DEF IsWatchList
<1> QED BY <1>1, <1>2, <1>3 DEF WatchOf

(* A handler of one row changes that row and its watch, and no identity. *)
LEMMA OneRowChanged ==
    ASSUME IsWatchList(watches), RowsMatch(watch_rows, watches), NEW i \in 1..Len(watches),
           NEW w \in Watch, NEW row \in Row, w.id = watches[i].id, Shows(row, w, i)
    PROVE  IsWatchList([watches EXCEPT ![i] = w])
           /\ RowsMatch([watch_rows EXCEPT ![i] = row], [watches EXCEPT ![i] = w])
           /\ Len([watches EXCEPT ![i] = w]) = Len(watches)
<1> DEFINE ws == [watches EXCEPT ![i] = w]
           rows == [watch_rows EXCEPT ![i] = row]
<1>1. /\ watches \in Seq(Watch) /\ Len(watches) <= WATCHES_MAX
      /\ watch_rows \in Seq(Row) /\ Len(watch_rows) = Len(watches)
    BY DEF IsWatchList, RowsMatch
<1>2. /\ ws \in Seq(Watch) /\ Len(ws) = Len(watches)
      /\ \A j \in 1..Len(watches) : ws[j] = IF j = i THEN w ELSE watches[j]
    BY <1>1, ExceptSeq
<1>3. /\ rows \in Seq(Row) /\ Len(rows) = Len(watches)
      /\ \A j \in 1..Len(watches) : rows[j] = IF j = i THEN row ELSE watch_rows[j]
    <2>1. i \in 1..Len(watch_rows)
        BY <1>1
    <2> QED BY <1>1, <2>1, ExceptSeq
<1> HIDE DEF ws, rows
<1>4. \A j \in 1..Len(watches) : ws[j].id = watches[j].id
    BY <1>2
<1>5. IsWatchList(ws)
    BY <1>1, <1>2, <1>4 DEF IsWatchList
<1>6. \A j \in 1..Len(watches) : Shows(rows[j], ws[j], j)
    <2>1. \A j \in 1..Len(watches) : Shows(watch_rows[j], watches[j], j)
        BY DEF RowsMatch
    <2> QED BY <1>2, <1>3, <2>1
<1> QED BY <1>2, <1>3, <1>5, <1>6 DEF RowsMatch, ws, rows

(* A watch and a row go on at the end. *)
LEMMA RowAdded ==
    ASSUME IsWatchList(watches), RowsMatch(watch_rows, watches), Len(watches) < WATCHES_MAX,
           NEW w \in Watch, NEW row \in Row, Shows(row, w, Len(watches) + 1),
           w.id \in 1..(WATCHES_MAX + 1), \A k \in 1..Len(watches) : watches[k].id # w.id
    PROVE  IsWatchList(Append(watches, w)) /\ RowsMatch(Append(watch_rows, row), Append(watches, w))
           /\ Len(Append(watches, w)) = Len(watches) + 1
<1> DEFINE n == Len(watches)
           ws == Append(watches, w)
           rows == Append(watch_rows, row)
<1>1. /\ watches \in Seq(Watch) /\ watch_rows \in Seq(Row) /\ Len(watch_rows) = n
      /\ n \in Nat /\ WATCHES_MAX \in Nat
    BY WatchesAssumption DEF IsWatchList, RowsMatch
<1>2. /\ ws \in Seq(Watch) /\ Len(ws) = n + 1
      /\ \A k \in 1..n : ws[k] = watches[k]
      /\ ws[n + 1] = w
    BY <1>1, AppendProperties
<1>3. /\ rows \in Seq(Row) /\ Len(rows) = n + 1
      /\ \A k \in 1..n : rows[k] = watch_rows[k]
      /\ rows[n + 1] = row
    BY <1>1, AppendProperties
<1>4. \A k \in 1..(n + 1) : k \in 1..n \/ k = n + 1
    BY <1>1
<1>5. IsWatchList(ws)
    <2>1. /\ \A j \in 1..n : watches[j].id \in 1..(WATCHES_MAX + 1)
          /\ \A j, k \in 1..n : watches[j].id = watches[k].id => j = k
        BY DEF IsWatchList
    <2>2. n + 1 <= WATCHES_MAX
        BY <1>1
    <2> HIDE DEF n, ws
    <2>3. \A j \in 1..(n + 1) : ws[j].id \in 1..(WATCHES_MAX + 1)
        BY <1>2, <1>4, <2>1
    <2>4. \A j, k \in 1..(n + 1) : ws[j].id = ws[k].id => j = k
        BY <1>2, <1>4, <2>1 DEF n
    <2> QED BY <1>2, <2>2, <2>3, <2>4 DEF IsWatchList
<1>6. RowsMatch(rows, ws)
    <2>1. \A k \in 1..n : Shows(watch_rows[k], watches[k], k)
        BY DEF RowsMatch
    <2> HIDE DEF ws, rows
    <2>2. \A k \in 1..(n + 1) : Shows(rows[k], ws[k], k)
        BY <1>2, <1>3, <1>4, <2>1
    <2> QED BY <1>2, <1>3, <2>2 DEF RowsMatch
<1> QED BY <1>2, <1>5, <1>6

(* A watch and its row go, and the rows below move up. *)
LEMMA RowRemoved ==
    ASSUME IsWatchList(watches), RowsMatch(watch_rows, watches), NEW i \in 1..Len(watches)
    PROVE  LET ws == RemoveAt(watches, i)
               rows == MovedUp(RemoveAt(watch_rows, i), i)
           IN  /\ IsWatchList(ws) /\ RowsMatch(rows, ws) /\ Len(ws) = Len(watches) - 1
<1> DEFINE n == Len(watches)
           ws == RemoveAt(watches, i)
           left == RemoveAt(watch_rows, i)
           rows == MovedUp(left, i)
           old(k) == IF k < i THEN k ELSE k + 1
<1>1. /\ watches \in Seq(Watch) /\ watch_rows \in Seq(Row) /\ Len(watch_rows) = n
      /\ n \in Nat /\ n <= WATCHES_MAX /\ WATCHES_MAX \in Nat /\ i \in 1..n
    BY WatchesAssumption DEF IsWatchList, RowsMatch
<1>2. /\ ws \in Seq(Watch) /\ Len(ws) = n - 1
      /\ \A k \in 1..(n - 1) : ws[k] = watches[old(k)]
    BY <1>1, RemoveAtProperties
<1>3. /\ left \in Seq(Row) /\ Len(left) = n - 1
      /\ \A k \in 1..(n - 1) : left[k] = watch_rows[old(k)]
    <2>1. i \in 1..Len(watch_rows)
        BY <1>1
    <2> QED BY <1>1, <2>1, RemoveAtProperties
<1>4. \A k \in 1..(n - 1) : old(k) \in 1..n
    BY <1>1
<1>5. \A j, k \in 1..(n - 1) : old(j) = old(k) => j = k
    BY <1>1
<1>6. \A k \in 1..(n - 1) : k \in Int /\ (k >= i => 2 * old(k) - 1 - 2 = 2 * k - 1)
                            /\ (~(k >= i) => old(k) = k)
    BY <1>1
<1>7. DOMAIN left = 1..(n - 1)
    BY <1>3
<1> HIDE DEF ws, left, old
<1>8. rows = [k \in 1..(n - 1) |-> IF k >= i THEN [left[k] EXCEPT !.y = @ - 2] ELSE left[k]]
    BY <1>7 DEF MovedUp
<1> HIDE DEF rows
<1>9. IsWatchList(ws)
    <2>1. /\ \A j \in 1..n : watches[j].id \in 1..(WATCHES_MAX + 1)
          /\ \A j, k \in 1..n : watches[j].id = watches[k].id => j = k
        BY DEF IsWatchList
    <2>2. n - 1 <= WATCHES_MAX
        BY <1>1
    <2> HIDE DEF n
    <2>3. \A j \in 1..(n - 1) : ws[j].id \in 1..(WATCHES_MAX + 1)
        BY <1>2, <1>4, <2>1
    <2>4. \A j, k \in 1..(n - 1) : ws[j].id = ws[k].id => j = k
        BY <1>2, <1>4, <1>5, <2>1
    <2> QED BY <1>2, <2>2, <2>3, <2>4 DEF IsWatchList
<1>10. ASSUME NEW k \in 1..(n - 1) PROVE rows[k] \in Row /\ Shows(rows[k], ws[k], k)
    <2>1. Shows(watch_rows[old(k)], ws[k], old(k)) /\ left[k] = watch_rows[old(k)]
        BY <1>2, <1>3, <1>4 DEF RowsMatch
    <2>2. left[k] \in Row
        BY <1>3, ElementOfSeq
    <2>3. CASE k >= i
        <3> DEFINE y == left[k].y - 2
        <3>1. left[k].y = 2 * old(k) - 1
            BY <2>1 DEF Shows
        <3>2. y = 2 * k - 1 /\ y \in Int
            BY <1>6, <2>3, <3>1
        <3>3. rows[k] = [left[k] EXCEPT !.y = y]
            BY <1>8, <2>3
        <3> HIDE DEF y
        <3>4. rows[k] \in Row /\ rows[k].y = y
            BY <2>2, <3>2, <3>3 DEF Row
        <3>5. /\ rows[k].id = left[k].id /\ rows[k].watch = left[k].watch
              /\ rows[k].addr = left[k].addr /\ rows[k].move_enabled = left[k].move_enabled
              /\ rows[k].on_tile = left[k].on_tile
            BY <2>2, <3>3 DEF Row
        <3> QED BY <2>1, <3>2, <3>4, <3>5 DEF Shows
    <2>4. CASE ~(k >= i)
        BY <1>6, <1>8, <2>1, <2>2, <2>4
    <2> QED BY <2>3, <2>4
<1>11. rows \in Seq(Row) /\ Len(rows) = n - 1
    <2>1. n - 1 \in Nat
        BY <1>1
    <2>2. rows = [k \in 1..(n - 1) |-> rows[k]]
        BY <1>8
    <2>3. \A k \in 1..(n - 1) : rows[k] \in Row
        BY <1>10
    <2> HIDE DEF n
    <2> QED BY <2>1, <2>2, <2>3, IsASeq
<1> QED BY <1>2, <1>9, <1>10, <1>11 DEF RowsMatch, ws, rows, left

LEMMA WatchStep ==
    ASSUME WatchInv, WatchNext PROVE WatchInv'
<1>1. /\ IsWatchList(watches) /\ RowsMatch(watch_rows, watches)
      /\ add_y = 1 + 2 * Len(watches) /\ prev_addr \in Int /\ prev_type \in Types
    BY DEF WatchInv
<1>2. /\ watches \in Seq(Watch) /\ watch_rows \in Seq(Row) /\ Len(watch_rows) = Len(watches)
      /\ DOMAIN watch_rows = 1..Len(watches) /\ DOMAIN watches = 1..Len(watches)
      /\ Len(watches) \in Nat /\ WATCHES_MAX \in Nat
    BY <1>1, WatchesAssumption DEF IsWatchList, RowsMatch
<1>3. /\ \A t \in Types : DataSizes[t] \in Nat \ {0}
      /\ LOWEST \in Int /\ MEMMAX \in Int /\ Entries \subseteq Nat
    BY WatchesAssumption DEF Types
<1>4. \A address \in Int, t \in Types : Aligned(address, t) \in Int
    BY <1>3 DEF Aligned
(* The watch and the row that a handler has found. *)
<1>5. ASSUME NEW i \in 1..Len(watches)
      PROVE  /\ WatchOf(watch_rows[i]) = i
             /\ watches[i] \in Watch /\ watch_rows[i] \in Row
             /\ Shows(watch_rows[i], watches[i], i)
    BY <1>1, <1>2, WatchOfRow, ElementOfSeq DEF RowsMatch
<1>6. ASSUME NEW i \in 1..Len(watches), NEW w \in Watch, NEW row \in Row,
             w.id = watches[i].id, Shows(row, w, i),
             watches' = [watches EXCEPT ![i] = w], watch_rows' = [watch_rows EXCEPT ![i] = row],
             add_y' = add_y, prev_addr' \in Int, prev_type' \in Types
      PROVE  WatchInv'
    <2>1. IsWatchList([watches EXCEPT ![i] = w])
          /\ RowsMatch([watch_rows EXCEPT ![i] = row], [watches EXCEPT ![i] = w])
          /\ Len([watches EXCEPT ![i] = w]) = Len(watches)
        BY <1>1, <1>6, OneRowChanged
    <2>2. IsWatchList(watches') /\ RowsMatch(watch_rows', watches') /\ Len(watches') = Len(watches)
        BY <1>6, <2>1
    <2> QED BY <1>1, <1>6, <2>2 DEF WatchInv, IsWatchList, RowsMatch
<1>7. CASE watches_button_add
    <2> DEFINE id == NewId(watch_rows)
               w == [id |-> id, address |-> prev_addr, type |-> prev_type, floating |-> FALSE]
               row == NewRow(id, w, add_y)
    <2>1. id \in 1..(WATCHES_MAX + 1) /\ \A k \in 1..Len(watches) : watches[k].id # id
        BY <1>1, NewIdIsNew
    <2>2. /\ Len(watches) < WATCHES_MAX /\ watches' = Append(watches, w)
          /\ watch_rows' = Append(watch_rows, row) /\ add_y' = add_y + 2
          /\ UNCHANGED <<prev_addr, prev_type>>
        BY <1>7 DEF watches_button_add
    <2>3. id \in Nat /\ add_y \in Int /\ add_y = 2 * (Len(watches) + 1) - 1
          /\ add_y + 2 = 1 + 2 * (Len(watches) + 1)
        BY <1>1, <1>2, <2>1
    <2> HIDE DEF id
    <2>4. w \in Watch /\ w.id = id
        BY <1>1, <2>3 DEF Watch
    <2>5. row \in Row /\ row.id = w.id /\ row.watch = w.id /\ row.y = add_y
          /\ row.addr = w.address /\ row.move_enabled = w.floating
          /\ row.on_tile = IF w.floating THEN 1 ELSE 7
        BY <1>1, <2>3 DEF NewRow, Row
    <2> HIDE DEF w, row
    <2>6. Shows(row, w, Len(watches) + 1)
        BY <2>3, <2>5 DEF Shows
    <2>7. IsWatchList(Append(watches, w)) /\ RowsMatch(Append(watch_rows, row), Append(watches, w))
          /\ Len(Append(watches, w)) = Len(watches) + 1
        BY <1>1, <2>1, <2>2, <2>4, <2>5, <2>6, RowAdded
    <2>8. IsWatchList(watches') /\ RowsMatch(watch_rows', watches') /\ Len(watches') = Len(watches) + 1
        BY <2>2, <2>7
    <2> QED BY <1>1, <2>2, <2>3, <2>8 DEF WatchInv, IsWatchList, RowsMatch
<1>8. ASSUME NEW i \in 1..Len(watches), menu_watch_delete(i) PROVE WatchInv'
    <2>1. /\ watches' = RemoveAt(watches, i) /\ watch_rows' = MovedUp(RemoveAt(watch_rows, i), i)
          /\ add_y' = add_y - 2 /\ UNCHANGED <<prev_addr, prev_type>>
        BY <1>5, <1>8 DEF menu_watch_delete
    <2>2. IsWatchList(watches') /\ RowsMatch(watch_rows', watches') /\ Len(watches') = Len(watches) - 1
        BY <1>1, <2>1, RowRemoved
    <2>3. add_y - 2 = 1 + 2 * (Len(watches) - 1)
        BY <1>1, <1>2
    <2> QED BY <1>1, <2>1, <2>2, <2>3 DEF WatchInv, IsWatchList, RowsMatch
<1>9. ASSUME NEW i \in 1..Len(watches), menu_watch_anchor(i) PROVE WatchInv'
    <2> DEFINE floating == ~watches[i].floating
               tile == IF floating THEN 1 ELSE 7
               w == [watches[i] EXCEPT !.floating = floating]
               moving == [watch_rows[i] EXCEPT !.move_enabled = floating]
               row == [moving EXCEPT !.on_tile = tile]
    <2>1. /\ watches' = [watches EXCEPT ![i] = w]
          /\ watch_rows' = [watch_rows EXCEPT ![i] = row]
          /\ UNCHANGED <<add_y, prev_addr, prev_type>>
        BY <1>2, <1>5, <1>9 DEF menu_watch_anchor
    <2>2. floating \in BOOLEAN /\ tile \in {1, 7}
        BY <1>5 DEF Watch
    <2> HIDE DEF floating, tile
    <2>3. w \in Watch /\ w.id = watches[i].id /\ w.address = watches[i].address /\ w.floating = floating
        BY <1>5, <2>2 DEF Watch
    <2>4. /\ moving \in Row /\ moving.id = watch_rows[i].id /\ moving.watch = watch_rows[i].watch
          /\ moving.y = watch_rows[i].y /\ moving.addr = watch_rows[i].addr
          /\ moving.move_enabled = floating
        BY <1>5, <2>2 DEF Row
    <2> HIDE DEF w, moving
    <2>5. /\ row \in Row /\ row.id = watch_rows[i].id /\ row.watch = watch_rows[i].watch
          /\ row.y = watch_rows[i].y /\ row.addr = watch_rows[i].addr
          /\ row.move_enabled = floating /\ row.on_tile = tile
        BY <2>2, <2>4 DEF Row
    <2> HIDE DEF row
    <2>6. Shows(row, w, i)
        BY <1>5, <2>3, <2>5 DEF Shows, tile
    <2> QED BY <1>1, <1>6, <2>1, <2>3, <2>5, <2>6
<1>10. ASSUME NEW i \in 1..Len(watches), NEW entered \in Entries, watch_address_onnumber(i, entered)
       PROVE  WatchInv'
    <2> DEFINE value == Aligned(entered, watches[i].type)
               address == IF value >= MEMMAX \/ value < LOWEST THEN LOWEST ELSE value
               w == [watches[i] EXCEPT !.address = address]
               row == [watch_rows[i] EXCEPT !.addr = address]
    <2>1. /\ watches' = [watches EXCEPT ![i] = w]
          /\ watch_rows' = [watch_rows EXCEPT ![i] = row]
          /\ prev_addr' = address /\ UNCHANGED <<add_y, prev_type>>
        BY <1>2, <1>5, <1>10 DEF watch_address_onnumber
    <2>2. address \in Int
        <3>1. entered \in Int /\ watches[i].type \in Types
            BY <1>3, <1>5 DEF Watch
        <3>2. value \in Int
            BY <1>4, <3>1
        <3> HIDE DEF value
        <3> QED BY <1>3, <3>2
    <2> HIDE DEF address
    <2>3. w \in Watch /\ w.id = watches[i].id /\ w.address = address /\ w.floating = watches[i].floating
        BY <1>5, <2>2 DEF Watch
    <2>4. /\ row \in Row /\ row.id = watch_rows[i].id /\ row.watch = watch_rows[i].watch
          /\ row.y = watch_rows[i].y /\ row.addr = address
          /\ row.move_enabled = watch_rows[i].move_enabled /\ row.on_tile = watch_rows[i].on_tile
        BY <1>5, <2>2 DEF Row
    <2> HIDE DEF w, row
    <2>5. Shows(row, w, i)
        BY <1>5, <2>3, <2>4 DEF Shows
    <2> QED BY <1>1, <1>6, <2>1, <2>2, <2>3, <2>4, <2>5
<1>11. ASSUME NEW i \in 1..Len(watches), NEW type \in Types, watch_type_onlist(i, type)
       PROVE  WatchInv'
    <2> DEFINE address == Aligned(watches[i].address, type)
               moved == [watches[i] EXCEPT !.address = address]
               w == [moved EXCEPT !.type = type]
               there == [watch_rows[i] EXCEPT !.addr = address]
               row == [there EXCEPT !.type = type]
    <2>1. /\ watches' = [watches EXCEPT ![i] = w]
          /\ watch_rows' = [watch_rows EXCEPT ![i] = row]
          /\ prev_type' = type /\ UNCHANGED <<add_y, prev_addr>>
        BY <1>2, <1>5, <1>11 DEF watch_type_onlist
    <2>2. address \in Int
        <3>1. watches[i].address \in Int
            BY <1>5 DEF Watch
        <3> QED BY <1>4, <3>1
    <2> HIDE DEF address
    <2>3. /\ moved \in Watch /\ moved.id = watches[i].id /\ moved.address = address
          /\ moved.floating = watches[i].floating
        BY <1>5, <2>2 DEF Watch
    <2>4. /\ there \in Row /\ there.id = watch_rows[i].id /\ there.watch = watch_rows[i].watch
          /\ there.y = watch_rows[i].y /\ there.addr = address
          /\ there.move_enabled = watch_rows[i].move_enabled /\ there.on_tile = watch_rows[i].on_tile
        BY <1>5, <2>2 DEF Row
    <2> HIDE DEF moved, there
    <2>5. w \in Watch /\ w.id = watches[i].id /\ w.address = address /\ w.floating = watches[i].floating
        BY <2>3 DEF Watch
    <2>6. /\ row \in Row /\ row.id = watch_rows[i].id /\ row.watch = watch_rows[i].watch
          /\ row.y = watch_rows[i].y /\ row.addr = address
          /\ row.move_enabled = watch_rows[i].move_enabled /\ row.on_tile = watch_rows[i].on_tile
        BY <2>4 DEF Row
    <2> HIDE DEF w, row
    <2>7. Shows(row, w, i)
        BY <1>5, <2>5, <2>6 DEF Shows
    <2> QED BY <1>1, <1>6, <2>1, <2>5, <2>6, <2>7
<1>12. CASE WatchNavigate \/ EnterOrReturn
    <2>1. UNCHANGED <<watches, watch_rows, add_y, prev_addr, prev_type>>
        BY <1>12 DEF WatchNavigate, EnterOrReturn
    <2> QED BY <1>1, <2>1 DEF WatchInv, IsWatchList, RowsMatch
<1>13. ASSUME NEW profile \in Profiles, LoadProfile(profile) PROVE WatchInv'
    <2> DEFINE n == Len(profile)
               new == [k \in 1..n |-> [profile[k] EXCEPT !.id = k]]
               rows == [k \in 1..n |-> NewRow(k, new[k], 2 * k - 1)]
    <2>1. profile \in Seq(Watch) /\ n \in Nat /\ n <= WATCHES_MAX
        BY WatchesAssumption
    <2>2. /\ watches' = new /\ watch_rows' = rows /\ add_y' = 1 + 2 * n
          /\ UNCHANGED <<prev_addr, prev_type>>
        BY <1>13 DEF LoadProfile
    <2>3. \A k \in 1..n : k \in Nat /\ k \in 1..(WATCHES_MAX + 1) /\ 2 * k - 1 \in Int
        BY <1>2, <2>1
    <2>4. \A k \in 1..n : profile[k] \in Watch
        BY <2>1, ElementOfSeq
    <2> HIDE DEF n
    <2>5. \A k \in 1..n : new[k] \in Watch /\ new[k].id = k
        BY <2>3, <2>4 DEF Watch
    <2>6. new = [k \in 1..n |-> new[k]]
        OBVIOUS
    <2>7. rows = [k \in 1..n |-> rows[k]] /\ \A k \in 1..n : rows[k] = NewRow(k, new[k], 2 * k - 1)
        OBVIOUS
    <2> HIDE DEF new, rows
    <2>8. new \in Seq(Watch) /\ Len(new) = n
        BY <2>1, <2>5, <2>6, IsASeq
    <2>9. ASSUME NEW k \in 1..n PROVE rows[k] \in Row /\ Shows(rows[k], new[k], k)
        <3>1. new[k] \in Watch /\ new[k].id = k /\ k \in Nat
            BY <2>3, <2>5
        <3> DEFINE y == 2 * k - 1
                   tile == IF new[k].floating THEN 1 ELSE 7
        <3>2. y \in Int /\ tile \in {1, 7}
            BY <2>3
        <3>3. rows[k] = [id |-> k, watch |-> new[k].id, y |-> y, on_tile |-> tile,
                         move_enabled |-> new[k].floating, addr |-> new[k].address, type |-> prev_type]
            BY <2>7 DEF NewRow
        <3> HIDE DEF y, tile
        <3>4. rows[k] \in Row
            BY <1>1, <3>1, <3>2, <3>3 DEF Row, Watch
        <3> QED BY <3>1, <3>3, <3>4 DEF Shows, y, tile
    <2>10. rows \in Seq(Row) /\ Len(rows) = n
        BY <2>1, <2>7, <2>9, IsASeq
    <2>11. IsWatchList(new)
        BY <2>1, <2>3, <2>5, <2>8 DEF IsWatchList
    <2>12. RowsMatch(rows, new)
        BY <2>8, <2>9, <2>10 DEF RowsMatch
    <2>13. IsWatchList(watches') /\ RowsMatch(watch_rows', watches') /\ Len(watches') = n
        BY <2>2, <2>8, <2>11, <2>12
    <2> QED BY <1>1, <2>2, <2>13 DEF WatchInv, IsWatchList, RowsMatch
<1>14. \A i \in DOMAIN watch_rows : i \in 1..Len(watches)
    BY <1>2
<1> QED BY <1>7, <1>8, <1>9, <1>10, <1>11, <1>12, <1>13, <1>14 DEF WatchNext

LEMMA WatchStart == WatchInit => WatchInv
<1> SUFFICES ASSUME WatchInit PROVE WatchInv
    OBVIOUS
<1>1. watches = <<>> /\ watch_rows = <<>> /\ add_y = 1 /\ prev_addr = LOWEST /\ prev_type = U8
    BY DEF WatchInit
<1>2. /\ watches \in Seq(Watch) /\ watch_rows \in Seq(Row)
      /\ Len(watches) = 0 /\ Len(watch_rows) = 0
    BY <1>1, EmptySeq
<1>3. WATCHES_MAX \in Nat /\ LOWEST \in Int /\ U8 \in Types
    BY WatchesAssumption DEF Types
<1>4. 1..Len(watches) = {} /\ 0 <= WATCHES_MAX /\ 1 = 1 + 2 * Len(watches)
    BY <1>2, <1>3
<1>5. IsWatchList(watches) /\ RowsMatch(watch_rows, watches)
    BY <1>2, <1>4 DEF IsWatchList, RowsMatch
<1> QED BY <1>1, <1>3, <1>4, <1>5 DEF WatchInv

LEMMA WatchInvariant == WatchSpec => []WatchInv
<1>1. WatchInv /\ [WatchNext]_WatchVars => WatchInv'
    <2>1. WatchInv /\ UNCHANGED WatchVars => WatchInv'
        BY DEF WatchVars, WatchInv, IsWatchList, RowsMatch
    <2> QED BY <2>1, WatchStep
<1> QED BY <1>1, WatchStart, PTL DEF WatchSpec

(* Whatever is added, deleted, edited and loaded, every row is the row of  *)
(* its own watch and shows what the watch has, and the rows follow each    *)
(* other without a gap.                                                    *)
THEOREM WatchRowsFollowWatches == WatchSpec => []RowsFollowWatches
<1>1. WatchInv => RowsFollowWatches
    <2> SUFFICES ASSUME WatchInv PROVE RowsFollowWatches
        OBVIOUS
    <2>1. /\ Len(watch_rows) = Len(watches) /\ Len(watches) <= WATCHES_MAX
          /\ add_y = 1 + 2 * Len(watch_rows) /\ DOMAIN watch_rows = 1..Len(watches)
        BY DEF WatchInv, IsWatchList, RowsMatch
    <2>2. \A k \in 1..Len(watches) : Shows(watch_rows[k], watches[k], k)
        BY DEF WatchInv, RowsMatch
    <2> QED BY <2>1, <2>2 DEF RowsFollowWatches, Shows
<1> QED BY <1>1, WatchInvariant, PTL

(* The handlers of the rows.  They are one list for the whole page, from   *)
(* which removing an item takes what names it: what a row still has of its *)
(* own is a sublist, and taking other elements out does not change it.     *)

(* The handlers there can be, and those of one row: what of them are still *)
(* their own item's.                                                       *)
Kinds == {RowItems[k] : k \in 1..7}
Names == Kinds \cup {"return", "add", "freed"}
HandlerSet == [own : Nat \X Names, subscriber : Nat \X Names]
OwnHandlers(id) == {h \in HandlerSet : h.own[1] = id /\ h.own = h.subscriber}
NewHandlers(id) == [k \in DOMAIN RowHandlers |-> Handler(<<id, RowHandlers[k]>>)]

(* A handler that its item has left behind is a removed label's; any other *)
(* is that of a row that is there or of the page itself.                   *)
HandlerOk(h, ids) ==
    /\ h.subscriber[1] # 0 => h.subscriber[2] \in Kinds
    /\ h.own # h.subscriber => h.own[1] = 0 /\ h.own[2] = "label"
    /\ h.own = h.subscriber => h.own[1] \in ids \/ h \in {Handler(ReturnItem), Handler(AddItem)}

(* The handlers of a page whose rows are ids.  The last one in the list,   *)
(* which removing an item never looks at, is a label's or the add button's.*)
EventsOf(e, ids) ==
    /\ e \in Seq(HandlerSet) /\ e # <<>>
    /\ e[Len(e)].own[2] \in {"label", "add"}
    /\ \A k \in 1..Len(e) : HandlerOk(e[k], ids)
    /\ \A id \in ids : Those(e, OwnHandlers(id)) = NewHandlers(id)

(* What a row's items are. *)
LEMMA RowKinds ==
    /\ Kinds = {"delete", "anchor", "move", "addr", "type", "watch", "label"}
    /\ \A i \in 1..7 : RowItems[i] \in Kinds /\ RowItems[i] \in Names
<1>1. /\ RowItems[1] = "delete" /\ RowItems[2] = "anchor" /\ RowItems[3] = "move"
      /\ RowItems[4] = "addr" /\ RowItems[5] = "type" /\ RowItems[6] = "watch" /\ RowItems[7] = "label"
    BY DEF RowItems
<1>2. \A i \in 1..7 : i = 1 \/ i = 2 \/ i = 3 \/ i = 4 \/ i = 5 \/ i = 6 \/ i = 7
    OBVIOUS
<1>3. 1 \in 1..7 /\ 2 \in 1..7 /\ 3 \in 1..7 /\ 4 \in 1..7 /\ 5 \in 1..7 /\ 6 \in 1..7 /\ 7 \in 1..7
    OBVIOUS
<1>4. Kinds = {"delete", "anchor", "move", "addr", "type", "watch", "label"}
    <2>1. ASSUME NEW k \in Kinds PROVE k \in {"delete", "anchor", "move", "addr", "type", "watch", "label"}
        BY <1>1, <1>2 DEF Kinds
    <2>2. ASSUME NEW k \in {"delete", "anchor", "move", "addr", "type", "watch", "label"} PROVE k \in Kinds
        BY <1>1, <1>3 DEF Kinds
    <2> QED BY <2>1, <2>2
<1> QED BY <1>4 DEF Kinds, Names

(* r is e without the handlers of item. *)
Removes(e, item, r) ==
    /\ r \in Seq(HandlerSet) /\ r # <<>> /\ r[Len(r)] = e[Len(e)]
    /\ \A j \in 1..(Len(r) - 1) : \E k \in 1..(Len(e) - 1) : r[j] = e[k] /\ e[k].subscriber # item
    /\ \A id \in Nat : id # item[1] => Those(r, OwnHandlers(id)) = Those(e, OwnHandlers(id))

(* Removing an item takes its handlers from all of the list but its end,   *)
(* and nobody else's.                                                      *)
LEMMA ItemRemoved ==
    ASSUME NEW e \in Seq(HandlerSet), e # <<>>, NEW item \in Nat \X Names
    PROVE  Removes(e, item, menu_item_remove(e, item))
<1> DEFINE n == Len(e)
           w == [k \in DOMAIN e |-> IF k < Len(e) /\ e[k].subscriber = item THEN <<>> ELSE <<e[k]>>]
           r == FlattenSeq(w)
<1>1. n \in Nat \ {0} /\ DOMAIN e = 1..n /\ \A k \in 1..n : e[k] \in HandlerSet
    BY EmptySeq, LenProperties
<1>2. \A k \in 1..n : w[k] = IF k < n /\ e[k].subscriber = item THEN <<>> ELSE <<e[k]>>
    BY <1>1
<1>3. DOMAIN w = 1..n
    BY <1>1
<1> HIDE DEF w, n
<1>4. w \in Seq(Seq(HandlerSet)) /\ Len(w) = n
    <2>1. \A x \in HandlerSet : <<x>> \in Seq(HandlerSet) /\ <<>> \in Seq(HandlerSet)
        OBVIOUS
    <2>2. ASSUME NEW k \in 1..n PROVE w[k] \in Seq(HandlerSet)
        BY <1>1, <1>2, <2>1
    <2>3. \E v \in [1..n -> Seq(HandlerSet)] : v = w
        <3>1. w = [k \in 1..n |-> w[k]]
            BY <1>3 DEF w
        <3> QED BY <2>2, <3>1
    <2> QED BY <1>1, <2>3, FunctionIsSequence
<1>5. \A k \in 1..n : w[k] = <<e[k]>> \/ w[k] = <<>>
    BY <1>2
<1>6. w[n] = <<e[n]>>
    <2>1. n \in 1..n /\ ~(n < n)
        BY <1>1
    <2> QED BY <1>2, <2>1
<1>7. /\ r \in Seq(HandlerSet) /\ Len(r) \in Nat \ {0} /\ r[Len(r)] = e[n]
      /\ \A j \in 1..(Len(r) - 1) : \E k \in 1..(n - 1) : w[k] = <<e[k]>> /\ r[j] = e[k]
    <2>1. ThinnedOut(HandlerSet, e, w, FlattenSeq(w))
        BY <1>4, <1>5, <1>6, ThinnedFrom DEF n
    <2> QED BY <2>1 DEF ThinnedOut, n
<1>8. ASSUME NEW j \in 1..(Len(r) - 1) PROVE \E k \in 1..(n - 1) : r[j] = e[k] /\ e[k].subscriber # item
    <2>1. PICK k \in 1..(n - 1) : w[k] = <<e[k]>> /\ r[j] = e[k]
        BY <1>7
    <2>2. k \in 1..n /\ k < n
        BY <1>1
    <2>3. <<e[k]>> # <<>>
        OBVIOUS
    <2> QED BY <1>2, <2>1, <2>2, <2>3
<1>9. ASSUME NEW id \in Nat, id # item[1] PROVE Those(r, OwnHandlers(id)) = Those(e, OwnHandlers(id))
    <2>1. \A k \in 1..n : w[k] = <<e[k]>> \/ (w[k] = <<>> /\ e[k] \notin OwnHandlers(id))
        BY <1>1, <1>2, <1>9 DEF OwnHandlers
    <2> QED BY <1>4, <2>1, ThinnedKeeps DEF n
<1>10. r # <<>>
    BY <1>7
<1>11. menu_item_remove(e, item) = r
    BY DEF menu_item_remove, w
<1> HIDE DEF r
<1> QED BY <1>7, <1>8, <1>9, <1>10, <1>11 DEF Removes, n

(* Removing the seven items of a row one after the other. *)
LEMMA ItemsRemoved ==
    ASSUME NEW e \in Seq(HandlerSet), e # <<>>, NEW id \in Nat
    PROVE  \E after :
              /\ delete_row(e, id) = LET left == after[7] IN
                    [k \in DOMAIN left |->
                        IF left[k].subscriber[1] # id THEN left[k]
                        ELSE [own |-> <<0, left[k].own[2]>>, subscriber |-> Freed]]
              /\ after[0] = e
              /\ \A i \in 1..7 : after[i] = menu_item_remove(after[i - 1], <<id, RowItems[i]>>)
<1> DEFINE S == {x \in Seq(HandlerSet) : x # <<>>}
           G == [i \in 1..7 |-> [x \in S |-> menu_item_remove(x, <<id, RowItems[i]>>)]]
           Runs(f) == f = [i \in 0..7 |-> IF i = 0 THEN e ELSE menu_item_remove(f[i - 1], <<id, RowItems[i]>>)]
           after == CHOOSE f : Runs(f)
<1>1. ASSUME NEW i \in 1..7, NEW x \in S PROVE menu_item_remove(x, <<id, RowItems[i]>>) \in S
    <2>1. <<id, RowItems[i]>> \in Nat \X Names
        BY RowKinds
    <2>2. Removes(x, <<id, RowItems[i]>>, menu_item_remove(x, <<id, RowItems[i]>>))
        BY <2>1, ItemRemoved
    <2> QED BY <2>2 DEF Removes
<1>2. G \in Steps(7, S)
    BY <1>1 DEF Steps
<1>3. e \in S
    OBVIOUS
<1>4. \A i \in 1..7 : \A x \in S : G[i][x] = menu_item_remove(x, <<id, RowItems[i]>>)
    OBVIOUS
<1> HIDE DEF S, G
<1>5. PICK f : f \in Recursions(S, e, 7, G)
    BY <1>2, <1>3, RecursionUpTo
<1>6. \A i \in 1..7 : i - 1 \in 0..7 /\ i \in 0..7 /\ i # 0
    OBVIOUS
<1>7. f \in [0..7 -> S] /\ f[0] = e /\ \A i \in 1..7 : f[i] = menu_item_remove(f[i - 1], <<id, RowItems[i]>>)
    BY <1>4, <1>5, <1>6 DEF Recursions
<1>8. Runs(f)
    <2>1. \A i \in 0..7 : f[i] = IF i = 0 THEN e ELSE menu_item_remove(f[i - 1], <<id, RowItems[i]>>)
        <3> SUFFICES ASSUME NEW i \in 0..7, i # 0 PROVE f[i] = menu_item_remove(f[i - 1], <<id, RowItems[i]>>)
            BY <1>7
        <3>1. i \in 1..7
            OBVIOUS
        <3> QED BY <1>7, <3>1
    <2> QED BY <1>7, <2>1
<1> HIDE DEF Runs
<1>9. Runs(after)
    BY <1>8
<1>10. Len(RowItems) = 7
    BY DEF RowItems
<1>11. delete_row(e, id) = LET left == after[7] IN
                    [k \in DOMAIN left |->
                        IF left[k].subscriber[1] # id THEN left[k]
                        ELSE [own |-> <<0, left[k].own[2]>>, subscriber |-> Freed]]
    BY <1>10 DEF delete_row, Runs
<1> HIDE DEF after
<1>12. after = [i \in 0..7 |-> IF i = 0 THEN e ELSE menu_item_remove(after[i - 1], <<id, RowItems[i]>>)]
    BY <1>9 DEF Runs
<1>13. after[0] = e /\ \A i \in 1..7 : after[i] = menu_item_remove(after[i - 1], <<id, RowItems[i]>>)
    <2>1. 0 \in 0..7
        OBVIOUS
    <2> QED BY <1>6, <1>12, <2>1
<1> QED BY <1>11, <1>13

(* All items of a row are gone, and the other rows have what they had.  If *)
(* the row's label was the last in the list it stays behind.               *)
LEMMA RowDeleted ==
    ASSUME NEW e, NEW ids \in SUBSET (Nat \ {0}), NEW id \in ids, EventsOf(e, ids)
    PROVE  EventsOf(delete_row(e, id), ids \ {id})
<1>1. /\ e \in Seq(HandlerSet) /\ e # <<>> /\ id \in Nat \ {0}
      /\ e[Len(e)].own[2] \in {"label", "add"}
      /\ \A k \in 1..Len(e) : HandlerOk(e[k], ids)
      /\ \A j \in ids : Those(e, OwnHandlers(j)) = NewHandlers(j)
    BY DEF EventsOf
<1>2. PICK after :
              /\ delete_row(e, id) = LET left == after[7] IN
                    [k \in DOMAIN left |->
                        IF left[k].subscriber[1] # id THEN left[k]
                        ELSE [own |-> <<0, left[k].own[2]>>, subscriber |-> Freed]]
              /\ after[0] = e
              /\ \A i \in 1..7 : after[i] = menu_item_remove(after[i - 1], <<id, RowItems[i]>>)
    BY <1>1, ItemsRemoved
<1> DEFINE Elements(x, i) ==
               \A j \in 1..(Len(x) - 1) : /\ \E k \in 1..Len(e) : x[j] = e[k]
                                         /\ \A m \in 1..i : x[j].subscriber # <<id, RowItems[m]>>
           Stage(x, i) ==
               /\ x \in Seq(HandlerSet) /\ x # <<>> /\ x[Len(x)] = e[Len(e)] /\ Elements(x, i)
               /\ \A j \in Nat : j # id => Those(x, OwnHandlers(j)) = Those(e, OwnHandlers(j))
           B == {i \in 0..7 : Stage(after[i], i)}
<1>3. 0 \in B
    <2>1. Len(e) \in Nat
        BY <1>1, LenProperties
    <2>2. \A j \in 1..(Len(e) - 1) : j \in 1..Len(e)
        BY <2>1
    <2>3. \A m \in 1..0 : FALSE
        OBVIOUS
    <2>4. Elements(e, 0)
        BY <2>2, <2>3
    <2> HIDE DEF Elements
    <2> QED BY <1>1, <1>2, <2>4
<1>4. ASSUME NEW i \in 1..7, i - 1 \in B PROVE i \in B
    <2> DEFINE x == after[i - 1]
               y == after[i]
               item == <<id, RowItems[i]>>
    <2>1. Stage(x, i - 1)
        BY <1>4
    <2>2. item \in Nat \X Names /\ item[1] = id
        BY <1>1, RowKinds
    <2>3. y = menu_item_remove(x, item)
        BY <1>2
    <2> HIDE DEF x, y, B
    <2>4. Removes(x, item, y)
        BY <2>1, <2>2, <2>3, ItemRemoved
    <2>5. ASSUME NEW j \in 1..(Len(y) - 1)
          PROVE  /\ \E k \in 1..Len(e) : y[j] = e[k]
                 /\ \A m \in 1..i : y[j].subscriber # <<id, RowItems[m]>>
        <3>1. PICK k \in 1..(Len(x) - 1) : y[j] = x[k] /\ x[k].subscriber # item
            BY <2>4 DEF Removes
        <3>2. \A m \in 1..i : m \in 1..(i - 1) \/ m = i
            OBVIOUS
        <3> QED BY <2>1, <3>1, <3>2
    <2>6. Elements(y, i)
        BY <2>5
    <2> HIDE DEF Elements
    <2>7. Stage(y, i)
        BY <2>1, <2>2, <2>4, <2>6 DEF Removes
    <2>8. i \in 0..7
        OBVIOUS
    <2> HIDE DEF Stage
    <2> QED BY <2>7, <2>8 DEF B, y
<1> HIDE DEF B
<1>5. \A i \in (0 + 1)..7 : i - 1 \in B => i \in B
    BY <1>4
<1>6. \A i \in 0..7 : i \in B
    BY <1>3, <1>5, EveryPlace
<1> DEFINE left == after[7]
           n == Len(left)
           gone(h) == [own |-> <<0, h.own[2]>>, subscriber |-> Freed]
           r == [k \in DOMAIN left |-> IF left[k].subscriber[1] # id THEN left[k] ELSE gone(left[k])]
<1>7. Stage(left, 7)
    <2>1. 7 \in 0..7
        OBVIOUS
    <2> HIDE DEF Stage
    <2> QED BY <1>6, <2>1 DEF B
<1>8. delete_row(e, id) = r
    BY <1>2
<1> HIDE DEF left
<1>9. n \in Nat \ {0} /\ DOMAIN left = 1..n /\ \A k \in 1..n : left[k] \in HandlerSet
    BY <1>7, EmptySeq, LenProperties
<1> HIDE DEF n
<1>9b. \A k \in 1..n : k # n => k \in 1..(n - 1)
    BY <1>9
<1>9a. Len(e) \in Nat \ {0} /\ Len(e) \in 1..Len(e)
    BY <1>1, EmptySeq, LenProperties
<1>10. \A k \in 1..n : HandlerOk(left[k], ids)
    <2> SUFFICES ASSUME NEW k \in 1..n PROVE HandlerOk(left[k], ids)
        OBVIOUS
    <2>1. CASE k = n
        BY <1>1, <1>7, <1>9a, <2>1 DEF n
    <2>2. CASE k # n
        <3>1. k \in 1..(n - 1)
            BY <1>9b, <2>2
        <3>2. PICK j \in 1..Len(e) : left[k] = e[j]
            BY <1>7, <3>1 DEF n
        <3> QED BY <1>1, <3>2
    <2> QED BY <2>1, <2>2
<1>11. \A k \in 1..n : left[k].subscriber[1] = id => k = n
    <2> SUFFICES ASSUME NEW k \in 1..n, left[k].subscriber[1] = id, k # n PROVE FALSE
        OBVIOUS
    <2>1. k \in 1..(n - 1)
        BY <1>9b
    <2>2. \A m \in 1..7 : left[k].subscriber # <<id, RowItems[m]>>
        BY <1>7, <2>1 DEF n
    <2>3. left[k].subscriber[2] \in Kinds
        BY <1>1, <1>10 DEF HandlerOk
    <2>4. left[k].subscriber \in Nat \X Names
        BY <1>9 DEF HandlerSet
    <2>5. left[k].subscriber = <<id, left[k].subscriber[2]>>
        BY <2>4
    <2> QED BY <2>2, <2>3, <2>5 DEF Kinds
<1>12. left[n].own[2] \in {"label", "add"}
    BY <1>1, <1>7 DEF n
<1>13. left[n].subscriber[1] = id => left[n].own[2] = "label"
    <2> SUFFICES ASSUME left[n].subscriber[1] = id, left[n].own[2] = "add" PROVE FALSE
        BY <1>12
    <2>1. n \in 1..n
        BY <1>9
    <2>2. HandlerOk(left[n], ids)
        BY <1>10, <2>1
    <2>3. left[n].own = left[n].subscriber
        BY <2>2 DEF HandlerOk
    <2>4. "add" \in Kinds
        BY <1>1, <2>2, <2>3 DEF HandlerOk
    <2>5. "add" \notin Kinds
        BY RowKinds
    <2> QED BY <2>4, <2>5
<1>14. \A k \in 1..n : left[k].own[1] # 0 => left[k].own = left[k].subscriber
    BY <1>10 DEF HandlerOk
<1>15. ASSUME NEW k \in 1..n
       PROVE  /\ r[k] = IF left[k].subscriber[1] # id THEN left[k] ELSE gone(left[k])
              /\ left[k].subscriber[1] = id => r[k] = [own |-> <<0, "label">>, subscriber |-> Freed]
              /\ r[k] \in HandlerSet
    <2>1. r[k] = IF left[k].subscriber[1] # id THEN left[k] ELSE gone(left[k])
        BY <1>9
    <2>2. left[k].subscriber[1] = id => r[k] = [own |-> <<0, "label">>, subscriber |-> Freed]
        BY <1>11, <1>13, <2>1
    <2>3. [own |-> <<0, "label">>, subscriber |-> Freed] \in HandlerSet
        BY RowKinds DEF Freed, HandlerSet, Names
    <2> QED BY <1>9, <2>1, <2>2, <2>3
<1>16. DOMAIN r = 1..n
    BY <1>9
<1> HIDE DEF r
<1>17. r \in Seq(HandlerSet) /\ Len(r) = n
    <2>1. \E v \in [1..n -> HandlerSet] : v = r
        <3>1. r = [k \in 1..n |-> r[k]]
            BY <1>16 DEF r
        <3> QED BY <1>15, <3>1
    <2> QED BY <1>9, <2>1, FunctionIsSequence
<1>18. r # <<>>
    BY <1>9, <1>17
<1>19. r[Len(r)].own[2] \in {"label", "add"}
    <2>1. n \in 1..n
        BY <1>9
    <2> QED BY <1>12, <1>15, <1>17, <2>1
<1>20. ASSUME NEW k \in 1..Len(r) PROVE HandlerOk(r[k], ids \ {id})
    <2>1. k \in 1..n
        BY <1>17
    <2>2. CASE left[k].subscriber[1] = id
        <3>1. r[k] = [own |-> <<0, "label">>, subscriber |-> <<0, "freed">>]
            BY <1>15, <2>1, <2>2 DEF Freed
        <3>2. /\ r[k].own = <<0, "label">> /\ r[k].subscriber = <<0, "freed">>
              /\ r[k].own[1] = 0 /\ r[k].own[2] = "label" /\ r[k].subscriber[1] = 0
            BY <3>1
        <3>3. r[k].own # r[k].subscriber
            BY <3>2
        <3> QED BY <3>2, <3>3 DEF HandlerOk
    <2>3. CASE left[k].subscriber[1] # id
        <3>1. r[k] = left[k] /\ HandlerOk(left[k], ids)
            BY <1>10, <1>15, <2>1, <2>3
        <3> QED BY <2>3, <3>1 DEF HandlerOk
    <2> QED BY <2>2, <2>3
<1>21. ASSUME NEW j \in ids \ {id} PROVE Those(r, OwnHandlers(j)) = NewHandlers(j)
    <2>1. j \in Nat \ {0} /\ j # id /\ j \in ids
        OBVIOUS
    <2>2. ASSUME NEW k \in 1..n PROVE r[k] = left[k] \/ (r[k] \notin OwnHandlers(j) /\ left[k] \notin OwnHandlers(j))
        <3>1. CASE left[k].subscriber[1] = id
            <4>1. r[k] = [own |-> <<0, "label">>, subscriber |-> Freed]
                BY <1>15, <3>1
            <4>2. r[k].own[1] = 0
                BY <4>1
            <4> QED BY <2>1, <3>1, <4>2 DEF OwnHandlers
        <3>2. CASE left[k].subscriber[1] # id
            BY <1>15, <3>2
        <3> QED BY <3>1, <3>2
    <2>3. Those(r, OwnHandlers(j)) = Those(left, OwnHandlers(j))
        BY <1>9, <1>16, <2>2, RenamedThose DEF n
    <2>4. Those(left, OwnHandlers(j)) = Those(e, OwnHandlers(j))
        BY <1>7, <2>1
    <2> QED BY <1>1, <2>1, <2>3, <2>4
<1> QED BY <1>8, <1>17, <1>18, <1>19, <1>20, <1>21 DEF EventsOf

(* The handlers of a new row's items. *)
LEMMA NewRowHandlers ==
    ASSUME NEW id \in Nat \ {0}
    PROVE  /\ NewHandlers(id) \in Seq(HandlerSet) /\ Len(NewHandlers(id)) = 8
           /\ NewHandlers(id)[8].own[2] = "label"
           /\ \A k \in 1..8 : /\ NewHandlers(id)[k].own[1] = id
                              /\ NewHandlers(id)[k].own = NewHandlers(id)[k].subscriber
                              /\ NewHandlers(id)[k].subscriber[2] \in Kinds
<1> DEFINE h == NewHandlers(id)
<1>1. DOMAIN RowHandlers = 1..8 /\ RowHandlers[8] = "label"
    BY DEF RowHandlers
<1>2. ASSUME NEW k \in 1..8 PROVE RowHandlers[k] \in Kinds
    <2>1. /\ RowHandlers[1] = "delete" /\ RowHandlers[2] = "anchor" /\ RowHandlers[3] = "move"
          /\ RowHandlers[4] = "addr" /\ RowHandlers[5] = "addr" /\ RowHandlers[6] = "type"
          /\ RowHandlers[7] = "type" /\ RowHandlers[8] = "label"
        BY DEF RowHandlers
    <2>2. k = 1 \/ k = 2 \/ k = 3 \/ k = 4 \/ k = 5 \/ k = 6 \/ k = 7 \/ k = 8
        OBVIOUS
    <2>3. RowHandlers[k] \in {"delete", "anchor", "move", "addr", "type", "watch", "label"}
        BY <2>1, <2>2
    <2> QED BY <2>3, RowKinds
<1>3. ASSUME NEW k \in 1..8
      PROVE  /\ h[k] = [own |-> <<id, RowHandlers[k]>>, subscriber |-> <<id, RowHandlers[k]>>]
             /\ <<id, RowHandlers[k]>> \in Nat \X Names
    <2>1. h[k] = Handler(<<id, RowHandlers[k]>>)
        BY <1>1 DEF NewHandlers
    <2> QED BY <1>2, <2>1 DEF Handler, Names
<1>4. DOMAIN h = 1..8
    BY <1>1 DEF NewHandlers
<1>5. h \in Seq(HandlerSet) /\ Len(h) = 8
    <2>1. \E v \in [1..8 -> HandlerSet] : v = h
        <3>1. h = [k \in 1..8 |-> h[k]]
            BY <1>1 DEF NewHandlers
        <3>2. \A k \in 1..8 : h[k] \in HandlerSet
            BY <1>3 DEF HandlerSet
        <3> HIDE DEF h
        <3> QED BY <3>1, <3>2
    <2> HIDE DEF h
    <2> DEFINE m == 8
    <2>2. m \in Nat /\ \E v \in [1..m -> HandlerSet] : v = h
        BY <2>1
    <2> HIDE DEF m
    <2>3. h \in Seq(HandlerSet) /\ Len(h) = m
        BY <2>2, FunctionIsSequence
    <2> QED BY <2>3 DEF m
<1> HIDE DEF h
<1>6. \A k \in 1..8 : h[k].own[1] = id /\ h[k].own = h[k].subscriber /\ h[k].subscriber[2] \in Kinds
    BY <1>2, <1>3
<1>7. h[8].own[2] = "label"
    <2>1. 8 \in 1..8
        OBVIOUS
    <2>2. h[8] = [own |-> <<id, RowHandlers[8]>>, subscriber |-> <<id, RowHandlers[8]>>]
        BY <1>3, <2>1
    <2> QED BY <1>1, <2>2
<1> QED BY <1>5, <1>6, <1>7 DEF h

(* A row gets its handlers and takes none of the others': a label's that   *)
(* was left behind may come to name one of the new items, but its own item *)
(* is none of a row.                                                       *)
LEMMA RowGotHandlers ==
    ASSUME NEW e, NEW ids \in SUBSET (Nat \ {0}), NEW id \in Nat \ {0}, id \notin ids,
           NEW there, \A k \in Left(e) : there[k][1] = id => there[k] \in ItemsOf({id}),
           EventsOf(e, ids)
    PROVE  EventsOf(AddHandlers(e, id, there), ids \cup {id})
<1> DEFINE moved == [k \in DOMAIN e |-> IF k \in Left(e) /\ there[k][1] = id
                                       THEN [e[k] EXCEPT !.subscriber = there[k]] ELSE e[k]]
           new == NewHandlers(id)
           r == moved \o new
           n == Len(e)
<1>1. /\ e \in Seq(HandlerSet) /\ e # <<>>
      /\ \A k \in 1..n : HandlerOk(e[k], ids)
      /\ \A j \in ids : Those(e, OwnHandlers(j)) = NewHandlers(j)
    BY DEF EventsOf
<1>2. n \in Nat \ {0} /\ DOMAIN e = 1..n /\ \A k \in 1..n : e[k] \in HandlerSet
    BY <1>1, EmptySeq, LenProperties
<1>3. ASSUME NEW k \in Left(e), there[k][1] = id
      PROVE  there[k] \in Nat \X Names /\ there[k][1] = id /\ there[k][2] \in Kinds
    <2>1. PICK j \in 1..7 : there[k] = <<id, RowItems[j]>>
        BY <1>3 DEF ItemsOf, RowItems
    <2> QED BY <2>1, RowKinds
<1>4. ASSUME NEW k \in 1..n
      PROVE  /\ moved[k] \in HandlerSet /\ HandlerOk(moved[k], ids)
             /\ moved[k] = e[k] \/ (moved[k].own[1] = 0 /\ e[k].own[1] = 0)
    <2>1. HandlerOk(e[k], ids) /\ e[k] \in HandlerSet
        BY <1>1, <1>2
    <2>2. CASE ~(k \in Left(e) /\ there[k][1] = id)
        BY <1>2, <2>1, <2>2
    <2>3. CASE k \in Left(e) /\ there[k][1] = id
        <3> DEFINE at == there[k]
        <3>0. e[k].subscriber = Freed /\ at \in Nat \X Names /\ at[1] = id /\ at[2] \in Kinds
            BY <1>3, <2>3 DEF Left
        <3>1. e[k].own # Freed
            <4> SUFFICES ASSUME e[k].own = Freed PROVE FALSE
                OBVIOUS
            <4>1. e[k].own[1] \in ids \/ e[k] \in {Handler(ReturnItem), Handler(AddItem)}
                BY <2>1, <3>0 DEF HandlerOk
            <4>2. e[k].own[1] = 0 /\ e[k].own[2] = "freed"
                BY DEF Freed
            <4>3. e[k] \notin {Handler(ReturnItem), Handler(AddItem)}
                BY <4>2 DEF Handler, ReturnItem, AddItem
            <4> QED BY <4>1, <4>2, <4>3
        <3>2. e[k].own[1] = 0 /\ e[k].own[2] = "label" /\ e[k].own \in Nat \X Names
            BY <2>1, <3>0, <3>1 DEF HandlerOk, HandlerSet
        <3>3. moved[k] = [own |-> e[k].own, subscriber |-> at]
            BY <1>2, <2>1, <2>3 DEF HandlerSet
        <3> HIDE DEF at
        <3>4. e[k].own = <<0, "label">>
            BY <3>2
        <3>5. at # <<0, "label">>
            BY <3>0
        <3>6. moved[k].own = <<0, "label">> /\ moved[k].subscriber = at
            BY <3>3, <3>4
        <3>7. moved[k] \in HandlerSet
            BY <3>0, <3>2, <3>3 DEF HandlerSet
        <3>8. HandlerOk(moved[k], ids)
            <4> DEFINE h == moved[k]
            <4>0. h.own = <<0, "label">> /\ h.subscriber = at
                BY <3>6
            <4> HIDE DEF moved, h
            <4>a. h.own[1] = 0 /\ h.own[2] = "label"
                BY <4>0
            <4>b. h.own # h.subscriber
                BY <3>5, <4>0
            <4>c. h.subscriber[1] # 0 => h.subscriber[2] \in Kinds
                BY <3>0, <4>0
            <4>1. /\ moved[k].own # moved[k].subscriber /\ moved[k].own[1] = 0 /\ moved[k].own[2] = "label"
                  /\ moved[k].subscriber[1] # 0 => moved[k].subscriber[2] \in Kinds
                BY <4>a, <4>b, <4>c DEF h
            <4> QED BY <4>1 DEF HandlerOk
        <3> QED BY <3>2, <3>6, <3>7, <3>8
    <2> QED BY <2>2, <2>3
<1>5. DOMAIN moved = 1..n
    BY <1>2
<1>6. AddHandlers(e, id, there) = r
    BY DEF AddHandlers, NewHandlers
<1>6a. moved = [k \in 1..n |-> moved[k]]
    BY <1>2
<1> HIDE DEF moved
<1>7. moved \in Seq(HandlerSet) /\ Len(moved) = n
    <2>1. \E v \in [1..n -> HandlerSet] : v = moved
        BY <1>4, <1>6a
    <2> QED BY <1>2, <2>1, FunctionIsSequence
<1>8. /\ new \in Seq(HandlerSet) /\ Len(new) = 8 /\ new[8].own[2] = "label"
      /\ \A k \in 1..8 : new[k].own[1] = id /\ new[k].own = new[k].subscriber /\ new[k].subscriber[2] \in Kinds
    BY NewRowHandlers
<1> HIDE DEF new, n
<1>9. /\ r \in Seq(HandlerSet) /\ Len(r) = n + 8
      /\ \A k \in 1..(n + 8) : r[k] = IF k <= n THEN moved[k] ELSE new[k - n]
    <2>1. /\ r \in Seq(HandlerSet) /\ Len(r) = Len(moved) + Len(new)
          /\ \A k \in 1..(Len(moved) + Len(new)) : r[k] = IF k <= Len(moved) THEN moved[k] ELSE new[k - Len(moved)]
        BY <1>7, <1>8, ConcatProperties
    <2> HIDE DEF r
    <2> QED BY <1>7, <1>8, <2>1
<1>10. \A k \in 1..(n + 8) : (k <= n => k \in 1..n) /\ (~(k <= n) => k - n \in 1..8)
    BY <1>2
<1>11. ASSUME NEW k \in 1..(n + 8) PROVE HandlerOk(r[k], ids \cup {id})
    <2>1. CASE k <= n
        BY <1>4, <1>9, <1>10, <2>1 DEF HandlerOk
    <2>2. CASE ~(k <= n)
        BY <1>8, <1>9, <1>10, <2>2 DEF HandlerOk
    <2> QED BY <2>1, <2>2
<1>12. r # <<>> /\ r[n + 8].own[2] \in {"label", "add"}
    <2>1. n + 8 \in 1..(n + 8) /\ ~(n + 8 <= n) /\ (n + 8) - n = 8 /\ n + 8 # 0
        BY <1>2
    <2>2. r[n + 8] = new[8]
        BY <1>9, <2>1
    <2> QED BY <1>8, <1>9, <2>1, <2>2
<1>13. \A j : Those(r, OwnHandlers(j)) = Those(moved, OwnHandlers(j)) \o Those(new, OwnHandlers(j))
    BY <1>7, <1>8, ThoseOfBoth
<1> HIDE DEF r
<1>14. ASSUME NEW j \in ids PROVE Those(r, OwnHandlers(j)) = NewHandlers(j)
    <2>1. j \in Nat \ {0} /\ j # id
        OBVIOUS
    <2>2. \A k \in 1..n : moved[k] = e[k] \/ (moved[k] \notin OwnHandlers(j) /\ e[k] \notin OwnHandlers(j))
        BY <1>4, <2>1 DEF OwnHandlers
    <2>3. Those(moved, OwnHandlers(j)) = Those(e, OwnHandlers(j))
        BY <1>2, <1>5, <2>2, RenamedThose
    <2>4. Those(new, OwnHandlers(j)) = <<>>
        <3>1. \A k \in 1..Len(new) : new[k] \notin OwnHandlers(j)
            BY <1>8, <2>1 DEF OwnHandlers
        <3> QED BY <1>8, <3>1, NoneOfThose
    <2>5. Those(r, OwnHandlers(j)) = NewHandlers(j) \o <<>>
        BY <1>1, <1>13, <2>3, <2>4
    <2>6. NewHandlers(j) \in Seq(HandlerSet)
        BY <2>1, NewRowHandlers
    <2> QED BY <2>5, <2>6, ConcatEmptySeq
<1>15. Those(r, OwnHandlers(id)) = NewHandlers(id)
    <2>1. \A k \in 1..Len(moved) : moved[k] \notin OwnHandlers(id)
        <3> SUFFICES ASSUME NEW k \in 1..n, moved[k] \in OwnHandlers(id) PROVE FALSE
            BY <1>7
        <3>1. HandlerOk(moved[k], ids) /\ moved[k].own[1] = id /\ moved[k].own = moved[k].subscriber
            BY <1>4 DEF OwnHandlers
        <3>2. moved[k] \in {Handler(ReturnItem), Handler(AddItem)}
            BY <3>1 DEF HandlerOk
        <3>3. moved[k].own[1] = 0
            BY <3>2 DEF Handler, ReturnItem, AddItem
        <3> QED BY <3>1, <3>3
    <2>2. Those(moved, OwnHandlers(id)) = <<>>
        BY <1>7, <2>1, NoneOfThose
    <2>3. \A k \in 1..Len(new) : new[k] \in OwnHandlers(id)
        <3>1. \A k \in 1..8 : new[k] \in HandlerSet
            BY <1>8, ElementOfSeq
        <3> QED BY <1>8, <3>1 DEF OwnHandlers
    <2>4. Those(new, OwnHandlers(id)) = new
        BY <1>8, <2>3, AllOfThose
    <2>5. Those(r, OwnHandlers(id)) = <<>> \o new
        BY <1>13, <2>2, <2>4
    <2> QED BY <1>8, <2>5, ConcatEmptySeq DEF new
<1> QED BY <1>6, <1>9, <1>11, <1>12, <1>14, <1>15 DEF EventsOf

(* A handler is left behind by deleting a row, never by adding one. *)
LEMMA NoneLeftAnew ==
    ASSUME NEW e \in Seq(HandlerSet), NEW id \in Nat \ {0}, NEW there,
           \A k \in Left(e) : there[k][1] = id => there[k] \in ItemsOf({id})
    PROVE  Left(AddHandlers(e, id, there)) \subseteq Left(e)
<1> DEFINE moved == [k \in DOMAIN e |-> IF k \in Left(e) /\ there[k][1] = id
                                       THEN [e[k] EXCEPT !.subscriber = there[k]] ELSE e[k]]
           new == NewHandlers(id)
           n == Len(e)
<1>1. n \in Nat /\ DOMAIN e = 1..n /\ \A k \in 1..n : e[k] \in HandlerSet
    BY ElementOfSeq, LenProperties
<1>2. AddHandlers(e, id, there) = moved \o new
    BY DEF AddHandlers, NewHandlers
<1>3. /\ new \in Seq(HandlerSet) /\ Len(new) = 8
      /\ \A k \in 1..8 : new[k].own[1] = id /\ new[k].own = new[k].subscriber
    BY NewRowHandlers
<1>4. ASSUME NEW k \in 1..n PROVE moved[k] = e[k] \/ moved[k].subscriber[1] = id
    BY <1>1 DEF HandlerSet
<1>5. moved = [k \in 1..n |-> moved[k]]
    BY <1>1
<1> HIDE DEF moved, new
<1>6. \A k \in DOMAIN (moved \o new) :
          k \in 1..(n + 8) /\ (moved \o new)[k] = IF k <= n THEN moved[k] ELSE new[k - n]
    <2> DEFINE T == {moved[k] : k \in 1..n} \cup HandlerSet
    <2>1. moved \in Seq(T) /\ Len(moved) = n
        <3>1. \E v \in [1..n -> T] : v = moved
            BY <1>5
        <3> QED BY <1>1, <3>1, FunctionIsSequence
    <2>2. new \in Seq(T)
        BY <1>3, SeqMonotonic
    <2>3. /\ moved \o new \in Seq(T) /\ Len(moved \o new) = n + 8
          /\ \A k \in 1..(n + 8) : (moved \o new)[k] = IF k <= n THEN moved[k] ELSE new[k - n]
        <3>1. /\ moved \o new \in Seq(T) /\ Len(moved \o new) = Len(moved) + Len(new)
              /\ \A k \in 1..(Len(moved) + Len(new)) :
                    (moved \o new)[k] = IF k <= Len(moved) THEN moved[k] ELSE new[k - Len(moved)]
            <4> HIDE DEF T
            <4> QED BY <2>1, <2>2, ConcatProperties
        <3> QED BY <1>3, <2>1, <3>1
    <2> HIDE DEF T
    <2> QED BY <2>3, LenProperties
<1>7. Freed[1] = 0
    BY DEF Freed
<1>8. ASSUME NEW k \in Left(moved \o new) PROVE k \in Left(e)
    <2>1. k \in 1..(n + 8) /\ (IF k <= n THEN moved[k] ELSE new[k - n]).subscriber = Freed
        BY <1>6 DEF Left
    <2>2. ASSUME ~(k <= n) PROVE FALSE
        <3>1. k - n \in 1..8
            BY <1>1, <2>1, <2>2
        <3>2. new[k - n].subscriber[1] = id
            BY <1>3, <3>1
        <3> QED BY <1>7, <2>1, <2>2, <3>2
    <2>3. k \in 1..n
        BY <1>1, <2>1, <2>2
    <2>4. moved[k] = e[k]
        BY <1>4, <1>7, <2>1, <2>2, <2>3
    <2> QED BY <1>1, <2>1, <2>2, <2>3, <2>4 DEF Left
<1> QED BY <1>2, <1>8

(* The identities of the rows, and what a handler of the menu does to them.*)
RowIds(rows) == {rows[i].id : i \in DOMAIN rows}

(* A profile takes the handlers of all rows away, one row after the other, *)
(* and gives its own rows theirs.                                          *)
LEMMA LoadedHandlers ==
    ASSUME WatchInv, EventsOf(item_events, RowIds(watch_rows)), NEW profile \in Profiles, LoadProfile(profile)
    PROVE  EventsOf(item_events', 1..Len(profile))
<1> DEFINE n == Len(profile)
           old == Len(watch_rows)
           Clears(f) == f = [k \in 0..old |-> IF k = 0 THEN item_events ELSE delete_row(f[k - 1], watch_rows[k].id)]
           cleared == CHOOSE f : Clears(f)
           places == {Freed} \cup ItemsOf(1..n)
           Adds(f, there) == f = [k \in 0..n |-> IF k = 0 THEN cleared[old] ELSE AddHandlers(f[k - 1], k, there)]
           added(there) == CHOOSE f : Adds(f, there)
           left(k) == {watch_rows[i].id : i \in (k + 1)..old}
           E(ids) == {e \in Seq(HandlerSet) : EventsOf(e, ids)}
<1>1. n \in Nat /\ old \in Nat /\ DOMAIN watch_rows = 1..old
    BY WatchesAssumption DEF WatchInv, RowsMatch
<1>2. /\ \A k \in 1..old : watch_rows[k].id \in Nat \ {0}
      /\ \A j, k \in 1..old : watch_rows[j].id = watch_rows[k].id => j = k
    <2>1. Len(watches) = old /\ \A k \in 1..old : watch_rows[k].id = watches[k].id
        BY DEF WatchInv, RowsMatch, Shows
    <2>2. WATCHES_MAX \in Nat
        BY WatchesAssumption
    <2> QED BY <2>1, <2>2 DEF WatchInv, IsWatchList
<1> HIDE DEF n, old
<1>3. ASSUME NEW k \in 1..old
      PROVE  /\ left(k - 1) \in SUBSET (Nat \ {0}) /\ watch_rows[k].id \in left(k - 1)
             /\ left(k) = left(k - 1) \ {watch_rows[k].id}
    <2>1. \A i \in k..old : i \in 1..old
        BY <1>1
    <2>2. (k - 1) + 1 = k /\ k \in k..old
        BY <1>1
    <2>3. \A i \in k..old : i = k \/ (i \in (k + 1)..old /\ i # k)
        BY <1>1
    <2>4. \A i \in (k + 1)..old : i # k /\ i \in k..old
        BY <1>1
    <2>5. left(k - 1) = {watch_rows[i].id : i \in k..old}
        BY <2>2
    <2>6. left(k) = {watch_rows[i].id : i \in k..old} \ {watch_rows[k].id}
        BY <1>2, <2>1, <2>3, <2>4
    <2> QED BY <1>2, <2>1, <2>2, <2>5, <2>6
<1>4. left(0) = RowIds(watch_rows) /\ left(old) = {}
    <2>1. 0 + 1 = 1 /\ (old + 1)..old = {}
        BY <1>1
    <2> QED BY <1>1, <2>1 DEF RowIds
<1> HIDE DEF left
<1>5. item_events \in E(left(0))
    BY <1>4 DEF EventsOf
<1> HIDE DEF LoadProfile
<1>6. Clears(cleared) /\ cleared[old] \in E({})
    <2> DEFINE B == [k \in 0..old |-> E(left(k))]
               G == [k \in 1..old |-> [e \in Seq(HandlerSet) |-> delete_row(e, watch_rows[k].id)]]
    <2>1. ASSUME NEW k \in 1..old, NEW e \in B[k - 1]
          PROVE  G[k][e] = delete_row(e, watch_rows[k].id) /\ G[k][e] \in B[k]
        <3>1. k - 1 \in 0..old /\ k \in 0..old
            BY <1>1
        <3>2. e \in E(left(k - 1))
            BY <2>1, <3>1
        <3>3. EventsOf(delete_row(e, watch_rows[k].id), left(k))
            <4> DEFINE ids == left(k - 1)
                       id == watch_rows[k].id
            <4>1. ids \in SUBSET (Nat \ {0}) /\ id \in ids /\ EventsOf(e, ids) /\ left(k) = ids \ {id}
                BY <1>3, <3>2
            <4> HIDE DEF ids, id
            <4>2. EventsOf(delete_row(e, id), ids \ {id})
                BY <4>1, RowDeleted
            <4>3. EventsOf(delete_row(e, id), left(k))
                BY <4>1, <4>2
            <4> QED BY <4>3 DEF id
        <3>4. G[k][e] = delete_row(e, watch_rows[k].id)
            BY <3>2
        <3> QED BY <3>1, <3>3, <3>4 DEF EventsOf
    <2>2. item_events \in B[0] /\ B[old] = E({})
        <3>1. 0 \in 0..old /\ old \in 0..old
            BY <1>1
        <3>2. B[0] = E(left(0)) /\ B[old] = E(left(old))
            BY <3>1
        <3> HIDE DEF B, E
        <3> QED BY <1>4, <1>5, <3>2
    <2> HIDE DEF B, G
    <2>3. PICK f : f \in StepwiseIn(item_events, old, B, G)
        BY <1>1, <2>1, <2>2, StaysUpTo
    <2>4. /\ DOMAIN f = 0..old /\ f = [k \in DOMAIN f |-> f[k]] /\ f[0] = item_events
          /\ \A k \in 1..old : f[k] = G[k][f[k - 1]] /\ f[k] \in B[k]
        BY <2>3 DEF StepwiseIn
    <2>5. ASSUME NEW k \in 0..old PROVE f[k] \in B[k]
        BY <2>2, <2>4
    <2>6. ASSUME NEW k \in 0..old, k # 0 PROVE f[k] = delete_row(f[k - 1], watch_rows[k].id)
        <3>1. k \in 1..old /\ k - 1 \in 0..old
            BY <1>1, <2>6
        <3> QED BY <2>1, <2>4, <2>5, <3>1
    <2>7. Clears(f)
        BY <2>4, <2>6
    <2> HIDE DEF Clears
    <2>8. Clears(cleared)
        BY <2>7
    <2>9. ASSUME NEW g, Clears(g) PROVE g[old] = f[old]
        <3> DEFINE Same == {k \in 0..old : g[k] = f[k]}
        <3>1. /\ \A k \in 0..old : g[k] = IF k = 0 THEN item_events ELSE delete_row(g[k - 1], watch_rows[k].id)
              /\ 0 \in 0..old /\ old \in 0..old
            BY <1>1, <2>9 DEF Clears
        <3>2. 0 \in Same
            BY <2>4, <3>1
        <3>3. ASSUME NEW k \in 1..old, k - 1 \in Same PROVE k \in Same
            <4>1. k \in 0..old /\ k # 0
                BY <1>1
            <4> QED BY <2>6, <3>1, <3>3, <4>1
        <3> HIDE DEF Same
        <3>4. \A k \in (0 + 1)..old : k - 1 \in Same => k \in Same
            BY <3>3
        <3>5. \A k \in 0..old : k \in Same
            BY <1>1, <3>2, <3>4, EveryPlace
        <3> QED BY <3>1, <3>5 DEF Same
    <2>10. old \in 0..old
        BY <1>1
    <2> HIDE DEF cleared
    <2> QED BY <2>2, <2>5, <2>8, <2>9, <2>10
<1>7. PICK there \in [Left(cleared[old]) -> places] : item_events' = added(there)[n]
    BY DEF LoadProfile, n, old
<1> HIDE DEF cleared
(* Adding rows leaves no handler behind that was not left before them.     *)
<1>8. added(there)[n] \in E(1..n)
    <2> DEFINE F(k) == {e \in E(1..k) : Left(e) \subseteq Left(cleared[old])}
               B == [k \in 0..n |-> F(k)]
               G == [k \in 1..n |-> [e \in Seq(HandlerSet) |-> AddHandlers(e, k, there)]]
    <2>1. ASSUME NEW k \in 1..n, NEW e \in B[k - 1]
          PROVE  G[k][e] = AddHandlers(e, k, there) /\ G[k][e] \in B[k]
        <3>1. k - 1 \in 0..n /\ k \in 0..n
            BY <1>1
        <3>2. e \in E(1..(k - 1)) /\ Left(e) \subseteq Left(cleared[old])
            BY <2>1, <3>1
        <3>3. /\ 1..(k - 1) \in SUBSET (Nat \ {0}) /\ k \in Nat \ {0} /\ k \notin 1..(k - 1)
              /\ 1..k = (1..(k - 1)) \cup {k}
            BY <1>1
        <3>4. \A j \in Left(e) : there[j][1] = k => there[j] \in ItemsOf({k})
            <4> SUFFICES ASSUME NEW j \in Left(e), there[j][1] = k PROVE there[j] \in ItemsOf({k})
                OBVIOUS
            <4>1. there[j] \in places
                BY <1>7, <3>2
            <4>2. there[j] # Freed
                BY <3>3 DEF Freed
            <4>3. PICK m \in 1..n, i \in DOMAIN RowItems : there[j] = <<m, RowItems[i]>>
                BY <4>1, <4>2 DEF ItemsOf
            <4> QED BY <4>3 DEF ItemsOf
        <3>5. EventsOf(AddHandlers(e, k, there), (1..(k - 1)) \cup {k})
            BY <3>2, <3>3, <3>4, RowGotHandlers
        <3>6. EventsOf(AddHandlers(e, k, there), 1..k)
            BY <3>3, <3>5
        <3>7. G[k][e] = AddHandlers(e, k, there)
            BY <3>2
        <3>8. Left(AddHandlers(e, k, there)) \subseteq Left(e)
            BY <3>2, <3>3, <3>4, NoneLeftAnew DEF EventsOf
        <3> QED BY <3>1, <3>2, <3>6, <3>7, <3>8 DEF EventsOf
    <2>2. cleared[old] \in B[0] /\ B[n] \subseteq E(1..n)
        <3>1. 1..0 = {} /\ 0 \in 0..n /\ n \in 0..n
            BY <1>1
        <3> QED BY <1>6, <3>1
    <2> HIDE DEF B, G
    <2>3. PICK f : f \in StepwiseIn(cleared[old], n, B, G)
        BY <1>1, <2>1, <2>2, StaysUpTo
    <2>4. /\ DOMAIN f = 0..n /\ f = [k \in DOMAIN f |-> f[k]] /\ f[0] = cleared[old]
          /\ \A k \in 1..n : f[k] = G[k][f[k - 1]] /\ f[k] \in B[k]
        BY <2>3 DEF StepwiseIn
    <2>5. ASSUME NEW k \in 0..n PROVE f[k] \in B[k]
        BY <2>2, <2>4
    <2>6. ASSUME NEW k \in 0..n, k # 0 PROVE f[k] = AddHandlers(f[k - 1], k, there)
        <3>1. k \in 1..n /\ k - 1 \in 0..n
            BY <1>1, <2>6
        <3> QED BY <2>1, <2>4, <2>5, <3>1
    <2>7. Adds(f, there)
        BY <2>4, <2>6
    <2> HIDE DEF Adds
    <2>8. Adds(added(there), there)
        BY <2>7
    <2>9. ASSUME NEW g, Adds(g, there) PROVE g[n] = f[n]
        <3> DEFINE Same == {k \in 0..n : g[k] = f[k]}
        <3>1. /\ \A k \in 0..n : g[k] = IF k = 0 THEN cleared[old] ELSE AddHandlers(g[k - 1], k, there)
              /\ 0 \in 0..n /\ n \in 0..n
            BY <1>1, <2>9 DEF Adds
        <3>2. 0 \in Same
            BY <2>4, <3>1
        <3>3. ASSUME NEW k \in 1..n, k - 1 \in Same PROVE k \in Same
            <4>1. k \in 0..n /\ k # 0
                BY <1>1
            <4> QED BY <2>6, <3>1, <3>3, <4>1
        <3> HIDE DEF Same
        <3>4. \A k \in (0 + 1)..n : k - 1 \in Same => k \in Same
            BY <3>3
        <3>5. \A k \in 0..n : k \in Same
            BY <1>1, <3>2, <3>4, EveryPlace
        <3> QED BY <3>1, <3>5 DEF Same
    <2>10. n \in 0..n
        BY <1>1
    <2> HIDE DEF added
    <2> QED BY <2>2, <2>5, <2>8, <2>9, <2>10
<1> HIDE DEF added
<1> QED BY <1>7, <1>8 DEF n

(* With the rows and their watches goes the list of handlers. *)
HandlersInv == WatchInv /\ EventsOf(item_events, RowIds(watch_rows))

(* A row is as old as its watch, and no two rows are the same. *)
LEMMA RowIdentities ==
    ASSUME WatchInv
    PROVE  /\ RowIds(watch_rows) \in SUBSET (Nat \ {0})
           /\ DOMAIN watch_rows = 1..Len(watches)
           /\ \A i \in 1..Len(watches) : watch_rows[i].id = watches[i].id
           /\ \A i, j \in 1..Len(watches) : watch_rows[i].id = watch_rows[j].id => i = j
<1>1. /\ DOMAIN watch_rows = 1..Len(watches)
      /\ \A i \in 1..Len(watches) : watch_rows[i].id = watches[i].id
    BY DEF WatchInv, RowsMatch, Shows
<1>2. WATCHES_MAX \in Nat
    BY WatchesAssumption
<1>3. /\ \A i \in 1..Len(watches) : watches[i].id \in 1..(WATCHES_MAX + 1)
      /\ \A i, j \in 1..Len(watches) : watches[i].id = watches[j].id => i = j
    BY DEF WatchInv, IsWatchList
<1>4. ASSUME NEW i \in DOMAIN watch_rows PROVE watch_rows[i].id \in Nat \ {0}
    BY <1>1, <1>2, <1>3
<1>5. RowIds(watch_rows) \in SUBSET (Nat \ {0})
    BY <1>4 DEF RowIds
<1>6. ASSUME NEW i \in 1..Len(watches), NEW j \in 1..Len(watches), watch_rows[i].id = watch_rows[j].id
      PROVE  i = j
    BY <1>1, <1>3, <1>6
<1> QED BY <1>1, <1>5, <1>6

(* The rows with the identities they had. *)
LEMMA SameIdentities ==
    ASSUME NEW rows, NEW old, DOMAIN rows = DOMAIN old, \A i \in DOMAIN old : rows[i].id = old[i].id
    PROVE  RowIds(rows) = RowIds(old)
BY DEF RowIds

(* One step of the menu keeps the handlers of the rows that stay. *)
LEMMA HandlersStep ==
    ASSUME HandlersInv, WatchNext PROVE HandlersInv'
<1>1. WatchInv /\ WatchInv' /\ EventsOf(item_events, RowIds(watch_rows))
    BY WatchStep DEF HandlersInv
<1>2. /\ RowIds(watch_rows) \in SUBSET (Nat \ {0})
      /\ DOMAIN watch_rows = 1..Len(watches) /\ watch_rows \in Seq(Row) /\ Len(watch_rows) = Len(watches)
      /\ \A i \in 1..Len(watches) : watch_rows[i].id = watches[i].id /\ watch_rows[i] \in Row
      /\ \A i, j \in 1..Len(watches) : watch_rows[i].id = watch_rows[j].id => i = j
    <2>1. watch_rows \in Seq(Row) /\ Len(watch_rows) = Len(watches)
        BY <1>1 DEF WatchInv, RowsMatch
    <2> QED BY <1>1, <2>1, RowIdentities, ElementOfSeq
<1>3. SUFFICES EventsOf(item_events', RowIds(watch_rows'))
    BY <1>1 DEF HandlersInv, RowIds
<1>4. CASE watches_button_add
    <2> DEFINE id == NewId(watch_rows)
               w == [id |-> id, address |-> prev_addr, type |-> prev_type, floating |-> FALSE]
               row == NewRow(id, w, add_y)
               rows == Append(watch_rows, row)
    <2>1. /\ watch_rows' = rows
          /\ \E there \in [Left(item_events) -> {Freed} \cup ItemsOf({id})] :
               item_events' = AddHandlers(item_events, id, there)
        BY <1>4 DEF watches_button_add
    <2>2. row.id = id
        BY DEF NewRow
    <2>3. id \in Nat \ {0} /\ id \notin RowIds(watch_rows)
        <3>1. id \in 1..(WATCHES_MAX + 1) /\ \A k \in 1..Len(watches) : watches[k].id # id
            BY <1>1, NewIdIsNew DEF WatchInv
        <3>2. WATCHES_MAX \in Nat
            BY WatchesAssumption
        <3> HIDE DEF id
        <3> QED BY <1>2, <3>1, <3>2 DEF RowIds
    <2> HIDE DEF id, row
    <2>4. RowIds(rows) = RowIds(watch_rows) \cup {id}
        <3> DEFINE n == Len(watches)
        <3>1. n \in Nat /\ DOMAIN rows = 1..(n + 1) /\ rows[n + 1] = row /\ \A k \in 1..n : rows[k] = watch_rows[k]
            BY <1>2
        <3>2. \A k \in 1..(n + 1) : k \in 1..n \/ k = n + 1
            BY <3>1
        <3>3. n + 1 \in 1..(n + 1) /\ \A k \in 1..n : k \in 1..(n + 1)
            BY <3>1
        <3> HIDE DEF rows, n
        <3>4. DOMAIN watch_rows = 1..n
            BY <1>2 DEF n
        <3> QED BY <2>2, <3>1, <3>2, <3>3, <3>4 DEF RowIds
    <2> HIDE DEF rows
    <2>5. PICK there \in [Left(item_events) -> {Freed} \cup ItemsOf({id})] :
             item_events' = AddHandlers(item_events, id, there)
        BY <2>1
    <2>6. \A k \in Left(item_events) : there[k][1] = id => there[k] \in ItemsOf({id})
        BY <2>3 DEF Freed
    <2>7. EventsOf(AddHandlers(item_events, id, there), RowIds(watch_rows) \cup {id})
        BY <1>1, <1>2, <2>3, <2>6, RowGotHandlers
    <2> QED BY <2>1, <2>4, <2>5, <2>7
<1>5. ASSUME NEW i \in 1..Len(watches), menu_watch_delete(i) PROVE EventsOf(item_events', RowIds(watch_rows'))
    <2> DEFINE id == watch_rows[i].id
               left == RemoveAt(watch_rows, i)
               rows == MovedUp(left, i)
               n == Len(watches)
    <2>1. watch_rows' = rows /\ item_events' = delete_row(item_events, id)
        BY <1>5 DEF menu_watch_delete
    <2>2. /\ n \in Nat /\ left \in Seq(Row) /\ Len(left) = n - 1
          /\ \A k \in 1..(n - 1) : left[k] = IF k < i THEN watch_rows[k] ELSE watch_rows[k + 1]
        <3>1. i \in 1..Len(watch_rows) /\ Len(watch_rows) \in Nat
            BY <1>2
        <3> QED BY <1>2, <3>1, RemoveAtProperties, ZenonT(30)
    <2>3. DOMAIN left = 1..(n - 1) /\ \A k \in 1..(n - 1) : left[k] \in Row
        BY <2>2, ElementOfSeq, LenProperties
    <2> HIDE DEF left
    <2>4. DOMAIN rows = 1..(n - 1) /\ \A k \in 1..(n - 1) : rows[k].id = left[k].id
        BY <2>3 DEF MovedUp, Row
    <2> HIDE DEF rows, n
    <2>5. RowIds(rows) = RowIds(watch_rows) \ {id}
        <3>1. ASSUME NEW k \in 1..(n - 1) PROVE rows[k].id \in RowIds(watch_rows) \ {id}
            <4>1. PICK j \in 1..n : j # i /\ left[k] = watch_rows[j]
                <5>1. k \in 1..n /\ k + 1 \in 1..n /\ (k < i => k # i) /\ (~(k < i) => k + 1 # i)
                    BY <2>2 DEF n
                <5> QED BY <2>2, <5>1
            <4>2. DOMAIN watch_rows = 1..n
                BY <1>2 DEF n
            <4>3. rows[k].id = watch_rows[j].id
                BY <2>4, <4>1
            <4>4. watch_rows[j].id # watch_rows[i].id
                BY <1>2, <4>1 DEF n
            <4>5. watch_rows[j].id \in RowIds(watch_rows)
                BY <4>2 DEF RowIds
            <4> HIDE DEF RowIds
            <4> QED BY <4>3, <4>4, <4>5
        <3>2. ASSUME NEW j \in 1..n, j # i PROVE \E k \in 1..(n - 1) : rows[k].id = watch_rows[j].id
            <4>1. CASE j < i
                <5>1. j \in 1..(n - 1)
                    BY <2>2, <4>1 DEF n
                <5> QED BY <2>2, <2>4, <4>1, <5>1
            <4>2. CASE ~(j < i)
                <5>1. j - 1 \in 1..(n - 1) /\ ~(j - 1 < i) /\ (j - 1) + 1 = j
                    BY <2>2, <3>2, <4>2 DEF n
                <5> QED BY <2>2, <2>4, <5>1
            <4> QED BY <4>1, <4>2
        <3>3. DOMAIN watch_rows = 1..n
            BY <1>2 DEF n
        <3>4. RowIds(rows) = {rows[k].id : k \in 1..(n - 1)}
            BY <2>4 DEF RowIds
        <3>5. RowIds(watch_rows) = {watch_rows[j].id : j \in 1..n}
            BY <3>3 DEF RowIds
        <3> QED BY <3>1, <3>2, <3>4, <3>5
    <2>6. id \in RowIds(watch_rows)
        BY <1>2 DEF RowIds
    <2> HIDE DEF id
    <2>7. EventsOf(delete_row(item_events, id), RowIds(watch_rows) \ {id})
        BY <1>1, <1>2, <2>6, RowDeleted
    <2> QED BY <2>1, <2>5, <2>7
<1>6. ASSUME item_events' = item_events, DOMAIN watch_rows' = DOMAIN watch_rows,
             \A i \in DOMAIN watch_rows : watch_rows'[i].id = watch_rows[i].id
      PROVE  EventsOf(item_events', RowIds(watch_rows'))
    BY <1>1, <1>6, SameIdentities
<1>7. ASSUME NEW i \in 1..Len(watches), menu_watch_anchor(i) PROVE EventsOf(item_events', RowIds(watch_rows'))
    <2> DEFINE k == WatchOf(watch_rows[i])
               floating == ~watches[k].floating
               moving == [watch_rows[i] EXCEPT !.move_enabled = floating]
               row == [moving EXCEPT !.on_tile = IF floating THEN 1 ELSE 7]
    <2>1. item_events' = item_events /\ watch_rows' = [watch_rows EXCEPT ![i] = row]
        BY <1>2, <1>7 DEF menu_watch_anchor
    <2> HIDE DEF floating
    <2>2. moving.id = watch_rows[i].id /\ DOMAIN moving = DOMAIN watch_rows[i] /\ "id" \in DOMAIN watch_rows[i]
        BY <1>2 DEF Row
    <2> HIDE DEF moving
    <2>3. row.id = watch_rows[i].id
        BY <2>2
    <2> HIDE DEF row
    <2> QED BY <1>2, <1>6, <2>1, <2>3
<1>8. ASSUME NEW i \in 1..Len(watches), NEW entered \in Entries, watch_address_onnumber(i, entered)
      PROVE  EventsOf(item_events', RowIds(watch_rows'))
    <2>1. \E address : item_events' = item_events /\ watch_rows' = [watch_rows EXCEPT ![i].addr = address]
        BY <1>8 DEF watch_address_onnumber
    <2>2. PICK address : item_events' = item_events /\ watch_rows' = [watch_rows EXCEPT ![i].addr = address]
        BY <2>1
    <2>3. [watch_rows[i] EXCEPT !.addr = address].id = watch_rows[i].id
        BY <1>2 DEF Row
    <2> QED BY <1>2, <1>6, <2>2, <2>3
<1>9. ASSUME NEW i \in 1..Len(watches), NEW type \in Types, watch_type_onlist(i, type)
      PROVE  EventsOf(item_events', RowIds(watch_rows'))
    <2> DEFINE address == Aligned(watches[WatchOf(watch_rows[i])].address, type)
               moved == [watch_rows[i] EXCEPT !.addr = address]
               row == [moved EXCEPT !.type = type]
    <2>1. item_events' = item_events /\ watch_rows' = [watch_rows EXCEPT ![i] = row]
        BY <1>2, <1>9 DEF watch_type_onlist
    <2> HIDE DEF address
    <2>2. moved.id = watch_rows[i].id /\ DOMAIN moved = DOMAIN watch_rows[i] /\ "id" \in DOMAIN watch_rows[i]
        BY <1>2 DEF Row
    <2> HIDE DEF moved
    <2>3. row.id = watch_rows[i].id
        BY <2>2
    <2> HIDE DEF row
    <2> QED BY <1>2, <1>6, <2>1, <2>3
<1>10. CASE WatchNavigate \/ EnterOrReturn
    <2>1. item_events' = item_events /\ watch_rows' = watch_rows
        BY <1>10 DEF WatchNavigate, EnterOrReturn
    <2> QED BY <1>1, <2>1
<1>11. ASSUME NEW profile \in Profiles, LoadProfile(profile) PROVE EventsOf(item_events', RowIds(watch_rows'))
    <2> DEFINE n == Len(profile)
               new == [k \in 1..n |-> [profile[k] EXCEPT !.id = k]]
    <2>1. watch_rows' = [k \in 1..n |-> NewRow(k, new[k], 2 * k - 1)]
        BY <1>11 DEF LoadProfile
    <2>2. RowIds(watch_rows') = 1..n
        <3> HIDE DEF n, new
        <3>1. \A k \in 1..n : watch_rows'[k].id = k
            BY <2>1 DEF NewRow
        <3>2. DOMAIN watch_rows' = 1..n
            BY <2>1
        <3> QED BY <3>1, <3>2 DEF RowIds
    <2>3. EventsOf(item_events', 1..n)
        BY <1>1, <1>11, LoadedHandlers
    <2> QED BY <2>2, <2>3
<1> QED BY <1>2, <1>4, <1>5, <1>7, <1>8, <1>9, <1>10, <1>11 DEF WatchNext

(* The page starts with its own two items. *)
LEMMA HandlersStart == WatchInit => HandlersInv
<1> SUFFICES ASSUME WatchInit PROVE HandlersInv
    OBVIOUS
<1>1. /\ item_events = <<Handler(ReturnItem), Handler(AddItem)>> /\ watch_rows = <<>>
      /\ item_events[2] = Handler(AddItem)
    BY DEF WatchInit
<1>2. /\ Handler(ReturnItem) \in HandlerSet /\ Handler(AddItem) \in HandlerSet
      /\ Handler(ReturnItem).own = Handler(ReturnItem).subscriber /\ Handler(ReturnItem).subscriber[1] = 0
      /\ Handler(AddItem).own = Handler(AddItem).subscriber /\ Handler(AddItem).subscriber[1] = 0
      /\ Handler(AddItem).own[2] = "add"
    BY DEF Handler, ReturnItem, AddItem, HandlerSet, Names
<1>3. RowIds(watch_rows) = {}
    BY <1>1 DEF RowIds
<1>4. /\ item_events \in Seq(HandlerSet) /\ Len(item_events) = 2 /\ item_events # <<>>
      /\ \A k \in 1..2 : item_events[k] \in {Handler(ReturnItem), Handler(AddItem)}
    BY <1>1, <1>2
<1>5. \A k \in 1..2 : HandlerOk(item_events[k], {})
    BY <1>2, <1>4 DEF HandlerOk
<1> QED BY <1>1, <1>2, <1>3, <1>4, <1>5, WatchStart DEF HandlersInv, EventsOf

(* No row loses a handler when other rows are added, deleted or replaced   *)
(* by a profile's: each row that is there has all of its own, in order,    *)
(* and only a removed label's handler is ever left behind.                 *)
THEOREM WatchRowsKeepHandlers == WatchSpec => []RowsKeepHandlers
<1>1. HandlersInv /\ [WatchNext]_WatchVars => HandlersInv'
    <2>1. HandlersInv /\ UNCHANGED WatchVars => HandlersInv'
        BY DEF WatchVars, HandlersInv, WatchInv, IsWatchList, RowsMatch, EventsOf, RowIds
    <2> QED BY <2>1, HandlersStep
<1>2. HandlersInv => RowsKeepHandlers
    <2> SUFFICES ASSUME HandlersInv PROVE RowsKeepHandlers
        OBVIOUS
    <2>1. /\ item_events \in Seq(HandlerSet) /\ DOMAIN item_events = 1..Len(item_events)
          /\ \A k \in DOMAIN item_events : item_events[k] \in HandlerSet /\ HandlerOk(item_events[k], RowIds(watch_rows))
          /\ \A id \in RowIds(watch_rows) : Those(item_events, OwnHandlers(id)) = NewHandlers(id)
        BY LenProperties, ElementOfSeq DEF HandlersInv, EventsOf
    <2>2. ASSUME NEW i \in DOMAIN watch_rows
          PROVE  FlattenSeq([k \in DOMAIN item_events |->
                     IF item_events[k].own[1] = watch_rows[i].id /\ item_events[k].own = item_events[k].subscriber
                     THEN <<item_events[k]>> ELSE <<>>])
                 = [k \in DOMAIN RowHandlers |-> Handler(<<watch_rows[i].id, RowHandlers[k]>>)]
        <3> DEFINE id == watch_rows[i].id
                   mine == [k \in DOMAIN item_events |->
                                IF item_events[k].own[1] = id /\ item_events[k].own = item_events[k].subscriber
                                THEN <<item_events[k]>> ELSE <<>>]
                   those == [k \in DOMAIN item_events |->
                                IF item_events[k] \in OwnHandlers(id) THEN <<item_events[k]>> ELSE <<>>]
        <3>1. mine = those
            BY <2>1 DEF OwnHandlers
        <3>2. FlattenSeq(those) = NewHandlers(id)
            <4>1. id \in RowIds(watch_rows)
                BY DEF RowIds
            <4>2. FlattenSeq(those) = Those(item_events, OwnHandlers(id))
                BY DEF Those
            <4> HIDE DEF id, those
            <4> QED BY <2>1, <4>1, <4>2
        <3> HIDE DEF mine, those
        <3>3. FlattenSeq(mine) = NewHandlers(id)
            BY <3>1, <3>2
        <3> QED BY <3>3 DEF mine, NewHandlers
    <2>3. \A k \in Stale(item_events) : item_events[k].own[2] = "label"
        BY <2>1 DEF Stale, HandlerOk
    <2> QED BY <2>2, <2>3 DEF RowsKeepHandlers
<1> QED BY <1>1, <1>2, HandlersStart, PTL DEF WatchSpec

(* The row that the cursor was on is deleted under it. *)
LEMMA UsableAfterDelete ==
    ASSUME WatchInv, NEW i \in 1..Len(watches), menu_watch_delete(i)
    PROVE  Enabled(selected_item)'
<1> DEFINE left == RemoveAt(watch_rows, i)
<1>1. watch_rows' = MovedUp(left, i) /\ selected_item' = SelectedAfterDelete(left, i)
    BY DEF menu_watch_delete
<1>2. watch_rows \in Seq(Row) /\ i \in 1..Len(watch_rows)
    BY DEF WatchInv, RowsMatch
<1>3. left \in Seq(Row)
    BY <1>2, RemoveAtProperties
<1> HIDE DEF left
<1>4. CASE i <= Len(left)
    <2>1. i \in 1..Len(left) /\ DOMAIN left = 1..Len(left) /\ i >= i
        BY <1>2, <1>3, <1>4
    <2>2. left[i] \in Row
        BY <1>3, <2>1, ElementOfSeq
    <2>3. i \in DOMAIN watch_rows' /\ watch_rows'[i] = [left[i] EXCEPT !.y = @ - 2]
        BY <1>1, <2>1 DEF MovedUp
    <2>4. watch_rows'[i].id = left[i].id
        BY <2>2, <2>3 DEF Row
    <2>5. selected_item' = <<left[i].id, "delete">>
        BY <1>1, <1>4 DEF SelectedAfterDelete
    <2> QED BY <2>3, <2>4, <2>5 DEF Enabled
<1>5. CASE ~(i <= Len(left))
    <2>1. selected_item' = AddItem
        BY <1>1, <1>5 DEF SelectedAfterDelete
    <2> QED BY <2>1 DEF Enabled
<1> QED BY <1>4, <1>5

(* While the menu is on the screen, a cursor on an item that is there and  *)
(* can be used stays on such a one: deleting a row, and taking the move    *)
(* button away from a watch that is anchored, never leave it on what is    *)
(* gone.  Of a cursor that a profile, loaded while the menu was away, has  *)
(* left on a freed item it says nothing.                                   *)
THEOREM WatchCursorStaysUsable == WatchSpec => CursorStaysUsable
<1> DEFINE Stays == shown /\ Enabled(selected_item) => Enabled(selected_item)'
<1>1. WatchInv /\ [WatchNext]_WatchVars => [Stays]_WatchVars
    <2> SUFFICES ASSUME WatchInv, WatchNext, shown, Enabled(selected_item)
                 PROVE  Enabled(selected_item)'
        BY DEF Stays
    <2>1. /\ watch_rows \in Seq(Row) /\ Len(watch_rows) = Len(watches)
          /\ DOMAIN watch_rows = 1..Len(watches)
        BY DEF WatchInv, RowsMatch
    <2>2. \A i \in 1..Len(watches) : watch_rows[i] \in Row
        BY <2>1, ElementOfSeq
    <2>3. CASE watches_button_add
        <3>1. selected_item' = AddItem
            BY <2>3 DEF watches_button_add
        <3> QED BY <3>1 DEF Enabled
    <2>4. ASSUME NEW i \in 1..Len(watches), menu_watch_delete(i) PROVE Enabled(selected_item)'
        BY <2>4, UsableAfterDelete
    (* A handler of one row leaves the identities and the other rows.      *)
    <2>5. ASSUME NEW i \in 1..Len(watches), NEW row, NEW item \in {"anchor", "addr", "type"},
                 watch_rows' = [watch_rows EXCEPT ![i] = row], row.id = watch_rows[i].id,
                 selected_item = <<watch_rows[i].id, item>>, selected_item' = selected_item
          PROVE  Enabled(selected_item)'
        <3>1. i \in DOMAIN watch_rows' /\ watch_rows'[i].id = watch_rows[i].id
            BY <2>1, <2>5
        <3> QED BY <2>5, <3>1 DEF Enabled
    <2>6. ASSUME NEW i \in 1..Len(watches), menu_watch_anchor(i) PROVE Enabled(selected_item)'
        <3> DEFINE floating == ~watches[WatchOf(watch_rows[i])].floating
                   moving == [watch_rows[i] EXCEPT !.move_enabled = floating]
                   row == [moving EXCEPT !.on_tile = IF floating THEN 1 ELSE 7]
        <3>1. /\ watch_rows' = [watch_rows EXCEPT ![i] = row]
              /\ selected_item = <<watch_rows[i].id, "anchor">> /\ selected_item' = selected_item
            BY <2>1, <2>6 DEF menu_watch_anchor
        <3>2. row.id = watch_rows[i].id
            BY <2>2 DEF Row
        <3> HIDE DEF row
        <3> QED BY <2>5, <3>1, <3>2
    <2>7. ASSUME NEW i \in 1..Len(watches), NEW entered \in Entries, watch_address_onnumber(i, entered)
          PROVE  Enabled(selected_item)'
        <3>1. PICK address : watch_rows' = [watch_rows EXCEPT ![i].addr = address]
            BY <2>7 DEF watch_address_onnumber
        <3> DEFINE row == [watch_rows[i] EXCEPT !.addr = address]
        <3>2. watch_rows' = [watch_rows EXCEPT ![i] = row] /\ row.id = watch_rows[i].id
            BY <2>1, <2>2, <3>1 DEF Row
        <3>3. selected_item = <<watch_rows[i].id, "addr">> /\ selected_item' = selected_item
            BY <2>7 DEF watch_address_onnumber
        <3> HIDE DEF row
        <3> QED BY <2>5, <3>2, <3>3
    <2>8. ASSUME NEW i \in 1..Len(watches), NEW type \in Types, watch_type_onlist(i, type)
          PROVE  Enabled(selected_item)'
        <3>1. PICK address : watch_rows' = [watch_rows EXCEPT ![i].addr = address, ![i].type = type]
            BY <2>8 DEF watch_type_onlist
        <3> DEFINE moved == [watch_rows[i] EXCEPT !.addr = address]
                   row == [moved EXCEPT !.type = type]
        <3>2. watch_rows' = [watch_rows EXCEPT ![i] = row] /\ row.id = watch_rows[i].id
            BY <2>1, <2>2, <3>1 DEF Row
        <3>3. selected_item = <<watch_rows[i].id, "type">> /\ selected_item' = selected_item
            BY <2>8 DEF watch_type_onlist
        <3> HIDE DEF row
        <3> QED BY <2>5, <3>2, <3>3
    <2>9. CASE WatchNavigate
        <3>1. UNCHANGED watch_rows /\ Enabled(selected_item')
            BY <2>9 DEF WatchNavigate
        <3> QED BY <3>1 DEF Enabled
    <2>10. CASE EnterOrReturn
        <3>1. UNCHANGED <<watch_rows, selected_item>>
            BY <2>10 DEF EnterOrReturn
        <3> QED BY <3>1 DEF Enabled
    <2>11. ASSUME NEW profile \in Profiles, LoadProfile(profile) PROVE FALSE
        BY <2>11 DEF LoadProfile
    <2> QED BY <2>1, <2>3, <2>4, <2>6, <2>7, <2>8, <2>9, <2>10, <2>11 DEF WatchNext
<1> HIDE DEF Stays
<1>2. WatchSpec => [][Stays]_WatchVars
    BY <1>1, WatchInvariant, PTL DEF WatchSpec
<1> QED BY <1>2 DEF CursorStaysUsable, Stays

-----------------------------------------------------------------------------
(* The fields.  A field that is not being edited shows its variable as it  *)
(* was in the last frame; an edit goes on from there, until the user       *)
(* changes something.  What the digits show is what they add up to.        *)

DigitLists == [1..LENGTH -> 0..(BASE - 1)]
FieldData == [value : Nat, digits : DigitLists, sign : {"+", "-"}, edit_idx : Int,
              selected_idx : DOMAIN OPTIONS, editing : BOOLEAN]

(* What a field with data d makes of the value v. *)
Shown(d, v) ==
    IF kind = "list"
    THEN (\E i \in DOMAIN OPTIONS : OPTIONS[i] = v) => OPTIONS[d.selected_idx] = v
    ELSE d.digits = Digits(IF kind = "signed" /\ d.sign = "-" THEN (-v) % WORD ELSE v)

WidgetInv ==
    /\ kind \in {"number", "signed", "list"}
    /\ bound \in 0..(Width - 1) /\ held \in 0..(Width - 1)
    /\ data \in FieldData /\ touched \in BOOLEAN
    /\ ~data.editing \/ ~touched => Shown(data, held)

(* The powers of the base, which the model defines one from the other. *)
LEMMA PowersOfBase ==
    /\ Power \in [0..LENGTH -> Nat \ {0}]
    /\ Power[0] = 1 /\ \A n \in 1..LENGTH : Power[n] = BASE * Power[n - 1]
<1> DEFINE Positive == Nat \ {0}
           G == [n \in 1..LENGTH |-> [x \in Positive |-> BASE * x]]
           Powers(f) == f = [n \in 0..LENGTH |-> IF n = 0 THEN 1 ELSE BASE * f[n - 1]]
<1>1. LENGTH \in Nat \ {0} /\ BASE \in Nat \ {0, 1}
    BY WidgetAssumption
<1>2. \A x \in Positive : BASE * x \in Positive
    BY <1>1
<1>3. G \in [1..LENGTH -> [Positive -> Positive]]
    BY <1>2
<1>4. \A n \in 1..LENGTH : \A x \in Positive : G[n][x] = BASE * x
    OBVIOUS
<1>5. 1 \in Positive
    OBVIOUS
<1> HIDE DEF G, Positive
<1>6. PICK f \in [0..LENGTH -> Positive] : f[0] = 1 /\ \A n \in 1..LENGTH : f[n] = G[n][f[n - 1]]
    <2>1. LENGTH \in Nat
        BY <1>1
    <2>2. G \in Steps(LENGTH, Positive)
        BY <1>3 DEF Steps
    <2>3. PICK f : f \in Recursions(Positive, 1, LENGTH, G)
        BY <1>5, <2>1, <2>2, RecursionUpTo
    <2> QED BY <2>3 DEF Recursions
<1>7. \A n \in 1..LENGTH : n - 1 \in 0..LENGTH /\ n \in 0..LENGTH
    BY <1>1
<1>8. \A n \in 1..LENGTH : f[n] = BASE * f[n - 1]
    BY <1>4, <1>6, <1>7
<1>9. Powers(f)
    <2>1. \A n \in 0..LENGTH : f[n] = IF n = 0 THEN 1 ELSE BASE * f[n - 1]
        BY <1>6, <1>8, <1>1
    <2> QED BY <2>1
<1>10. Power = CHOOSE g : Powers(g)
    BY DEF Power
<1> HIDE DEF Powers
<1>11. Powers(Power)
    BY <1>9, <1>10
<1>12. Power = [n \in 0..LENGTH |-> IF n = 0 THEN 1 ELSE BASE * Power[n - 1]]
    BY <1>11 DEF Powers
<1>13. Power[0] = 1 /\ \A n \in 1..LENGTH : Power[n] = BASE * Power[n - 1]
    <2>1. 0 \in 0..LENGTH /\ \A n \in 1..LENGTH : n # 0
        BY <1>1
    <2> QED BY <1>7, <1>12, <2>1
<1> DEFINE others == {n \in 0..LENGTH : Power[n] \notin Positive}
<1>14. others = {}
    <2> SUFFICES ASSUME others # {} PROVE FALSE
        OBVIOUS
    <2>1. PICK m \in others : \A n \in others : m <= n
        <3>1. others \in SUBSET Nat
            BY <1>1
        <3> HIDE DEF others
        <3> QED BY <3>1, LeastNatural
    <2>2. m # 0 /\ m \in 0..LENGTH
        BY <1>5, <1>13, <2>1
    <2>3. m - 1 \in 0..LENGTH /\ ~(m <= m - 1) /\ m \in 1..LENGTH
        BY <1>1, <2>2
    <2>4. Power[m - 1] \in Positive
        BY <2>1, <2>3
    <2> QED BY <1>2, <1>13, <2>1, <2>3, <2>4
<1>15. \A n \in 0..LENGTH : Power[n] \in Nat \ {0}
    BY <1>14 DEF Positive
<1>16. Power = [n \in 0..LENGTH |-> Power[n]]
    BY <1>12
<1> QED BY <1>13, <1>15, <1>16

(* What int_to_char is given is a digit. *)
LEMMA DigitsAreDigits == ASSUME NEW v \in Nat PROVE Digits(v) \in DigitLists
<1>1. LENGTH \in Nat \ {0} /\ BASE \in Nat \ {0, 1}
    BY WidgetAssumption
<1>2. ASSUME NEW i \in 1..LENGTH PROVE (v \div Power[LENGTH - i]) % BASE \in 0..(BASE - 1)
    <2>1. LENGTH - i \in 0..LENGTH
        BY <1>1
    <2>2. Power[LENGTH - i] \in Nat \ {0}
        BY <2>1, PowersOfBase
    <2> QED BY <1>1, <2>2
<1> QED BY <1>2 DEF Digits, DigitLists

(* The sums of the last n digits. *)
LEMMA SumsOfDigits ==
    ASSUME NEW digits \in DigitLists
    PROVE  \E low \in [0..LENGTH -> Nat] :
             /\ low[0] = 0 /\ ValueOf(digits) = low[LENGTH]
             /\ \A n \in 1..LENGTH : low[n] = low[n - 1] + digits[LENGTH + 1 - n] * Power[n - 1]
<1> DEFINE G == [n \in 1..LENGTH |-> [x \in Nat |-> x + digits[LENGTH + 1 - n] * Power[n - 1]]]
           Sums(f) == f = [n \in 0..LENGTH |->
                             IF n = 0 THEN 0 ELSE f[n - 1] + digits[LENGTH + 1 - n] * Power[n - 1]]
           low == CHOOSE f : Sums(f)
<1>1. LENGTH \in Nat \ {0} /\ BASE \in Nat \ {0, 1}
    BY WidgetAssumption
<1>2. ASSUME NEW n \in 1..LENGTH PROVE digits[LENGTH + 1 - n] * Power[n - 1] \in Nat
    <2>1. LENGTH + 1 - n \in 1..LENGTH /\ n - 1 \in 0..LENGTH
        BY <1>1
    <2>2. Power[n - 1] \in Nat
        BY <2>1, PowersOfBase
    <2>3. digits[LENGTH + 1 - n] \in 0..(BASE - 1)
        BY <2>1 DEF DigitLists
    <2> QED BY <1>1, <2>2, <2>3
<1>3. G \in [1..LENGTH -> [Nat -> Nat]]
    BY <1>2
<1>4. \A n \in 1..LENGTH : \A x \in Nat : G[n][x] = x + digits[LENGTH + 1 - n] * Power[n - 1]
    OBVIOUS
<1> HIDE DEF G
<1>5. PICK f \in [0..LENGTH -> Nat] : f[0] = 0 /\ \A n \in 1..LENGTH : f[n] = G[n][f[n - 1]]
    <2>1. LENGTH \in Nat /\ 0 \in Nat
        BY <1>1
    <2>2. G \in Steps(LENGTH, Nat)
        BY <1>3 DEF Steps
    <2>3. PICK f : f \in Recursions(Nat, 0, LENGTH, G)
        BY <2>1, <2>2, RecursionUpTo
    <2> QED BY <2>3 DEF Recursions
<1>6. \A n \in 1..LENGTH : n - 1 \in 0..LENGTH /\ n \in 0..LENGTH /\ n # 0
    BY <1>1
<1>7. \A n \in 1..LENGTH : f[n] = f[n - 1] + digits[LENGTH + 1 - n] * Power[n - 1]
    BY <1>4, <1>5, <1>6
<1>8. Sums(f)
    <2>1. \A n \in 0..LENGTH : f[n] =
            IF n = 0 THEN 0 ELSE f[n - 1] + digits[LENGTH + 1 - n] * Power[n - 1]
        BY <1>1, <1>5, <1>7
    <2> QED BY <2>1
<1>9. ValueOf(digits) = low[LENGTH]
    BY DEF ValueOf
<1>10. Sums(low)
    <2> HIDE DEF Sums
    <2> QED BY <1>8
<1> HIDE DEF low
<1>11. low = [n \in 0..LENGTH |->
                IF n = 0 THEN 0 ELSE low[n - 1] + digits[LENGTH + 1 - n] * Power[n - 1]]
    BY <1>10
<1> HIDE DEF Sums
<1>12. low[0] = 0 /\ \A n \in 1..LENGTH : low[n] = low[n - 1] + digits[LENGTH + 1 - n] * Power[n - 1]
    <2>1. 0 \in 0..LENGTH
        BY <1>1
    <2> QED BY <1>6, <1>11, <2>1
<1> DEFINE others == {n \in 0..LENGTH : low[n] \notin Nat}
<1>13. others = {}
    <2> SUFFICES ASSUME others # {} PROVE FALSE
        OBVIOUS
    <2>1. PICK m \in others : \A n \in others : m <= n
        <3>1. others \in SUBSET Nat
            BY <1>1
        <3> HIDE DEF others
        <3> QED BY <3>1, LeastNatural
    <2>2. m # 0 /\ m \in 0..LENGTH
        BY <1>12, <2>1
    <2>3. m - 1 \in 0..LENGTH /\ ~(m <= m - 1) /\ m \in 1..LENGTH
        BY <1>1, <2>2
    <2>4. low[m - 1] \in Nat
        BY <2>1, <2>3
    <2>5. low[m] = low[m - 1] + digits[LENGTH + 1 - m] * Power[m - 1]
        BY <1>12, <2>3
    <2>6. digits[LENGTH + 1 - m] * Power[m - 1] \in Nat
        BY <1>2, <2>3
    <2> QED BY <2>1, <2>4, <2>5, <2>6
<1>14. \A n \in 0..LENGTH : low[n] \in Nat
    BY <1>13
<1>15. low = [n \in 0..LENGTH |-> low[n]]
    BY <1>11
<1> QED BY <1>9, <1>12, <1>14, <1>15

(* The digits that are drawn add up to the value, as far as they go. *)
LEMMA DigitsAddUp ==
    ASSUME NEW v \in Nat
    PROVE  ValueOf(Digits(v)) = v % Power[LENGTH]
<1> DEFINE digits == Digits(v)
<1>1. LENGTH \in Nat \ {0} /\ BASE \in Nat \ {0, 1}
    BY WidgetAssumption
<1>2. PICK low \in [0..LENGTH -> Nat] :
        /\ low[0] = 0 /\ ValueOf(digits) = low[LENGTH]
        /\ \A n \in 1..LENGTH : low[n] = low[n - 1] + digits[LENGTH + 1 - n] * Power[n - 1]
    BY DigitsAreDigits, SumsOfDigits
<1>3. ASSUME NEW n \in 1..LENGTH
      PROVE  /\ digits[LENGTH + 1 - n] = (v \div Power[n - 1]) % BASE
             /\ Power[n - 1] \in Nat \ {0} /\ Power[n] = BASE * Power[n - 1]
    <2>1. LENGTH + 1 - n \in 1..LENGTH /\ LENGTH - (LENGTH + 1 - n) = n - 1 /\ n - 1 \in 0..LENGTH
        BY <1>1
    <2> QED BY <2>1, PowersOfBase DEF Digits
<1> HIDE DEF digits
<1> DEFINE wrong == {n \in 0..LENGTH : low[n] # v % Power[n]}
<1>4. wrong = {}
    <2> SUFFICES ASSUME wrong # {} PROVE FALSE
        OBVIOUS
    <2>1. PICK m \in wrong : \A n \in wrong : m <= n
        <3>1. wrong \in SUBSET Nat
            BY <1>1
        <3> HIDE DEF wrong
        <3> QED BY <3>1, LeastNatural
    <2>2. m # 0 /\ m \in 0..LENGTH
        <3>1. v % 1 = 0
            OBVIOUS
        <3> QED BY <1>2, <2>1, <3>1, PowersOfBase
    <2>3. m - 1 \in 0..LENGTH /\ ~(m <= m - 1) /\ m \in 1..LENGTH
        BY <1>1, <2>2
    <2>4. low[m - 1] = v % Power[m - 1]
        BY <2>1, <2>3
    <2>5. low[m] = low[m - 1] + ((v \div Power[m - 1]) % BASE) * Power[m - 1]
        BY <1>2, <1>3, <2>3
    <2>6. v % (BASE * Power[m - 1]) = (v % Power[m - 1]) + ((v \div Power[m - 1]) % BASE) * Power[m - 1]
        <3>1. BASE \in Nat \ {0} /\ Power[m - 1] \in Nat \ {0}
            BY <1>1, <1>3, <2>3
        <3> QED BY <3>1, RemainderByProduct
    <2>7. Power[m] = BASE * Power[m - 1]
        BY <1>3, <2>3
    <2> QED BY <2>1, <2>4, <2>5, <2>6, <2>7
<1>5. LENGTH \in 0..LENGTH
    BY <1>1
<1> QED BY <1>2, <1>4, <1>5 DEF digits

(* Taking the sign of a word twice leaves the word. *)
LEMMA Negation ==
    ASSUME NEW v \in Nat, NEW w \in Nat \ {0}, v < w
    PROVE  (-v) % w \in 0..(w - 1) /\ (-((-v) % w)) % w = v
<1>1. CASE v = 0
    BY <1>1
<1>2. CASE v # 0
    <2>1. (-v) % w = w - v
        BY <1>2
    <2>2. (-(w - v)) % w = v
        BY <1>2
    <2> QED BY <1>2, <2>1, <2>2
<1> QED BY <1>1, <1>2

(* A word has room for what a variable holds. *)
LEMMA Widths ==
    /\ WORD \in Nat \ {0} /\ CELL \in Nat \ {0} /\ CELL <= WORD
    /\ Width \in Nat \ {0} /\ Width <= WORD /\ (kind = "signed" => Width = WORD)
BY WidgetAssumption DEF Width

(* The options of a list are numbered from 0. *)
LEMMA Options ==
    /\ Cardinality(DOMAIN OPTIONS) \in Nat \ {0}
    /\ DOMAIN OPTIONS = 0..(Cardinality(DOMAIN OPTIONS) - 1)
    /\ 0 \in DOMAIN OPTIONS
    /\ \A i \in DOMAIN OPTIONS : OPTIONS[i] \in 0..(CELL - 1)
<1>1. Cardinality(DOMAIN OPTIONS) \in Nat
    BY WidgetAssumption, FS_CardinalityType
<1> QED BY <1>1, WidgetAssumption

(* What is entered is a word. *)
LEMMA EnteredIsWord ==
    ASSUME NEW d \in FieldData
    PROVE  Entered(d) \in 0..(WORD - 1)
<1>1. d.digits \in DigitLists
    BY DEF FieldData
<1>2. ValueOf(d.digits) \in Nat
    <2>1. PICK low \in [0..LENGTH -> Nat] : ValueOf(d.digits) = low[LENGTH]
        BY <1>1, SumsOfDigits
    <2>2. LENGTH \in 0..LENGTH
        BY WidgetAssumption
    <2> QED BY <2>1, <2>2
<1> QED BY <1>2, Widths DEF Entered

(* A field that is updated and drawn shows the value. *)
LEMMA RefreshedShows ==
    ASSUME NEW d \in FieldData, ~d.editing, NEW v \in 0..(Width - 1)
    PROVE  /\ Drawn(Updated(d, v)) \in FieldData
           /\ ~Drawn(Updated(d, v)).editing
           /\ Shown(Drawn(Updated(d, v)), v)
<1>1. v \in Nat
    BY Widths
<1>2. CASE kind = "list"
    <2> DEFINE i == IF \E j \in DOMAIN OPTIONS : OPTIONS[j] = v
                    THEN CHOOSE j \in DOMAIN OPTIONS : OPTIONS[j] = v ELSE 0
    <2>1. /\ i \in DOMAIN OPTIONS
          /\ (\E j \in DOMAIN OPTIONS : OPTIONS[j] = v) => OPTIONS[i] = v
        BY Options
    <2>2. Drawn(Updated(d, v)) = [d EXCEPT !.selected_idx = i]
        BY <1>2 DEF Drawn, Updated, FieldData
    <2> HIDE DEF i
    <2> QED BY <1>2, <2>1, <2>2 DEF FieldData, Shown
<1>3. CASE kind # "list"
    <2> DEFINE w == IF kind = "signed" /\ d.sign = "-" THEN (-v) % WORD ELSE v
    <2>1. w \in Nat
        BY <1>1, Widths
    <2>2. Drawn(Updated(d, v)) = [d EXCEPT !.value = v, !.digits = Digits(w)]
        BY <1>3 DEF Drawn, Updated, FieldData
    <2> HIDE DEF w
    <2>3. Digits(w) \in DigitLists
        BY <2>1, DigitsAreDigits
    <2>4. /\ Drawn(Updated(d, v)) \in FieldData
          /\ ~Drawn(Updated(d, v)).editing
          /\ Drawn(Updated(d, v)).digits = Digits(w)
          /\ Drawn(Updated(d, v)).sign = d.sign
        BY <1>1, <2>2, <2>3 DEF FieldData
    <2> QED BY <1>3, <2>4 DEF Shown, w
<1> QED BY <1>2, <1>3

(* A field being edited is drawn as it is. *)
LEMMA EditStands ==
    ASSUME NEW d \in FieldData, d.editing, NEW v
    PROVE  Drawn(Updated(d, v)) = d
BY DEF Drawn, Updated

(* A press keeps the option, the digits and the edit. *)
LEMMA MovesKeepFields ==
    ASSUME NEW d \in FieldData, NEW nav \in {"left", "right", "up", "down"}, d.editing
    PROVE  LET e == IF kind = "list" THEN ListMoved(d, nav) ELSE NumberMoved(d, nav)
           IN  e \in FieldData /\ e.editing
<1>1. CASE kind = "list"
    <2> DEFINE n == Cardinality(DOMAIN OPTIONS)
    <2>1. n \in Nat \ {0} /\ DOMAIN OPTIONS = 0..(n - 1) /\ d.selected_idx \in 0..(n - 1)
        BY Options DEF FieldData
    <2> HIDE DEF n
    <2>2. (d.selected_idx + 1) % n \in 0..(n - 1) /\ (d.selected_idx + n - 1) % n \in 0..(n - 1)
        BY <2>1
    <2>3. PICK i \in DOMAIN OPTIONS : ListMoved(d, nav) = [d EXCEPT !.selected_idx = i]
        BY <2>1, <2>2 DEF ListMoved, n
    <2> QED BY <1>1, <2>3 DEF FieldData
<1>2. CASE kind # "list"
    <2>1. LENGTH \in Nat \ {0} /\ BASE \in Nat \ {0, 1} /\ First \in {0, 1}
        BY WidgetAssumption DEF First
    <2>2. CASE nav \in {"left", "right"}
        <3> DEFINE l == IF d.edit_idx = First THEN LENGTH ELSE d.edit_idx - 1
                   r == IF d.edit_idx = LENGTH THEN First ELSE d.edit_idx + 1
        <3>1. l \in Int /\ r \in Int
            BY <2>1 DEF FieldData
        <3>2. /\ nav = "left" => NumberMoved(d, nav) = [d EXCEPT !.edit_idx = l]
              /\ nav = "right" => NumberMoved(d, nav) = [d EXCEPT !.edit_idx = r]
            BY DEF NumberMoved, FieldData
        <3> HIDE DEF l, r
        <3> QED BY <1>2, <2>2, <3>1, <3>2 DEF FieldData
    <2>3. CASE nav \in {"up", "down"} /\ d.edit_idx = 0
        BY <1>2, <2>3 DEF NumberMoved, FieldData
    <2>4. CASE nav \in {"up", "down"} /\ d.edit_idx # 0
        <3> DEFINE i == d.edit_idx
        <3>1. d.digits \in [1..LENGTH -> 0..(BASE - 1)]
            BY DEF FieldData, DigitLists
        <3>2. \A x \in 0..(BASE - 1) :
                (x + 1) % BASE \in 0..(BASE - 1) /\ (x - 1 + BASE) % BASE \in 0..(BASE - 1)
            BY <2>1
        <3>3. /\ [d.digits EXCEPT ![i] = (@ + 1) % BASE] \in DigitLists
              /\ [d.digits EXCEPT ![i] = (@ - 1 + BASE) % BASE] \in DigitLists
            BY <3>1, <3>2 DEF DigitLists
        <3>4. \E ds \in DigitLists : NumberMoved(d, nav) = [d EXCEPT !.digits = ds]
            BY <2>4, <3>3 DEF NumberMoved, FieldData
        <3> QED BY <1>2, <3>4 DEF FieldData
    <2> QED BY <2>2, <2>3, <2>4
<1> QED BY <1>1, <1>2

(* The frame that enters the form draws what the variable is. *)
LEMMA WidgetInitInv == WidgetInit => WidgetInv
<1> SUFFICES ASSUME WidgetInit PROVE WidgetInv
    OBVIOUS
<1>1. NewData \in FieldData /\ ~NewData.editing
    <2>1. LENGTH \in Int
        BY WidgetAssumption
    <2> QED BY <2>1, DigitsAreDigits, Options DEF NewData, FieldData
<1>2. data \in FieldData /\ ~data.editing /\ Shown(data, bound)
    BY <1>1, RefreshedShows DEF WidgetInit
<1> QED BY <1>2 DEF WidgetInit, WidgetInv

(* Every event of a field keeps what it shows. *)
LEMMA WidgetStepInv == WidgetInv /\ [WidgetNext]_WidgetVars => WidgetInv'
<1> SUFFICES ASSUME WidgetInv, [WidgetNext]_WidgetVars PROVE WidgetInv'
    OBVIOUS
<1>1. ASSUME Activate PROVE WidgetInv'
    <2>1. CASE ~data.editing
        <3> DEFINE d == [data EXCEPT !.editing = TRUE]
        <3>1. d \in FieldData /\ d.editing /\ Activated(data) = d
            BY <2>1 DEF WidgetInv, FieldData, Activated
        <3>2. data' = d /\ bound' = bound /\ held' = held /\ touched' = FALSE /\ kind' = kind
            BY <1>1, <2>1, <3>1, EditStands DEF Activate
        <3>3. Shown(data, held)
            BY <2>1 DEF WidgetInv
        <3>4. Shown(d, held)
            BY <3>3 DEF Shown, WidgetInv, FieldData
        <3> HIDE DEF d
        <3> QED BY <3>1, <3>2, <3>4 DEF WidgetInv, Shown, Width
    <2>2. CASE data.editing
        <3>1. data \in FieldData /\ kind' = kind /\ touched' = FALSE
            BY <1>1 DEF WidgetInv, Activate
        <3>2. Activated(data) \in FieldData /\ ~Activated(data).editing
            <4>1. Entered(data) \in Nat
                BY <3>1, EnteredIsWord, Widths
            <4> QED BY <2>2, <3>1, <4>1 DEF Activated, FieldData
        <3>3. bound' = Committed(data) /\ Committed(data) \in 0..(Width - 1)
            <4>1. kind = "list" => OPTIONS[data.selected_idx] \in 0..(Width - 1)
                BY <3>1, Options DEF FieldData, Width
            <4>2. Entered(data) % Width \in 0..(Width - 1)
                BY <3>1, EnteredIsWord, Widths
            <4> QED BY <1>1, <2>2, <4>1, <4>2 DEF Activate, Committed
        <3>4. data' = Drawn(Updated(Activated(data), bound'))
            BY <1>1 DEF Activate
        <3>5. data' \in FieldData /\ ~data'.editing /\ Shown(data', bound')
            BY <3>2, <3>3, <3>4, RefreshedShows
        <3>6. held' = bound'
            BY <1>1, <3>5 DEF Activate
        <3> QED BY <3>1, <3>3, <3>5, <3>6 DEF WidgetInv, Shown, Width
    <2> QED BY <2>1, <2>2
<1>2. ASSUME NEW nav \in {"left", "right", "up", "down"}, FieldNavigate(nav) PROVE WidgetInv'
    <2> DEFINE e == IF kind = "list" THEN ListMoved(data, nav) ELSE NumberMoved(data, nav)
    <2>1. e \in FieldData /\ e.editing
        BY <1>2, MovesKeepFields DEF FieldNavigate, WidgetInv
    <2>2. data' = Drawn(Updated(e, bound))
        BY <1>2 DEF FieldNavigate
    <2> HIDE DEF e
    <2>3. data' = e
        BY <2>1, <2>2, EditStands
    <2> QED BY <1>2, <2>1, <2>3 DEF FieldNavigate, WidgetInv, Width
<1>3. ASSUME IdleFrame PROVE WidgetInv'
    <2>1. CASE data.editing
        <3>1. data' = data /\ held' = held /\ UNCHANGED <<kind, bound, touched>>
            BY <1>3, <2>1, EditStands DEF IdleFrame, WidgetInv
        <3> QED BY <3>1 DEF WidgetInv, Shown, Width
    <2>2. CASE ~data.editing
        <3>1. data' \in FieldData /\ ~data'.editing /\ Shown(data', bound)
            BY <1>3, <2>2, RefreshedShows DEF IdleFrame, WidgetInv
        <3>2. held' = bound /\ UNCHANGED <<kind, bound, touched>>
            BY <1>3, <2>2 DEF IdleFrame
        <3> QED BY <3>1, <3>2 DEF WidgetInv, Shown, Width
    <2> QED BY <2>1, <2>2
<1>4. ASSUME NEW v \in 0..(Width - 1), GameSets(v) PROVE WidgetInv'
    BY <1>4 DEF GameSets, WidgetInv, Shown, Width
<1>5. ASSUME UNCHANGED WidgetVars PROVE WidgetInv'
    BY <1>5 DEF WidgetVars, WidgetInv, Shown, Width
<1> QED BY <1>1, <1>2, <1>3, <1>4, <1>5 DEF WidgetNext

(* What a field shows, it commits, if it has room for it. *)
LEMMA HeldIsCommitted == WidgetInv => UntouchedEditCommitsHeld
<1> SUFFICES ASSUME WidgetInv, ~touched, Showable(held) PROVE Committed(data) = held
    BY DEF UntouchedEditCommitsHeld
<1>1. Shown(data, held) /\ held \in 0..(Width - 1) /\ held \in 0..(WORD - 1) /\ held \in Nat
    BY Widths DEF WidgetInv
<1>2. CASE kind = "list"
    BY <1>1, <1>2 DEF Shown, Showable, Committed
<1>3. CASE kind # "list"
    <2> DEFINE w == IF kind = "signed" /\ data.sign = "-" THEN (-held) % WORD ELSE held
    <2>1. w \in Nat /\ w < Power[LENGTH] /\ w \in 0..(WORD - 1)
        <3>1. CASE kind = "signed" /\ data.sign = "-"
            <4>1. (-held) % WORD \in 0..(WORD - 1)
                BY <1>1, Widths, Negation
            <4>2. (-held) % WORD < Power[LENGTH]
                BY <3>1 DEF Showable
            <4> QED BY <3>1, <4>1, <4>2, Widths
        <3>2. CASE ~(kind = "signed" /\ data.sign = "-")
            <4>1. kind = "number" \/ (kind = "signed" /\ data.sign # "-")
                BY <1>3, <3>2 DEF WidgetInv
            <4>2. held < Power[LENGTH]
                BY <4>1 DEF Showable
            <4> QED BY <1>1, <3>2, <4>2
        <3> QED BY <3>1, <3>2
    <2>2. data.digits = Digits(w)
        BY <1>1, <1>3 DEF Shown
    <2>3. ValueOf(data.digits) = w
        <3> HIDE DEF w
        <3>1. Power[LENGTH] \in Nat \ {0}
            BY PowersOfBase, WidgetAssumption
        <3>2. ValueOf(data.digits) = w % Power[LENGTH]
            BY <2>1, <2>2, DigitsAddUp
        <3> QED BY <2>1, <3>1, <3>2
    <2>4. Entered(data) = held
        <3>1. CASE kind = "signed" /\ data.sign = "-"
            <4>1. (-w) % WORD = held
                BY <1>1, <3>1, Widths, Negation
            <4> HIDE DEF w
            <4> QED BY <2>3, <3>1, <4>1 DEF Entered
        <3>2. CASE ~(kind = "signed" /\ data.sign = "-")
            <4>1. w = held /\ held % WORD = held
                BY <1>1, <3>2, Widths
            <4> HIDE DEF w
            <4> QED BY <2>3, <3>2, <4>1 DEF Entered
        <3> QED BY <3>1, <3>2
    <2> QED BY <1>1, <1>3, <2>4, Widths DEF Committed
<1> QED BY <1>2, <1>3

(* A field of a form - an option of a list, a number in any base and of    *)
(* any length, with or without a sign - commits what its variable was when *)
(* the edit began, as long as the user has changed nothing: whatever the   *)
(* game has written meanwhile, and through every update and draw.          *)
THEOREM UntouchedEditCommits == WidgetSpec => []UntouchedEditCommitsHeld
<1>1. WidgetSpec => []WidgetInv
    BY WidgetInitInv, WidgetStepInv, PTL DEF WidgetSpec
<1> QED BY <1>1, HeldIsCommitted, PTL

-----------------------------------------------------------------------------
(* The pages, and where the directions lead on them.  A set of items that  *)
(* no direction leads out of is followed item by item: what a direction    *)
(* finds ahead is in it, and so one neighbour after the other.             *)

(* Of triples of numbers one precedes all others. *)
LEMMA ForemostIs ==
    ASSUME NEW T \in SUBSET (Nat \X Nat \X Nat), T # {}
    PROVE  \E s \in T : Foremost(T) = s[3] /\ \A t \in T : Precedes(s, t)
<1> DEFINE A == {t[1] : t \in T}
<1>1. \A t \in T : t[1] \in Nat /\ t[2] \in Nat /\ t[3] \in Nat
    OBVIOUS
<1>2. PICK a \in A : \A x \in A : a <= x
    <2>1. A \in SUBSET Nat /\ A # {}
        BY <1>1
    <2> HIDE DEF A
    <2> QED BY <2>1, LeastNatural
<1> DEFINE B == {t[2] : t \in {u \in T : u[1] = a}}
<1>3. PICK b \in B : \A x \in B : b <= x
    <2>1. B \in SUBSET Nat /\ B # {}
        BY <1>1, <1>2
    <2> HIDE DEF B
    <2> QED BY <2>1, LeastNatural
<1> DEFINE C == {t[3] : t \in {u \in T : u[1] = a /\ u[2] = b}}
<1>4. PICK c \in C : \A x \in C : c <= x
    <2>1. C \in SUBSET Nat /\ C # {}
        BY <1>1, <1>3
    <2> HIDE DEF C
    <2> QED BY <2>1, LeastNatural
<1>5. PICK s \in T : s[1] = a /\ s[2] = b /\ s[3] = c
    BY <1>4
<1>6. ASSUME NEW t \in T PROVE Precedes(s, t)
    <2>1. t[1] \in A /\ (t[1] = a => t[2] \in B) /\ (t[1] = a /\ t[2] = b => t[3] \in C)
        OBVIOUS
    <2>2. a <= t[1] /\ (t[1] = a => b <= t[2]) /\ (t[1] = a /\ t[2] = b => c <= t[3])
        BY <1>2, <1>3, <1>4, <2>1
    <2> HIDE DEF A, B, C
    <2> QED BY <1>1, <1>5, <2>2 DEF Precedes
<1> HIDE DEF A, B, C
<1> DEFINE best == CHOOSE u \in T : \A t \in T : Precedes(u, t)
<1>7. best \in T /\ \A t \in T : Precedes(best, t)
    BY <1>6
<1> QED BY <1>7 DEF Foremost

(* A page of n items, each within m pixels of the first. *)
Points(n, m) == [1..n -> (0..m) \X (0..m)]

(* What is in the direction of an item. *)
Ahead(points, items, at, nav) == {i \in items : pa(points[at], points[i], nav) > 0}

(* r is the item ahead that is least off the line, and nearest of those. *)
IsAhead(points, items, at, nav, r) ==
    /\ r \in Ahead(points, items, at, nav)
    /\ \A i \in Ahead(points, items, at, nav) :
          \/ pe(points[at], points[r], nav) < pe(points[at], points[i], nav)
          \/ /\ pe(points[at], points[r], nav) = pe(points[at], points[i], nav)
             /\ \/ pa(points[at], points[r], nav) < pa(points[at], points[i], nav)
                \/ pa(points[at], points[r], nav) = pa(points[at], points[i], nav) /\ r <= i

(* Distances are numbers. *)
LEMMA Distances ==
    ASSUME NEW n \in Nat, NEW m \in Nat, NEW points \in Points(n, m), NEW nav \in Navs, NEW i \in 1..n, NEW j \in 1..n
    PROVE  pa(points[i], points[j], nav) \in (-m)..m /\ pe(points[i], points[j], nav) \in Nat
<1>1. points[i] \in (0..m) \X (0..m) /\ points[j] \in (0..m) \X (0..m)
    BY DEF Points
<1>2. points[i][1] \in 0..m /\ points[i][2] \in 0..m /\ points[j][1] \in 0..m /\ points[j][2] \in 0..m
    BY <1>1
<1>3. nav = "up" \/ nav = "down" \/ nav = "left" \/ nav = "right"
    BY DEF Navs
<1> DEFINE a == points[i][1]
           b == points[i][2]
           c == points[j][1]
           d == points[j][2]
<1>4. pa(points[i], points[j], nav) \in {a - c, c - a, b - d, d - b}
    BY <1>3 DEF pa
<1>5. pe(points[i], points[j], nav) \in {Abs(c - a), Abs(d - b)}
    BY DEF pe
<1>6. a \in 0..m /\ b \in 0..m /\ c \in 0..m /\ d \in 0..m
    BY <1>2
<1> HIDE DEF a, b, c, d
<1> QED BY <1>4, <1>5, <1>6 DEF Abs

(* A direction leads to what is ahead. *)
LEMMA NavigatesAhead ==
    ASSUME NEW n \in Nat, NEW m \in Nat, NEW points \in Points(n, m), NEW items \in SUBSET (1..n),
           NEW at \in 1..n, NEW nav \in Navs, Ahead(points, items, at, nav) # {}
    PROVE  IsAhead(points, items, at, nav, Navigated(points, items, at, nav))
<1> DEFINE P(i) == pa(points[at], points[i], nav)
           E(i) == pe(points[at], points[i], nav)
           ahead == Ahead(points, items, at, nav)
           T == {<<E(i), P(i), i>> : i \in ahead}
<1>1. \A i \in ahead : i \in 1..n /\ i \in Nat /\ P(i) \in Nat /\ P(i) > 0 /\ E(i) \in Nat
    <2> SUFFICES ASSUME NEW i \in ahead PROVE i \in 1..n /\ i \in Nat /\ P(i) \in Nat /\ P(i) > 0 /\ E(i) \in Nat
        OBVIOUS
    <2>1. i \in 1..n /\ P(i) > 0
        BY DEF Ahead
    <2>2. P(i) \in (-m)..m /\ E(i) \in Nat
        BY <2>1, Distances
    <2> HIDE DEF P, E
    <2> QED BY <2>1, <2>2
<1> HIDE DEF P, E
<1>2. PICK s \in T : Foremost(T) = s[3] /\ \A t \in T : Precedes(s, t)
    <2>1. T \in SUBSET (Nat \X Nat \X Nat) /\ T # {}
        <3> HIDE DEF ahead
        <3>1. T # {}
            <4>1. ahead # {}
                BY DEF ahead
            <4> QED BY <4>1
        <3> QED BY <1>1, <3>1
    <2> HIDE DEF T
    <2> QED BY <2>1, ForemostIs
<1>3. PICK r \in ahead : s = <<E(r), P(r), r>>
    OBVIOUS
<1>4. Navigated(points, items, at, nav) = r
    <2>1. Navigated(points, items, at, nav) = Foremost(T)
        BY DEF Navigated, Ahead, P, E
    <2> QED BY <1>2, <1>3, <2>1
<1>5. ASSUME NEW i \in ahead
      PROVE  E(r) < E(i) \/ (E(r) = E(i) /\ (P(r) < P(i) \/ (P(r) = P(i) /\ r <= i)))
    <2>1. <<E(i), P(i), i>> \in T
        OBVIOUS
    <2>2. Precedes(<<E(r), P(r), r>>, <<E(i), P(i), i>>)
        BY <1>2, <1>3, <2>1
    <2> QED BY <2>2 DEF Precedes
<1> QED BY <1>4, <1>5 DEF IsAhead, P, E

(* A direction leads to an item that can be used, or nowhere. *)
LEMMA NavigatesWithin ==
    ASSUME NEW n \in Nat, NEW m \in Nat, NEW points \in Points(n, m), NEW items \in SUBSET (1..n),
           NEW at \in 1..n, NEW nav \in Navs
    PROVE  Navigated(points, items, at, nav) \in items \cup {at}
<1> DEFINE P(i) == pa(points[at], points[i], nav)
           E(i) == pe(points[at], points[i], nav)
           behind == {i \in items : P(i) < 0}
           T == {<<P(i), E(i), i>> : i \in behind}
           U == {<<P(i) + m, E(i), i>> : i \in behind}
<1>1. CASE Ahead(points, items, at, nav) # {}
    BY <1>1, NavigatesAhead DEF IsAhead, Ahead
<1>2. CASE Ahead(points, items, at, nav) = {} /\ behind = {}
    BY <1>2 DEF Navigated, Ahead
<1>3. CASE Ahead(points, items, at, nav) = {} /\ behind # {}
    <2>1. \A i \in behind : i \in Nat /\ P(i) \in Int /\ P(i) + m \in Nat /\ E(i) \in Nat
        <3> SUFFICES ASSUME NEW i \in behind PROVE i \in Nat /\ P(i) \in Int /\ P(i) + m \in Nat /\ E(i) \in Nat
            OBVIOUS
        <3>1. P(i) \in (-m)..m /\ E(i) \in Nat /\ i \in Nat
            BY Distances
        <3> HIDE DEF P, E
        <3> QED BY <3>1
    <2>2. Navigated(points, items, at, nav) = Foremost(T)
        BY <1>3 DEF Navigated, Ahead
    <2> HIDE DEF P, E
    <2>3. PICK s \in U : \A t \in U : Precedes(s, t)
        <3>1. U \in SUBSET (Nat \X Nat \X Nat) /\ U # {}
            <4> HIDE DEF behind
            <4>1. U # {}
                BY <1>3
            <4> QED BY <2>1, <4>1
        <3> HIDE DEF U
        <3> QED BY <3>1, ForemostIs
    <2>4. PICK r \in behind : s = <<P(r) + m, E(r), r>>
        OBVIOUS
    <2>5. ASSUME NEW i \in behind PROVE Precedes(<<P(r), E(r), r>>, <<P(i), E(i), i>>)
        <3>1. <<P(i) + m, E(i), i>> \in U
            OBVIOUS
        <3>2. Precedes(<<P(r) + m, E(r), r>>, <<P(i) + m, E(i), i>>)
            BY <2>3, <2>4, <3>1
        <3> QED BY <2>1, <3>2 DEF Precedes
    <2> DEFINE u == CHOOSE u \in T : \A t \in T : Precedes(u, t)
    <2>6. u \in T
        <3>1. <<P(r), E(r), r>> \in T /\ \A t \in T : Precedes(<<P(r), E(r), r>>, t)
            BY <2>5
        <3> HIDE DEF T
        <3> QED BY <3>1
    <2> HIDE DEF u
    <2>7. PICK i \in behind : u = <<P(i), E(i), i>>
        BY <2>6
    <2>8. Foremost(T) = i
        <3>1. Foremost(T) = u[3]
            BY DEF Foremost, u
        <3>2. u[3] = i
            BY <2>7
        <3> QED BY <3>1, <3>2
    <2> QED BY <2>2, <2>8
<1> QED BY <1>1, <1>2, <1>3

(* No direction leads out of the set. *)
Closed(C, points, items) == \A i \in C, nav \in Navs : Navigated(points, items, i, nav) \in C

(* What each direction leads to from each item of a page. *)
MovesOf(n, points, items) == [i \in 1..n |-> {Navigated(points, items, i, nav) : nav \in Navs}]

(* What is reached in as many presses as there are items is all that can   *)
(* be: each press that leads on leads to one more.                         *)
LEMMA ReachedClosed ==
    ASSUME NEW n \in Nat, NEW m \in Nat, NEW points \in Points(n, m), NEW items \in SUBSET (1..n),
           NEW at \in 1..n, NEW moves,
           moves = MovesOf(n, points, items)
    PROVE  /\ at \in LedTo(moves, at) /\ LedTo(moves, at) \in SUBSET (1..n)
           /\ Closed(LedTo(moves, at), points, items)
<1> DEFINE S == SUBSET (1..n)
           step == [B \in S |-> B \cup UNION {moves[i] : i \in B}]
<1>1. DOMAIN moves = 1..n /\ Cardinality(DOMAIN moves) = n /\ IsFiniteSet(1..n)
    BY FS_Interval DEF MovesOf
<1>2. \A i \in 1..n : moves[i] \in S
    <2>1. ASSUME NEW i \in 1..n, NEW nav \in Navs PROVE Navigated(points, items, i, nav) \in 1..n
        <3>1. Navigated(points, items, i, nav) \in items \cup {i}
            BY NavigatesWithin
        <3> QED BY <3>1
    <2> QED BY <2>1 DEF MovesOf
<1>3. \A i \in 1..n, nav \in Navs : Navigated(points, items, i, nav) \in moves[i]
    BY DEF MovesOf
<1>4. step \in [S -> S] /\ \A B \in S : B \subseteq step[B]
    BY <1>2
<1>5. \A B \in S : step[B] = B => Closed(B, points, items)
    BY <1>3 DEF Closed
<1> DEFINE Taken(f, k, B) ==
               IF k = 0 THEN B
               ELSE IF k = 1 THEN B \cup UNION {moves[i] : i \in B}
               ELSE LET half == f[k \div 2][B]
                    IN  IF half = B THEN B ELSE f[k - k \div 2][half]
           Runs(f) == f = [k \in 0..n |-> [B \in S |-> Taken(f, k, B)]]
           w == CHOOSE f : Runs(f)
           reached == w[n][{at}]
<1>6. LedBy(moves) = w
    BY <1>1 DEF LedBy
<1>7. Halved(1..n, step, n, w)
    <2>1. \A f : \A k \in 0..n : \A B \in S : Taken(f, k, B) = Halves(step, f, k, B)
        BY DEF Halves
    <2> HIDE DEF Taken, step
    <2>2. ASSUME NEW f PROVE Runs(f) <=> Halved(1..n, step, n, f)
        <3>1. \A k \in 0..n : [B \in S |-> Taken(f, k, B)] = [B \in S |-> Halves(step, f, k, B)]
            BY <2>1
        <3>2. [k \in 0..n |-> [B \in S |-> Taken(f, k, B)]] = [k \in 0..n |-> [B \in S |-> Halves(step, f, k, B)]]
            BY <3>1
        <3> QED BY <3>2 DEF Halved
    <2> HIDE DEF S, Runs
    <2>3. \E f : Halved(1..n, step, n, f)
        BY <1>4, HalvesTaken DEF S
    <2>4. Runs(w)
        BY <2>2, <2>3
    <2> QED BY <2>2, <2>4
<1> HIDE DEF step, w
<1>8. LedTo(moves, at) = reached
    BY <1>1, <1>6 DEF LedTo
<1>9. /\ reached \in S /\ {at} \subseteq reached
      /\ step[reached] = reached \/ Cardinality(reached) >= Cardinality({at}) + n
    <2>1. n \in 0..n /\ {at} \in S
        OBVIOUS
    <2>2. \A k \in 0..n : \A B \in SUBSET (1..n) : GrownBy(1..n, step, k, B, w[k][B])
        <3>1. IsFiniteSet(1..n)
            BY <1>1
        <3> HIDE DEF S
        <3> QED BY <1>4, <1>7, <3>1, HalvesGrow DEF S
    <2> QED BY <2>1, <2>2 DEF GrownBy
<1>10. ~(Cardinality(reached) >= Cardinality({at}) + n)
    <2>1. Cardinality(reached) <= Cardinality(1..n) /\ Cardinality(1..n) = n
        BY <1>1, <1>9, FS_Subset
    <2>2. Cardinality(reached) \in Nat /\ Cardinality({at}) = 1
        BY <1>1, <1>9, FS_Subset, FS_CardinalityType, FS_Singleton
    <2> HIDE DEF reached
    <2> QED BY <2>1, <2>2
<1> QED BY <1>5, <1>8, <1>9, <1>10

(* r is where a direction leads from an item: what is nearest of what is   *)
(* least off the line.                                                     *)
UpTo(points, items, at, r) ==
    /\ r \in items /\ points[r][2] < points[at][2]
    /\ \A i \in items : points[i][2] < points[at][2] =>
          \/ Abs(points[r][1] - points[at][1]) < Abs(points[i][1] - points[at][1])
          \/ /\ Abs(points[r][1] - points[at][1]) = Abs(points[i][1] - points[at][1])
             /\ points[r][2] > points[i][2] \/ (points[r][2] = points[i][2] /\ r <= i)
DownTo(points, items, at, r) ==
    /\ r \in items /\ points[r][2] > points[at][2]
    /\ \A i \in items : points[i][2] > points[at][2] =>
          \/ Abs(points[r][1] - points[at][1]) < Abs(points[i][1] - points[at][1])
          \/ /\ Abs(points[r][1] - points[at][1]) = Abs(points[i][1] - points[at][1])
             /\ points[r][2] < points[i][2] \/ (points[r][2] = points[i][2] /\ r <= i)
LeftTo(points, items, at, r) ==
    /\ r \in items /\ points[r][1] < points[at][1]
    /\ \A i \in items : points[i][1] < points[at][1] =>
          \/ Abs(points[r][2] - points[at][2]) < Abs(points[i][2] - points[at][2])
          \/ /\ Abs(points[r][2] - points[at][2]) = Abs(points[i][2] - points[at][2])
             /\ points[r][1] > points[i][1] \/ (points[r][1] = points[i][1] /\ r <= i)
RightTo(points, items, at, r) ==
    /\ r \in items /\ points[r][1] > points[at][1]
    /\ \A i \in items : points[i][1] > points[at][1] =>
          \/ Abs(points[r][2] - points[at][2]) < Abs(points[i][2] - points[at][2])
          \/ /\ Abs(points[r][2] - points[at][2]) = Abs(points[i][2] - points[at][2])
             /\ points[r][1] < points[i][1] \/ (points[r][1] = points[i][1] /\ r <= i)

(* A set that no direction leads out of has what they lead to. *)
Leads(C, points, items, at) ==
    /\ (\E i \in items : points[i][2] < points[at][2]) => \E r \in C : UpTo(points, items, at, r)
    /\ (\E i \in items : points[i][2] > points[at][2]) => \E r \in C : DownTo(points, items, at, r)
    /\ (\E i \in items : points[i][1] < points[at][1]) => \E r \in C : LeftTo(points, items, at, r)
    /\ (\E i \in items : points[i][1] > points[at][1]) => \E r \in C : RightTo(points, items, at, r)

(* A set that is closed under the directions has what they lead to. *)
LEMMA ClosedLeads ==
    ASSUME NEW n \in Nat, NEW m \in Nat, NEW points \in Points(n, m), NEW items \in SUBSET (1..n),
           NEW C \in SUBSET (1..n), Closed(C, points, items), NEW at \in C
    PROVE  Leads(C, points, items, at)
<1> DEFINE To(nav) == Navigated(points, items, at, nav)
           x(i) == points[i][1]
           y(i) == points[i][2]
<1>1. /\ \A i \in items \cup {at} : x(i) \in Int /\ y(i) \in Int
      /\ \A i \in items : i \in Int
    BY DEF Points
<1>2. /\ \A i \in items : pa(points[at], points[i], "up") = y(at) - y(i) /\ pe(points[at], points[i], "up") = Abs(x(i) - x(at))
      /\ \A i \in items : pa(points[at], points[i], "down") = y(i) - y(at) /\ pe(points[at], points[i], "down") = Abs(x(i) - x(at))
      /\ \A i \in items : pa(points[at], points[i], "left") = x(at) - x(i) /\ pe(points[at], points[i], "left") = Abs(y(i) - y(at))
      /\ \A i \in items : pa(points[at], points[i], "right") = x(i) - x(at) /\ pe(points[at], points[i], "right") = Abs(y(i) - y(at))
    BY DEF pa, pe
<1>3. \A nav \in Navs : To(nav) \in C /\ (Ahead(points, items, at, nav) # {} => IsAhead(points, items, at, nav, To(nav)))
    BY NavigatesAhead DEF Closed
<1>4. "up" \in Navs /\ "down" \in Navs /\ "left" \in Navs /\ "right" \in Navs
    BY DEF Navs
<1> HIDE DEF To
<1>5. ASSUME NEW i \in items, y(i) < y(at) PROVE \E r \in C : UpTo(points, items, at, r)
    <2>1. i \in Ahead(points, items, at, "up")
        <3>1. pa(points[at], points[i], "up") = y(at) - y(i) /\ y(at) \in Int /\ y(i) \in Int
            BY <1>1, <1>2
        <3> HIDE DEF x, y
        <3>2. pa(points[at], points[i], "up") > 0
            BY <1>5, <3>1
        <3> QED BY <3>2 DEF Ahead
    <2>2. IsAhead(points, items, at, "up", To("up")) /\ To("up") \in C
        BY <1>3, <1>4, <2>1
    <2> DEFINE r == To("up")
    <2>3. r \in items /\ y(r) < y(at)
        <3> HIDE DEF r
        <3>1. r \in items /\ pa(points[at], points[r], "up") > 0
            BY <2>2 DEF IsAhead, Ahead, r
        <3>2. pa(points[at], points[r], "up") = y(at) - y(r) /\ y(at) \in Int /\ y(r) \in Int
            BY <1>1, <1>2, <3>1
        <3> HIDE DEF x, y
        <3> QED BY <3>1, <3>2
    <2>4. ASSUME NEW j \in items, y(j) < y(at)
          PROVE  \/ Abs(x(r) - x(at)) < Abs(x(j) - x(at))
                 \/ Abs(x(r) - x(at)) = Abs(x(j) - x(at)) /\ (y(r) > y(j) \/ (y(r) = y(j) /\ r <= j))
        <3>1. j \in Ahead(points, items, at, "up")
            <4>1. pa(points[at], points[j], "up") = y(at) - y(j) /\ y(at) \in Int /\ y(j) \in Int
                BY <1>1, <1>2
            <4> HIDE DEF x, y
            <4>2. pa(points[at], points[j], "up") > 0
                BY <2>4, <4>1
            <4> QED BY <4>2 DEF Ahead
        <3>2. \/ pe(points[at], points[r], "up") < pe(points[at], points[j], "up")
              \/ /\ pe(points[at], points[r], "up") = pe(points[at], points[j], "up")
                 /\ \/ pa(points[at], points[r], "up") < pa(points[at], points[j], "up")
                    \/ pa(points[at], points[r], "up") = pa(points[at], points[j], "up") /\ r <= j
            BY <2>2, <3>1 DEF IsAhead
        <3> HIDE DEF r
        <3>3. /\ pa(points[at], points[r], "up") = y(at) - y(r)
              /\ pa(points[at], points[j], "up") = y(at) - y(j)
              /\ pe(points[at], points[r], "up") = Abs(x(r) - x(at))
              /\ pe(points[at], points[j], "up") = Abs(x(j) - x(at))
            BY <1>2, <2>3
        <3>4. y(at) \in Int /\ y(r) \in Int /\ y(j) \in Int
            BY <1>1, <2>3
        <3> HIDE DEF x, y
        <3> QED BY <3>2, <3>3, <3>4
    <2> HIDE DEF r
    <2>5. UpTo(points, items, at, r)
        BY <2>3, <2>4 DEF UpTo
    <2> QED BY <2>2, <2>5 DEF r
<1>6. ASSUME NEW i \in items, y(i) > y(at) PROVE \E r \in C : DownTo(points, items, at, r)
    <2>1. i \in Ahead(points, items, at, "down")
        <3>1. pa(points[at], points[i], "down") = y(i) - y(at) /\ y(at) \in Int /\ y(i) \in Int
            BY <1>1, <1>2
        <3> HIDE DEF x, y
        <3>2. pa(points[at], points[i], "down") > 0
            BY <1>6, <3>1
        <3> QED BY <3>2 DEF Ahead
    <2>2. IsAhead(points, items, at, "down", To("down")) /\ To("down") \in C
        BY <1>3, <1>4, <2>1
    <2> DEFINE r == To("down")
    <2>3. r \in items /\ y(r) > y(at)
        <3> HIDE DEF r
        <3>1. r \in items /\ pa(points[at], points[r], "down") > 0
            BY <2>2 DEF IsAhead, Ahead, r
        <3>2. pa(points[at], points[r], "down") = y(r) - y(at) /\ y(at) \in Int /\ y(r) \in Int
            BY <1>1, <1>2, <3>1
        <3> HIDE DEF x, y
        <3> QED BY <3>1, <3>2
    <2>4. ASSUME NEW j \in items, y(j) > y(at)
          PROVE  \/ Abs(x(r) - x(at)) < Abs(x(j) - x(at))
                 \/ Abs(x(r) - x(at)) = Abs(x(j) - x(at)) /\ (y(r) < y(j) \/ (y(r) = y(j) /\ r <= j))
        <3>1. j \in Ahead(points, items, at, "down")
            <4>1. pa(points[at], points[j], "down") = y(j) - y(at) /\ y(at) \in Int /\ y(j) \in Int
                BY <1>1, <1>2
            <4> HIDE DEF x, y
            <4>2. pa(points[at], points[j], "down") > 0
                BY <2>4, <4>1
            <4> QED BY <4>2 DEF Ahead
        <3>2. \/ pe(points[at], points[r], "down") < pe(points[at], points[j], "down")
              \/ /\ pe(points[at], points[r], "down") = pe(points[at], points[j], "down")
                 /\ \/ pa(points[at], points[r], "down") < pa(points[at], points[j], "down")
                    \/ pa(points[at], points[r], "down") = pa(points[at], points[j], "down") /\ r <= j
            BY <2>2, <3>1 DEF IsAhead
        <3> HIDE DEF r
        <3>3. /\ pa(points[at], points[r], "down") = y(r) - y(at)
              /\ pa(points[at], points[j], "down") = y(j) - y(at)
              /\ pe(points[at], points[r], "down") = Abs(x(r) - x(at))
              /\ pe(points[at], points[j], "down") = Abs(x(j) - x(at))
            BY <1>2, <2>3
        <3>4. y(at) \in Int /\ y(r) \in Int /\ y(j) \in Int
            BY <1>1, <2>3
        <3> HIDE DEF x, y
        <3> QED BY <3>2, <3>3, <3>4
    <2> HIDE DEF r
    <2>5. DownTo(points, items, at, r)
        BY <2>3, <2>4 DEF DownTo
    <2> QED BY <2>2, <2>5 DEF r
<1>7. ASSUME NEW i \in items, x(i) < x(at) PROVE \E r \in C : LeftTo(points, items, at, r)
    <2>1. i \in Ahead(points, items, at, "left")
        <3>1. pa(points[at], points[i], "left") = x(at) - x(i) /\ x(at) \in Int /\ x(i) \in Int
            BY <1>1, <1>2
        <3> HIDE DEF x, y
        <3>2. pa(points[at], points[i], "left") > 0
            BY <1>7, <3>1
        <3> QED BY <3>2 DEF Ahead
    <2>2. IsAhead(points, items, at, "left", To("left")) /\ To("left") \in C
        BY <1>3, <1>4, <2>1
    <2> DEFINE r == To("left")
    <2>3. r \in items /\ x(r) < x(at)
        <3> HIDE DEF r
        <3>1. r \in items /\ pa(points[at], points[r], "left") > 0
            BY <2>2 DEF IsAhead, Ahead, r
        <3>2. pa(points[at], points[r], "left") = x(at) - x(r) /\ x(at) \in Int /\ x(r) \in Int
            BY <1>1, <1>2, <3>1
        <3> HIDE DEF x, y
        <3> QED BY <3>1, <3>2
    <2>4. ASSUME NEW j \in items, x(j) < x(at)
          PROVE  \/ Abs(y(r) - y(at)) < Abs(y(j) - y(at))
                 \/ Abs(y(r) - y(at)) = Abs(y(j) - y(at)) /\ (x(r) > x(j) \/ (x(r) = x(j) /\ r <= j))
        <3>1. j \in Ahead(points, items, at, "left")
            <4>1. pa(points[at], points[j], "left") = x(at) - x(j) /\ x(at) \in Int /\ x(j) \in Int
                BY <1>1, <1>2
            <4> HIDE DEF x, y
            <4>2. pa(points[at], points[j], "left") > 0
                BY <2>4, <4>1
            <4> QED BY <4>2 DEF Ahead
        <3>2. \/ pe(points[at], points[r], "left") < pe(points[at], points[j], "left")
              \/ /\ pe(points[at], points[r], "left") = pe(points[at], points[j], "left")
                 /\ \/ pa(points[at], points[r], "left") < pa(points[at], points[j], "left")
                    \/ pa(points[at], points[r], "left") = pa(points[at], points[j], "left") /\ r <= j
            BY <2>2, <3>1 DEF IsAhead
        <3> HIDE DEF r
        <3>3. /\ pa(points[at], points[r], "left") = x(at) - x(r)
              /\ pa(points[at], points[j], "left") = x(at) - x(j)
              /\ pe(points[at], points[r], "left") = Abs(y(r) - y(at))
              /\ pe(points[at], points[j], "left") = Abs(y(j) - y(at))
            BY <1>2, <2>3
        <3>4. x(at) \in Int /\ x(r) \in Int /\ x(j) \in Int
            BY <1>1, <2>3
        <3> HIDE DEF x, y
        <3> QED BY <3>2, <3>3, <3>4
    <2> HIDE DEF r
    <2>5. LeftTo(points, items, at, r)
        BY <2>3, <2>4 DEF LeftTo
    <2> QED BY <2>2, <2>5 DEF r
<1>8. ASSUME NEW i \in items, x(i) > x(at) PROVE \E r \in C : RightTo(points, items, at, r)
    <2>1. i \in Ahead(points, items, at, "right")
        <3>1. pa(points[at], points[i], "right") = x(i) - x(at) /\ x(at) \in Int /\ x(i) \in Int
            BY <1>1, <1>2
        <3> HIDE DEF x, y
        <3>2. pa(points[at], points[i], "right") > 0
            BY <1>8, <3>1
        <3> QED BY <3>2 DEF Ahead
    <2>2. IsAhead(points, items, at, "right", To("right")) /\ To("right") \in C
        BY <1>3, <1>4, <2>1
    <2> DEFINE r == To("right")
    <2>3. r \in items /\ x(r) > x(at)
        <3> HIDE DEF r
        <3>1. r \in items /\ pa(points[at], points[r], "right") > 0
            BY <2>2 DEF IsAhead, Ahead, r
        <3>2. pa(points[at], points[r], "right") = x(r) - x(at) /\ x(at) \in Int /\ x(r) \in Int
            BY <1>1, <1>2, <3>1
        <3> HIDE DEF x, y
        <3> QED BY <3>1, <3>2
    <2>4. ASSUME NEW j \in items, x(j) > x(at)
          PROVE  \/ Abs(y(r) - y(at)) < Abs(y(j) - y(at))
                 \/ Abs(y(r) - y(at)) = Abs(y(j) - y(at)) /\ (x(r) < x(j) \/ (x(r) = x(j) /\ r <= j))
        <3>1. j \in Ahead(points, items, at, "right")
            <4>1. pa(points[at], points[j], "right") = x(j) - x(at) /\ x(at) \in Int /\ x(j) \in Int
                BY <1>1, <1>2
            <4> HIDE DEF x, y
            <4>2. pa(points[at], points[j], "right") > 0
                BY <2>4, <4>1
            <4> QED BY <4>2 DEF Ahead
        <3>2. \/ pe(points[at], points[r], "right") < pe(points[at], points[j], "right")
              \/ /\ pe(points[at], points[r], "right") = pe(points[at], points[j], "right")
                 /\ \/ pa(points[at], points[r], "right") < pa(points[at], points[j], "right")
                    \/ pa(points[at], points[r], "right") = pa(points[at], points[j], "right") /\ r <= j
            BY <2>2, <3>1 DEF IsAhead
        <3> HIDE DEF r
        <3>3. /\ pa(points[at], points[r], "right") = x(r) - x(at)
              /\ pa(points[at], points[j], "right") = x(j) - x(at)
              /\ pe(points[at], points[r], "right") = Abs(y(r) - y(at))
              /\ pe(points[at], points[j], "right") = Abs(y(j) - y(at))
            BY <1>2, <2>3
        <3>4. x(at) \in Int /\ x(r) \in Int /\ x(j) \in Int
            BY <1>1, <2>3
        <3> HIDE DEF x, y
        <3> QED BY <3>2, <3>3, <3>4
    <2> HIDE DEF r
    <2>5. RightTo(points, items, at, r)
        BY <2>3, <2>4 DEF RightTo
    <2> QED BY <2>2, <2>5 DEF r
<1> QED BY <1>5, <1>6, <1>7, <1>8 DEF Leads

(* A page of which all that can be reached from anywhere is all of it. *)
ReachesAll(n, points, items) ==
    \A C \in SUBSET (1..n) : C # {} /\ Closed(C, points, items) => items \subseteq C

(* A category is one column. *)
CategoryItems == 1..(CategorySize + 1)

(* Its items are nine pixels apart, *)
LEMMA CategoryPoints ==
    /\ category_menu \in Points(CategorySize + 1, 9 * CategorySize)
    /\ \A k \in CategoryItems : category_menu[k][1] = 0 /\ category_menu[k][2] = 9 * (k - 1)
<1> DEFINE n == CategorySize + 1
           cells == [k \in 1..n |-> <<0, k - 1, 0, 0>>]
<1>1. n \in Nat /\ CategorySize \in Nat
    BY PagesAssumption
<1>2. Column(n) = cells
    BY DEF Column, Each, At
<1>3. category_menu = [k \in 1..n |-> <<0, (k - 1) * 9>>]
    <2>1. category_menu = [k \in DOMAIN cells |-> <<cells[k][1] * 8 + cells[k][3], cells[k][2] * 9 + cells[k][4]>>]
        BY <1>2 DEF category_menu, Placed, menu_item_x, menu_item_y
    <2>2. DOMAIN cells = 1..n
        OBVIOUS
    <2>3. \A k \in 1..n : <<cells[k][1] * 8 + cells[k][3], cells[k][2] * 9 + cells[k][4]>> = <<0, (k - 1) * 9>>
        BY <1>1
    <2> QED BY <2>1, <2>2, <2>3
<1>4. \A k \in 1..n : (k - 1) * 9 = 9 * (k - 1) /\ (k - 1) * 9 \in 0..(9 * CategorySize)
    BY <1>1
<1>5. 0 \in 0..(9 * CategorySize)
    BY <1>1
<1> QED BY <1>3, <1>4, <1>5 DEF Points, CategoryItems

(* and each has the next below it and the one before above it. *)
LEMMA CategoryReached == ReachesAll(CategorySize + 1, category_menu, CategoryItems)
<1> DEFINE n == CategorySize + 1
           P == category_menu
           U == CategoryItems
<1>1. n \in Nat /\ CategorySize \in Nat /\ 9 * CategorySize \in Nat /\ U = 1..n
    BY PagesAssumption DEF CategoryItems
<1>2. P \in Points(n, 9 * CategorySize) /\ \A k \in 1..n : P[k][1] = 0 /\ P[k][2] = 9 * (k - 1)
    BY CategoryPoints DEF CategoryItems
<1> SUFFICES ASSUME NEW C \in SUBSET (1..n), C # {}, Closed(C, P, U) PROVE U \subseteq C
    BY DEF ReachesAll
<1> HIDE DEF P, U, n
<1>3. \A at \in C : Leads(C, P, U, at)
    BY <1>1, <1>2, ClosedLeads
<1>4. ASSUME NEW k \in C, k + 1 \in 1..n PROVE k + 1 \in C
    <2>1. k \in 1..n /\ k \in Int /\ P[k + 1][2] > P[k][2]
        BY <1>1, <1>2, <1>4
    <2>2. PICK r \in C : DownTo(P, U, k, r)
        BY <1>1, <1>3, <1>4, <2>1 DEF Leads
    <2>3. r \in 1..n /\ P[r][2] > P[k][2] /\ (P[r][2] < P[k + 1][2] \/ (P[r][2] = P[k + 1][2] /\ r <= k + 1))
        BY <1>1, <1>2, <1>4, <2>1, <2>2 DEF DownTo, Abs
    <2>4. r = k + 1
        BY <1>1, <1>2, <1>4, <2>1, <2>3
    <2> QED BY <2>4
<1>5. ASSUME NEW k \in C, k - 1 \in 1..n PROVE k - 1 \in C
    <2>1. k \in 1..n /\ k \in Int /\ P[k - 1][2] < P[k][2]
        BY <1>1, <1>2, <1>5
    <2>2. PICK r \in C : UpTo(P, U, k, r)
        BY <1>1, <1>3, <1>5, <2>1 DEF Leads
    <2>3. r \in 1..n /\ P[r][2] < P[k][2] /\ (P[r][2] > P[k - 1][2] \/ (P[r][2] = P[k - 1][2] /\ r <= k - 1))
        BY <1>1, <1>2, <1>5, <2>1, <2>2, SMTT(20) DEF UpTo, Abs
    <2>4. r = k - 1
        BY <1>1, <1>2, <1>5, <2>1, <2>3
    <2> QED BY <2>4
<1>6. 1 \in C
    <2>1. PICK c \in C : \A j \in C : c <= j
        <3>1. C \in SUBSET Nat
            BY <1>1
        <3> QED BY <3>1, LeastNatural
    <2>2. c - 1 \notin C
        BY <1>1, <2>1
    <2>3. c \in 1..n /\ (c # 1 => c - 1 \in 1..n)
        BY <1>1
    <2> QED BY <1>5, <2>2, <2>3
<1>7. \A j \in (1 + 1)..n : j - 1 \in C => j \in C
    <2> SUFFICES ASSUME NEW j \in (1 + 1)..n, j - 1 \in C PROVE j \in C
        OBVIOUS
    <2>1. (j - 1) + 1 = j /\ j \in 1..n
        BY <1>1
    <2> QED BY <1>4, <2>1
<1> QED BY <1>1, <1>6, <1>7, EveryPlace

(* The k-th of the six items of a watch's row that take the cursor. *)
ItemOf(i, k) == 2 + 6 * (i - 1) + k
WatchItems == 1..(2 + 6 * WatchRows)
UsableOfWatches(fixed) == WatchItems \ {ItemOf(i, 3) : i \in fixed}

(* Every item is the return button, the add button or a row's. *)
LEMMA ItemOfRow ==
    /\ \A i \in 1..WatchRows, k \in 1..6 : ItemOf(i, k) \in 3..(2 + 6 * WatchRows)
    /\ \A j \in 3..(2 + 6 * WatchRows) : \E i \in 1..WatchRows, k \in 1..6 : j = ItemOf(i, k)
<1>1. WatchRows \in Nat
    BY PagesAssumption
<1>2. ASSUME NEW j \in 3..(2 + 6 * WatchRows) PROVE \E i \in 1..WatchRows, k \in 1..6 : j = ItemOf(i, k)
    <2> DEFINE i == ((j - 3) \div 6) + 1
               k == ((j - 3) % 6) + 1
    <2>1. i \in 1..WatchRows /\ k \in 1..6 /\ j = ItemOf(i, k)
        BY <1>1 DEF ItemOf
    <2> QED BY <2>1
<1> QED BY <1>1, <1>2 DEF ItemOf

(* Where they are across the row. *)
RowX == <<0, 8, 16, 32, 112, 32>>

(* Where the items are. *)
LEMMA WatchPoints ==
    /\ watches_menu \in Points(2 + 6 * WatchRows, 16 * WatchRows + 112)
    /\ watches_menu[1][1] = 0 /\ watches_menu[1][2] = 0
    /\ watches_menu[2][1] = 0 /\ watches_menu[2][2] = 16 * WatchRows + 8
    /\ \A i \in 1..WatchRows, k \in 1..6 :
          /\ watches_menu[ItemOf(i, k)][1] = RowX[k]
          /\ watches_menu[ItemOf(i, k)][2] = IF k = 6 THEN 16 * i ELSE 16 * i - 8
<1> DEFINE W == WatchRows
           Y(c) == 1 + 2 * (c \div 6)
           Cell(c) == <<At(0, Y(c)), At(1, Y(c)), At(2, Y(c)), At(4, Y(c)), At(14, Y(c)), At(4, Y(c) + 1)>>[(c % 6) + 1]
           rest == [k \in 1..(6 * W) |-> Cell(k - 1)]
           first == <<At(0, 0), At(0, 1 + 2 * W)>>
           cells == first \o rest
           Cells == Int \X Int \X Int \X Int
<1>1. W \in Nat /\ 6 * W \in Nat
    BY PagesAssumption
<1>2. watches_menu = [k \in DOMAIN cells |-> <<cells[k][1] * 8 + cells[k][3], cells[k][2] * 8 + cells[k][4]>>]
    BY DEF watches_menu, Placed, menu_item_x, menu_item_y, Each
<1>3. \A c \in 0..(6 * W - 1) : c % 6 \in 0..5 /\ c \div 6 \in 0..(W - 1) /\ Y(c) \in Nat
    BY <1>1
<1>4. ASSUME NEW i \in 1..W, NEW k \in 1..6
      PROVE  /\ ItemOf(i, k) - 3 \in 0..(6 * W - 1) /\ (ItemOf(i, k) - 3) % 6 = k - 1
             /\ (ItemOf(i, k) - 3) \div 6 = i - 1 /\ Y(ItemOf(i, k) - 3) = 2 * i - 1
    <2> DEFINE c == 6 * (i - 1) + (k - 1)
    <2>1. ItemOf(i, k) - 3 = c
        BY <1>1 DEF ItemOf
    <2>2. c % 6 = k - 1 /\ c \div 6 = i - 1
        BY <1>1
    <2>3. c \in 0..(6 * W - 1)
        BY <1>1
    <2>4. 1 + 2 * (i - 1) = 2 * i - 1
        BY <1>1
    <2> HIDE DEF c
    <2> QED BY <2>1, <2>2, <2>3, <2>4
<1>5. \A c \in 0..(6 * W - 1) : Cell(c) \in Cells
    <2> SUFFICES ASSUME NEW c \in 0..(6 * W - 1) PROVE Cell(c) \in Cells
        OBVIOUS
    <2> DEFINE y == Y(c)
    <2>1. y \in Nat /\ (c % 6) + 1 \in 1..6
        BY <1>3
    <2> HIDE DEF y
    <2>2. \A d \in 1..6 : <<At(0, y), At(1, y), At(2, y), At(4, y), At(14, y), At(4, y + 1)>>[d] \in Cells
        BY <2>1 DEF At
    <2> QED BY <2>1, <2>2 DEF y
<1>6. ASSUME NEW i \in 1..W, NEW k \in 1..6
      PROVE  Cell(ItemOf(i, k) - 3) =
                IF k = 6 THEN <<4, 2 * i, 0, 0>> ELSE <<CASE k = 1 -> 0 [] k = 2 -> 1 [] k = 3 -> 2 [] k = 4 -> 4 [] k = 5 -> 14, 2 * i - 1, 0, 0>>
    <2> DEFINE c == ItemOf(i, k) - 3
               y == Y(c)
    <2>1. y = 2 * i - 1 /\ (c % 6) + 1 = k /\ y + 1 = 2 * i
        <3>1. c % 6 = k - 1 /\ Y(c) = 2 * i - 1
            BY <1>4
        <3> HIDE DEF c, Y
        <3> QED BY <1>1, <3>1
    <2> HIDE DEF y, c
    <2>2. Cell(c) = <<At(0, y), At(1, y), At(2, y), At(4, y), At(14, y), At(4, y + 1)>>[k]
        BY <2>1 DEF y
    <2>3. Cell(c) = IF k = 6 THEN <<4, y + 1, 0, 0>>
                    ELSE <<CASE k = 1 -> 0 [] k = 2 -> 1 [] k = 3 -> 2 [] k = 4 -> 4 [] k = 5 -> 14, y, 0, 0>>
        BY <2>2, SMTT(20) DEF At
    <2> QED BY <2>1, <2>3 DEF c
<1> HIDE DEF Cell
<1>7. rest \in Seq(Cells) /\ Len(rest) = 6 * W
    <2>1. rest \in [1..(6 * W) -> Cells]
        BY <1>1, <1>5
    <2> HIDE DEF rest, Cells
    <2> QED BY <1>1, <2>1, FunctionIsSequence
<1>8. first \in Seq(Cells) /\ Len(first) = 2
    BY <1>1 DEF At
<1>9. /\ cells \in Seq(Cells) /\ Len(cells) = 2 + 6 * W
      /\ \A j \in 1..(2 + 6 * W) : cells[j] = IF j <= 2 THEN first[j] ELSE rest[j - 2]
    <2> HIDE DEF rest, first, Cells, W
    <2>1. /\ first \o rest \in Seq(Cells) /\ Len(first \o rest) = Len(first) + Len(rest)
          /\ \A j \in 1..(Len(first) + Len(rest)) : (first \o rest)[j] =
                IF j <= Len(first) THEN first[j] ELSE rest[j - Len(first)]
        BY <1>7, <1>8, ConcatProperties
    <2> QED BY <1>7, <1>8, <2>1
<1>10. DOMAIN cells = 1..(2 + 6 * W)
    <2> HIDE DEF cells, Cells
    <2> QED BY <1>9, LenProperties
<1>11. cells[1] = <<0, 0, 0, 0>> /\ cells[2] = <<0, 1 + 2 * W, 0, 0>>
    <2>1. first[1] = <<0, 0, 0, 0>> /\ first[2] = <<0, 1 + 2 * W, 0, 0>>
        BY DEF At
    <2>2. 1 \in 1..(2 + 6 * W) /\ 2 \in 1..(2 + 6 * W)
        BY <1>1
    <2> HIDE DEF first, rest, cells
    <2> QED BY <1>9, <2>1, <2>2, SMTT(20)
<1>12. ASSUME NEW i \in 1..W, NEW k \in 1..6
       PROVE  ItemOf(i, k) \in 3..(2 + 6 * W) /\ cells[ItemOf(i, k)] = Cell(ItemOf(i, k) - 3)
    <2>1. ItemOf(i, k) \in 3..(2 + 6 * W) /\ ItemOf(i, k) - 2 \in 1..(6 * W) /\ (ItemOf(i, k) - 2) - 1 = ItemOf(i, k) - 3
        BY <1>1 DEF ItemOf
    <2>2. cells[ItemOf(i, k)] = rest[ItemOf(i, k) - 2]
        <3> DEFINE j == ItemOf(i, k)
        <3>1. j \in 1..(2 + 6 * W) /\ ~(j <= 2)
            BY <1>1, <2>1
        <3> HIDE DEF first, rest, cells, j
        <3>2. cells[j] = rest[j - 2]
            BY <1>9, <3>1
        <3> QED BY <3>2 DEF j
    <2> QED BY <2>1, <2>2
<1> HIDE DEF cells
<1>13. watches_menu = [j \in 1..(2 + 6 * W) |-> <<cells[j][1] * 8 + cells[j][3], cells[j][2] * 8 + cells[j][4]>>]
    BY <1>2, <1>10
<1>14. \A j \in 1..(2 + 6 * W) : watches_menu[j][1] = cells[j][1] * 8 + cells[j][3] /\ watches_menu[j][2] = cells[j][2] * 8 + cells[j][4]
    BY <1>13
<1>15. 1 \in 1..(2 + 6 * W) /\ 2 \in 1..(2 + 6 * W)
    BY <1>1
<1>16. /\ watches_menu[1][1] = 0 /\ watches_menu[1][2] = 0
       /\ watches_menu[2][1] = 0 /\ watches_menu[2][2] = 16 * W + 8
    BY <1>1, <1>11, <1>14, <1>15
<1>17. ASSUME NEW i \in 1..W, NEW k \in 1..6
       PROVE  /\ watches_menu[ItemOf(i, k)][1] = RowX[k]
              /\ watches_menu[ItemOf(i, k)][2] = IF k = 6 THEN 16 * i ELSE 16 * i - 8
    <2> DEFINE j == ItemOf(i, k)
    <2>1. j \in 1..(2 + 6 * W) /\ cells[j] = Cell(j - 3)
        BY <1>1, <1>12
    <2> HIDE DEF j
    <2>2. watches_menu[j][1] = cells[j][1] * 8 + cells[j][3] /\ watches_menu[j][2] = cells[j][2] * 8 + cells[j][4]
        BY <1>14, <2>1
    <2>3. Cell(j - 3) = IF k = 6 THEN <<4, 2 * i, 0, 0>>
                        ELSE <<CASE k = 1 -> 0 [] k = 2 -> 1 [] k = 3 -> 2 [] k = 4 -> 4 [] k = 5 -> 14, 2 * i - 1, 0, 0>>
        BY <1>6 DEF j
    <2>4. RowX[1] = 0 /\ RowX[2] = 8 /\ RowX[3] = 16 /\ RowX[4] = 32 /\ RowX[5] = 112 /\ RowX[6] = 32
        BY DEF RowX
    <2>5. k = 1 \/ k = 2 \/ k = 3 \/ k = 4 \/ k = 5 \/ k = 6
        OBVIOUS
    <2> QED BY <1>1, <2>1, <2>2, <2>3, <2>4, <2>5 DEF j
<1>18. ASSUME NEW j \in 1..(2 + 6 * W)
       PROVE  watches_menu[j][1] \in 0..(16 * W + 112) /\ watches_menu[j][2] \in 0..(16 * W + 112)
    <2>1. CASE j = 1 \/ j = 2
        BY <1>1, <1>16, <2>1
    <2>2. CASE j \in 3..(2 + 6 * W)
        <3>1. PICK i \in 1..W, k \in 1..6 : j = ItemOf(i, k)
            BY <2>2, ItemOfRow
        <3>2. RowX[k] \in {0, 8, 16, 32, 112}
            BY DEF RowX
        <3>3. 16 * i \in 0..(16 * W) /\ 16 * i - 8 \in 0..(16 * W)
            BY <1>1
        <3> QED BY <1>1, <1>17, <3>1, <3>2, <3>3
    <2> QED BY <1>1, <2>1, <2>2
<1>19. watches_menu \in Points(2 + 6 * W, 16 * W + 112)
    <2>1. \A j \in 1..(2 + 6 * W) : watches_menu[j] = <<watches_menu[j][1], watches_menu[j][2]>>
        BY <1>13
    <2>2. \A j \in 1..(2 + 6 * W) : watches_menu[j] \in (0..(16 * W + 112)) \X (0..(16 * W + 112))
        <3> SUFFICES ASSUME NEW j \in 1..(2 + 6 * W)
                     PROVE  watches_menu[j] \in (0..(16 * W + 112)) \X (0..(16 * W + 112))
            OBVIOUS
        <3> DEFINE a == watches_menu[j][1]
                   b == watches_menu[j][2]
                   m == 0..(16 * W + 112)
        <3>1. a \in m /\ b \in m /\ watches_menu[j] = <<a, b>>
            BY <1>18, <2>1
        <3> HIDE DEF a, b, m
        <3>2. watches_menu[j] \in m \X m
            BY <3>1
        <3> QED BY <3>2 DEF m
    <2>3. watches_menu = [j \in 1..(2 + 6 * W) |-> watches_menu[j]]
        BY <1>13
    <2> QED BY <2>2, <2>3 DEF Points
<1> QED BY <1>16, <1>17, <1>19

(* A page of watches as the directions see it. *)
IsWatchPage(P, U, C) ==
    /\ P[1][1] = 0 /\ P[1][2] = 0 /\ P[2][1] = 0 /\ P[2][2] = 16 * WatchRows + 8
    /\ \A i \in 1..WatchRows, k \in 1..6 :
          P[ItemOf(i, k)][1] = RowX[k] /\ P[ItemOf(i, k)][2] = IF k = 6 THEN 16 * i ELSE 16 * i - 8
    /\ U \subseteq WatchItems /\ C \subseteq WatchItems
    /\ 1 \in U /\ 2 \in U /\ \A i \in 1..WatchRows, k \in 1..6 : k # 3 => ItemOf(i, k) \in U
    /\ \A at \in C : Leads(C, P, U, at)

(* What there is in a row, and in the columns of the buttons that delete a *)
(* watch and of its value.                                                 *)
LEMMA WatchLines ==
    ASSUME NEW P, NEW U, NEW C, IsWatchPage(P, U, C), NEW j \in WatchItems
    PROVE  /\ \A i \in 1..WatchRows : P[j][2] = 16 * i - 8 => \E k \in 1..5 : j = ItemOf(i, k)
           /\ P[j][1] = 0 => j = 1 \/ j = 2 \/ \E i \in 1..WatchRows : j = ItemOf(i, 1)
           /\ P[j][1] = 32 => \E i \in 1..WatchRows : j = ItemOf(i, 4) \/ j = ItemOf(i, 6)
           /\ P[j][1] \in Int /\ P[j][2] \in Int /\ j \in Nat
<1>1. WatchRows \in Nat
    BY PagesAssumption
<1>2. RowX[1] = 0 /\ RowX[2] = 8 /\ RowX[3] = 16 /\ RowX[4] = 32 /\ RowX[5] = 112 /\ RowX[6] = 32
    BY DEF RowX
<1>3. P[1][1] = 0 /\ P[1][2] = 0 /\ P[2][1] = 0 /\ P[2][2] = 16 * WatchRows + 8 /\ j \in Nat
    BY <1>1 DEF IsWatchPage, WatchItems
<1>4. CASE j = 1 \/ j = 2
    BY <1>1, <1>3, <1>4
<1>5. CASE j \in 3..(2 + 6 * WatchRows)
    <2>1. PICK h \in 1..WatchRows, l \in 1..6 : j = ItemOf(h, l)
        BY <1>5, ItemOfRow
    <2>2. P[j][1] = RowX[l] /\ P[j][2] = (IF l = 6 THEN 16 * h ELSE 16 * h - 8)
        BY <2>1 DEF IsWatchPage
    <2>3. l = 1 \/ l = 2 \/ l = 3 \/ l = 4 \/ l = 5 \/ l = 6
        OBVIOUS
    <2>4. \A i \in 1..WatchRows : P[j][2] = 16 * i - 8 => i = h /\ l \in 1..5
        BY <1>1, <2>2
    <2> DEFINE x == P[j][1]
    <2>x. /\ l = 1 => x = 0
          /\ l = 2 => x = 8
          /\ l = 3 => x = 16
          /\ l = 4 => x = 32
          /\ l = 5 => x = 112
          /\ l = 6 => x = 32
        BY <1>2, <2>2
    <2> HIDE DEF x
    <2>5. x = 0 => l = 1
        BY <2>3, <2>x
    <2>6. x = 32 => l = 4 \/ l = 6
        BY <2>3, <2>x
    <2>7. P[j][1] \in Int /\ P[j][2] \in Int
        BY <1>1, <1>2, <2>2, <2>3
    <2> QED BY <1>3, <2>1, <2>3, <2>4, <2>5, <2>6, <2>7 DEF x
<1>6. j = 1 \/ j = 2 \/ j \in 3..(2 + 6 * WatchRows)
    BY <1>1 DEF WatchItems
<1> QED BY <1>4, <1>5, <1>6

(* From every item of a row the directions lead to its first,              *)
LEMMA RowToFirst ==
    ASSUME NEW P, NEW U, NEW C, IsWatchPage(P, U, C), NEW i \in 1..WatchRows, NEW k \in 1..6, ItemOf(i, k) \in C
    PROVE  ItemOf(i, 1) \in C
<1> DEFINE I(l) == ItemOf(i, l)
<1>1. WatchRows \in Nat /\ i \in Nat
    BY PagesAssumption
<1>2. RowX[1] = 0 /\ RowX[2] = 8 /\ RowX[3] = 16 /\ RowX[4] = 32 /\ RowX[5] = 112 /\ RowX[6] = 32
    BY DEF RowX
<1>3. /\ P[I(1)][1] = 0 /\ P[I(2)][1] = 8 /\ P[I(3)][1] = 16 /\ P[I(4)][1] = 32 /\ P[I(5)][1] = 112 /\ P[I(6)][1] = 32
      /\ P[I(1)][2] = 16 * i - 8 /\ P[I(2)][2] = 16 * i - 8 /\ P[I(3)][2] = 16 * i - 8
      /\ P[I(4)][2] = 16 * i - 8 /\ P[I(5)][2] = 16 * i - 8 /\ P[I(6)][2] = 16 * i
    BY <1>2 DEF IsWatchPage
<1>4. I(1) \in U /\ I(2) \in U /\ I(4) \in U
    BY DEF IsWatchPage
<1>5. ASSUME NEW l \in 2..5, I(l) \in C PROVE \E m \in 1..(l - 1) : I(m) \in C
    <2>1. Leads(C, P, U, I(l))
        BY <1>5 DEF IsWatchPage
    <2>2. P[I(l)][1] > 0 /\ P[I(l)][2] = 16 * i - 8
        <3>1. l = 2 \/ l = 3 \/ l = 4 \/ l = 5
            OBVIOUS
        <3> QED BY <1>3, <3>1
    <2>3. PICK r \in C : LeftTo(P, U, I(l), r)
        <3>1. P[I(1)][1] < P[I(l)][1]
            BY <1>3, <2>2
        <3> QED BY <1>4, <2>1, <3>1 DEF Leads
    <2>4. r \in WatchItems
        BY DEF IsWatchPage
    <2> DEFINE x == P[r][1]
               y == P[r][2]
    <2>5. x \in Int /\ y \in Int
        BY <2>4, WatchLines
    <2>6. y = 16 * i - 8 /\ x < P[I(l)][1]
        <3>1. P[I(1)][1] < P[I(l)][1]
            BY <1>3, <2>2
        <3>2. x < P[I(l)][1] /\ Abs(y - P[I(l)][2]) <= Abs(P[I(1)][2] - P[I(l)][2])
            <4>1. \/ Abs(y - P[I(l)][2]) < Abs(P[I(1)][2] - P[I(l)][2])
                  \/ Abs(y - P[I(l)][2]) = Abs(P[I(1)][2] - P[I(l)][2])
                BY <1>4, <2>3, <3>1 DEF LeftTo
            <4>2. x < P[I(l)][1]
                BY <2>3 DEF LeftTo
            <4> HIDE DEF x, y
            <4> QED BY <1>1, <1>3, <2>2, <2>5, <4>1, <4>2 DEF Abs
        <3> HIDE DEF x, y
        <3> QED BY <1>1, <1>3, <2>2, <2>5, <3>2 DEF Abs
    <2>7. PICK m \in 1..5 : r = I(m)
        BY <2>4, <2>6, WatchLines
    <2>8. m < l
        <3>1. P[I(m)][1] < P[I(l)][1]
            BY <2>6, <2>7
        <3>2. m = 1 \/ m = 2 \/ m = 3 \/ m = 4 \/ m = 5
            OBVIOUS
        <3>3. l = 2 \/ l = 3 \/ l = 4 \/ l = 5
            OBVIOUS
        <3> HIDE DEF I
        <3> QED BY <1>3, <3>1, <3>2, <3>3
    <2> QED BY <2>7, <2>8
<1>6. I(6) \in C => I(4) \in C
    <2> SUFFICES ASSUME I(6) \in C PROVE I(4) \in C
        OBVIOUS
    <2>1. Leads(C, P, U, I(6)) /\ P[I(4)][2] < P[I(6)][2]
        BY <1>1, <1>3 DEF IsWatchPage
    <2>2. PICK r \in C : UpTo(P, U, I(6), r)
        BY <1>4, <2>1 DEF Leads
    <2>3. r \in WatchItems
        BY DEF IsWatchPage
    <2> DEFINE x == P[r][1]
               y == P[r][2]
    <2>4. x \in Int /\ y \in Int
        BY <2>3, WatchLines
    <2>5. /\ y < 16 * i
          /\ \/ Abs(x - 32) < Abs(32 - 32)
             \/ Abs(x - 32) = Abs(32 - 32) /\ y >= 16 * i - 8
        <3>1. /\ y < P[I(6)][2]
              /\ \/ Abs(x - P[I(6)][1]) < Abs(P[I(4)][1] - P[I(6)][1])
                 \/ /\ Abs(x - P[I(6)][1]) = Abs(P[I(4)][1] - P[I(6)][1])
                    /\ y > P[I(4)][2] \/ (y = P[I(4)][2] /\ r <= I(4))
            BY <1>4, <2>1, <2>2 DEF UpTo
        <3> HIDE DEF x, y, I
        <3> QED BY <1>1, <1>3, <2>4, <3>1
    <2>6. x = 32 /\ y < 16 * i /\ y >= 16 * i - 8
        <3> HIDE DEF x, y
        <3> QED BY <2>4, <2>5 DEF Abs
    <2>7. PICK h \in 1..WatchRows : r = ItemOf(h, 4) \/ r = ItemOf(h, 6)
        BY <2>3, <2>6, WatchLines
    <2>8. P[ItemOf(h, 4)][2] = 16 * h - 8 /\ P[ItemOf(h, 6)][2] = 16 * h
        BY DEF IsWatchPage
    <2>9. h = i /\ r = ItemOf(h, 4)
        BY <1>1, <2>6, <2>7, <2>8
    <2> QED BY <2>9
<1> HIDE DEF I
<1>7. I(2) \in C => I(1) \in C
    <2> SUFFICES ASSUME I(2) \in C PROVE I(1) \in C
        OBVIOUS
    <2>1. PICK m \in 1..(2 - 1) : I(m) \in C
        BY <1>5
    <2> QED BY <2>1
<1>8. I(3) \in C => I(1) \in C
    <2> SUFFICES ASSUME I(3) \in C PROVE I(1) \in C
        OBVIOUS
    <2>1. PICK m \in 1..(3 - 1) : I(m) \in C
        BY <1>5
    <2>2. m = 1 \/ m = 2
        OBVIOUS
    <2> QED BY <1>7, <2>1, <2>2
<1>9. I(4) \in C => I(1) \in C
    <2> SUFFICES ASSUME I(4) \in C PROVE I(1) \in C
        OBVIOUS
    <2>1. PICK m \in 1..(4 - 1) : I(m) \in C
        BY <1>5
    <2>2. m = 1 \/ m = 2 \/ m = 3
        OBVIOUS
    <2> QED BY <1>7, <1>8, <2>1, <2>2
<1>10. I(5) \in C => I(1) \in C
    <2> SUFFICES ASSUME I(5) \in C PROVE I(1) \in C
        OBVIOUS
    <2>1. PICK m \in 1..(5 - 1) : I(m) \in C
        BY <1>5
    <2>2. m = 1 \/ m = 2 \/ m = 3 \/ m = 4
        OBVIOUS
    <2> QED BY <1>7, <1>8, <1>9, <2>1, <2>2
<1>11. k = 1 \/ k = 2 \/ k = 3 \/ k = 4 \/ k = 5 \/ k = 6
    OBVIOUS
<1>12. I(k) \in C
    BY DEF I
<1> QED BY <1>6, <1>7, <1>8, <1>9, <1>10, <1>11, <1>12 DEF I

(* The column of the return button, the rows' first items and the button   *)
(* that adds a watch.                                                      *)
Place(k) == IF k = 0 THEN 1 ELSE IF k = WatchRows + 1 THEN 2 ELSE ItemOf(k, 1)

(* That column is the items at its left edge. *)
LEMMA PlacesOfColumn ==
    ASSUME NEW P, NEW U, NEW C, IsWatchPage(P, U, C)
    PROVE  /\ \A k \in 0..(WatchRows + 1) :
                 Place(k) \in U /\ P[Place(k)][1] = 0 /\ P[Place(k)][2] = IF k = 0 THEN 0 ELSE 16 * k - 8
           /\ \A j \in WatchItems : P[j][1] = 0 => \E k \in 0..(WatchRows + 1) : j = Place(k)
<1>1. WatchRows \in Nat
    BY PagesAssumption
<1>2. RowX[1] = 0
    BY DEF RowX
<1>3. ASSUME NEW k \in 0..(WatchRows + 1)
      PROVE  Place(k) \in U /\ P[Place(k)][1] = 0 /\ P[Place(k)][2] = IF k = 0 THEN 0 ELSE 16 * k - 8
    <2>1. CASE k = 0
        BY <2>1 DEF Place, IsWatchPage
    <2>2. CASE k = WatchRows + 1
        BY <1>1, <2>2 DEF Place, IsWatchPage
    <2>3. CASE k \in 1..WatchRows
        <3>1. Place(k) = ItemOf(k, 1) /\ 1 \in 1..6
            BY <1>1, <2>3 DEF Place
        <3>2. P[ItemOf(k, 1)][1] = 0 /\ P[ItemOf(k, 1)][2] = 16 * k - 8 /\ ItemOf(k, 1) \in U
            BY <1>2, <2>3 DEF IsWatchPage
        <3> QED BY <1>1, <2>3, <3>1, <3>2
    <2> QED BY <1>1, <2>1, <2>2, <2>3
<1>4. ASSUME NEW j \in WatchItems, P[j][1] = 0 PROVE \E k \in 0..(WatchRows + 1) : j = Place(k)
    <2>1. j = 1 \/ j = 2 \/ \E i \in 1..WatchRows : j = ItemOf(i, 1)
        BY <1>4, WatchLines
    <2>2. Place(0) = 1 /\ Place(WatchRows + 1) = 2 /\ \A i \in 1..WatchRows : Place(i) = ItemOf(i, 1)
        BY <1>1 DEF Place
    <2>3. 0 \in 0..(WatchRows + 1) /\ WatchRows + 1 \in 0..(WatchRows + 1) /\ \A i \in 1..WatchRows : i \in 0..(WatchRows + 1)
        BY <1>1
    <2> QED BY <2>1, <2>2, <2>3
<1> QED BY <1>3, <1>4

(* and from any place of that column to all of it. *)
LEMMA ColumnReached ==
    ASSUME NEW P, NEW U, NEW C, IsWatchPage(P, U, C), NEW from \in 0..(WatchRows + 1), Place(from) \in C
    PROVE  \A k \in 0..(WatchRows + 1) : Place(k) \in C
<1> DEFINE n == WatchRows + 1
           Y(k) == IF k = 0 THEN 0 ELSE 16 * k - 8
           B == {k \in 0..n : Place(k) \in C}
<1>1. n \in Nat
    BY PagesAssumption
<1>2. /\ \A k \in 0..n : Place(k) \in U /\ P[Place(k)][1] = 0 /\ P[Place(k)][2] = Y(k)
      /\ \A j \in WatchItems : P[j][1] = 0 => \E k \in 0..n : j = Place(k)
    BY PlacesOfColumn
<1>3. C \subseteq WatchItems /\ \A at \in C : Leads(C, P, U, at)
    BY DEF IsWatchPage
<1>4. \A j, k \in 0..n : (j < k <=> Y(j) < Y(k)) /\ Y(j) \in Int
    BY <1>1
<1>5. ASSUME NEW k \in 1..n, Place(k) \in C PROVE Place(k - 1) \in C
    <2>1. k \in 0..n /\ k - 1 \in 0..n /\ Y(k - 1) < Y(k)
        BY <1>1
    <2> HIDE DEF n, Y
    <2>2. Leads(C, P, U, Place(k)) /\ P[Place(k - 1)][2] < P[Place(k)][2] /\ Place(k - 1) \in U
        BY <1>2, <1>3, <1>5, <2>1
    <2>3. PICK r \in C : UpTo(P, U, Place(k), r)
        BY <2>2 DEF Leads
    <2> DEFINE x == P[r][1]
               y == P[r][2]
    <2>4. r \in WatchItems /\ x \in Int /\ y \in Int
        BY <1>3, WatchLines
    <2>5. /\ y < Y(k)
          /\ \/ Abs(x - 0) < Abs(0 - 0)
             \/ Abs(x - 0) = Abs(0 - 0) /\ (y > Y(k - 1) \/ y = Y(k - 1))
        <3>1. /\ y < P[Place(k)][2]
              /\ \/ Abs(x - P[Place(k)][1]) < Abs(P[Place(k - 1)][1] - P[Place(k)][1])
                 \/ /\ Abs(x - P[Place(k)][1]) = Abs(P[Place(k - 1)][1] - P[Place(k)][1])
                    /\ y > P[Place(k - 1)][2] \/ (y = P[Place(k - 1)][2] /\ r <= Place(k - 1))
            BY <2>2, <2>3 DEF UpTo
        <3> HIDE DEF x, y
        <3> QED BY <1>2, <2>1, <3>1
    <2>6. x = 0 /\ y < Y(k) /\ y >= Y(k - 1)
        <3>1. Y(k - 1) \in Int
            BY <1>4, <2>1
        <3> HIDE DEF x, y
        <3> QED BY <2>4, <2>5, <3>1 DEF Abs
    <2>7. PICK h \in 0..n : r = Place(h)
        BY <1>2, <2>4, <2>6
    <2>8. h < k /\ ~(h < k - 1)
        <3>1. y = Y(h) /\ Y(h) \in Int /\ Y(k - 1) \in Int
            BY <1>2, <1>4, <2>1, <2>7
        <3> HIDE DEF x, y
        <3> QED BY <1>4, <2>1, <2>6, <3>1
    <2>9. h = k - 1
        BY <1>1, <2>1, <2>8
    <2> QED BY <2>7, <2>9
<1>6. ASSUME NEW k \in 1..n, Place(k - 1) \in C PROVE Place(k) \in C
    <2>1. k \in 0..n /\ k - 1 \in 0..n /\ Y(k - 1) < Y(k)
        BY <1>1
    <2> HIDE DEF n, Y
    <2>2. Leads(C, P, U, Place(k - 1)) /\ P[Place(k)][2] > P[Place(k - 1)][2] /\ Place(k) \in U
        BY <1>2, <1>3, <1>4, <1>6, <2>1
    <2>3. PICK r \in C : DownTo(P, U, Place(k - 1), r)
        BY <2>2 DEF Leads
    <2> DEFINE x == P[r][1]
               y == P[r][2]
    <2>4. r \in WatchItems /\ x \in Int /\ y \in Int
        BY <1>3, WatchLines
    <2>5. /\ y > Y(k - 1)
          /\ \/ Abs(x - 0) < Abs(0 - 0)
             \/ Abs(x - 0) = Abs(0 - 0) /\ (y < Y(k) \/ y = Y(k))
        <3>1. /\ y > P[Place(k - 1)][2]
              /\ \/ Abs(x - P[Place(k - 1)][1]) < Abs(P[Place(k)][1] - P[Place(k - 1)][1])
                 \/ /\ Abs(x - P[Place(k - 1)][1]) = Abs(P[Place(k)][1] - P[Place(k - 1)][1])
                    /\ y < P[Place(k)][2] \/ (y = P[Place(k)][2] /\ r <= Place(k))
            BY <2>2, <2>3 DEF DownTo
        <3> HIDE DEF x, y
        <3> QED BY <1>2, <2>1, <3>1
    <2>6. x = 0 /\ y > Y(k - 1) /\ y <= Y(k)
        <3>1. Y(k) \in Int
            BY <1>4, <2>1
        <3> HIDE DEF x, y
        <3> QED BY <2>4, <2>5, <3>1 DEF Abs
    <2>7. PICK h \in 0..n : r = Place(h)
        BY <1>2, <2>4, <2>6
    <2>8. k - 1 < h /\ ~(k < h)
        <3>1. y = Y(h) /\ Y(h) \in Int /\ Y(k) \in Int
            BY <1>2, <1>4, <2>1, <2>7
        <3> HIDE DEF x, y
        <3> QED BY <1>4, <2>1, <2>6, <3>1
    <2>9. h = k
        BY <1>1, <2>1, <2>8
    <2> QED BY <2>7, <2>9
<1>7. 0 \in B
    <2>1. B \in SUBSET Nat /\ from \in B
        BY <1>1
    <2>2. PICK c \in B : \A j \in B : c <= j
        <3> HIDE DEF B
        <3> QED BY <2>1, LeastNatural
    <2>3. c \in 0..n /\ Place(c) \in C /\ c - 1 \notin B
        BY <1>1, <2>2
    <2>4. CASE c # 0
        <3>1. c \in 1..n /\ c - 1 \in 0..n
            BY <1>1, <2>3, <2>4
        <3> QED BY <1>5, <2>3, <3>1
    <2> QED BY <2>2, <2>4
<1>8. \A k \in (0 + 1)..n : k - 1 \in B => k \in B
    <2> SUFFICES ASSUME NEW k \in (0 + 1)..n, k - 1 \in B PROVE k \in B
        OBVIOUS
    <2>1. k \in 1..n /\ k \in 0..n /\ Place(k - 1) \in C
        BY <1>1
    <2> QED BY <1>6, <2>1
<1> HIDE DEF B
<1>9. \A k \in 0..n : k \in B
    BY <1>1, <1>7, <1>8, EveryPlace
<1> QED BY <1>9 DEF B

(* From a row's first item the directions lead to all of the row.          *)
LEMMA FirstToRow ==
    ASSUME NEW P, NEW U, NEW C, IsWatchPage(P, U, C), NEW i \in 1..WatchRows, ItemOf(i, 1) \in C
    PROVE  \A k \in 1..6 : ItemOf(i, k) \in U => ItemOf(i, k) \in C
<1> DEFINE I(l) == ItemOf(i, l)
           X(l) == RowX[l]
<1>1. WatchRows \in Nat /\ i \in Nat
    BY PagesAssumption
<1>2. X(1) = 0 /\ X(2) = 8 /\ X(3) = 16 /\ X(4) = 32 /\ X(5) = 112 /\ X(6) = 32
    BY DEF RowX
<1>3. /\ \A l \in 1..5 : P[I(l)][1] = X(l) /\ P[I(l)][2] = 16 * i - 8
      /\ P[I(4)][1] = 32 /\ P[I(6)][1] = 32 /\ P[I(6)][2] = 16 * i
    <2>1. \A l \in 1..5 : l \in 1..6 /\ l # 6
        OBVIOUS
    <2>2. 6 \in 1..6 /\ 4 \in 1..6
        OBVIOUS
    <2> QED BY <1>2, <2>1, <2>2 DEF IsWatchPage
<1>4. I(2) \in U /\ I(4) \in U /\ I(5) \in U /\ I(6) \in U
    BY DEF IsWatchPage
<1>5. C \subseteq WatchItems /\ U \subseteq WatchItems /\ \A at \in C : Leads(C, P, U, at)
    BY DEF IsWatchPage
<1> HIDE DEF X
<1>6. ASSUME NEW l \in 1..4, NEW m \in 1..5, X(l) < X(m), I(l) \in C, I(m) \in U
      PROVE  \E h \in 1..5 : I(h) \in C /\ I(h) \in U /\ X(l) < X(h) /\ X(h) <= X(m)
    <2>0. l \in 1..5
        OBVIOUS
    <2>1. X(l) \in Int /\ X(m) \in Int
        <3>1. m = 1 \/ m = 2 \/ m = 3 \/ m = 4 \/ m = 5
            OBVIOUS
        <3>2. l = 1 \/ l = 2 \/ l = 3 \/ l = 4
            OBVIOUS
        <3> QED BY <1>2, <3>1, <3>2
    <2>2. Leads(C, P, U, I(l)) /\ P[I(m)][1] > P[I(l)][1]
        BY <1>3, <1>5, <1>6, <2>0
    <2>3. PICK r \in C : RightTo(P, U, I(l), r)
        BY <1>6, <2>2 DEF Leads
    <2> DEFINE x == P[r][1]
               y == P[r][2]
    <2>4. r \in WatchItems /\ x \in Int /\ y \in Int
        BY <1>5, WatchLines
    <2>5. r \in U /\ x > P[I(l)][1]
          /\ \/ Abs(y - P[I(l)][2]) < Abs(P[I(m)][2] - P[I(l)][2])
             \/ /\ Abs(y - P[I(l)][2]) = Abs(P[I(m)][2] - P[I(l)][2])
                /\ x < P[I(m)][1] \/ (x = P[I(m)][1] /\ r <= I(m))
        BY <1>6, <2>2, <2>3 DEF RightTo
    <2>6. y = 16 * i - 8 /\ X(l) < x /\ x <= X(m)
        <3> HIDE DEF x, y, I
        <3> QED BY <1>1, <1>3, <2>0, <2>1, <2>4, <2>5 DEF Abs
    <2>7. PICK h \in 1..5 : r = I(h)
        BY <2>4, <2>6, WatchLines
    <2>8. x = X(h)
        BY <1>3, <2>7
    <2> QED BY <2>5, <2>6, <2>7, <2>8
<1>7. I(2) \in C
    <2>1. PICK h \in 1..5 : I(h) \in C /\ I(h) \in U /\ X(1) < X(h) /\ X(h) <= X(2)
        BY <1>2, <1>4, <1>6
    <2>2. h = 1 \/ h = 2 \/ h = 3 \/ h = 4 \/ h = 5
        OBVIOUS
    <2>3. h = 2
        BY <1>2, <2>1, <2>2
    <2> QED BY <2>1, <2>3
<1>8. I(3) \in U => I(3) \in C
    <2> SUFFICES ASSUME I(3) \in U PROVE I(3) \in C
        OBVIOUS
    <2>1. PICK h \in 1..5 : I(h) \in C /\ I(h) \in U /\ X(2) < X(h) /\ X(h) <= X(3)
        BY <1>2, <1>6, <1>7
    <2>2. h = 1 \/ h = 2 \/ h = 3 \/ h = 4 \/ h = 5
        OBVIOUS
    <2>3. h = 3
        BY <1>2, <2>1, <2>2
    <2> QED BY <2>1, <2>3
<1>9. I(4) \in C
    <2>1. CASE I(3) \in U
        <3>1. PICK h \in 1..5 : I(h) \in C /\ I(h) \in U /\ X(3) < X(h) /\ X(h) <= X(4)
            BY <1>2, <1>4, <1>6, <1>8, <2>1
        <3>2. h = 1 \/ h = 2 \/ h = 3 \/ h = 4 \/ h = 5
            OBVIOUS
        <3>3. h = 4
            BY <1>2, <3>1, <3>2
        <3> QED BY <3>1, <3>3
    <2>2. CASE I(3) \notin U
        <3>1. PICK h \in 1..5 : I(h) \in C /\ I(h) \in U /\ X(2) < X(h) /\ X(h) <= X(4)
            BY <1>2, <1>4, <1>6, <1>7
        <3>2. h = 1 \/ h = 2 \/ h = 3 \/ h = 4 \/ h = 5
            OBVIOUS
        <3>3. h = 3 \/ h = 4
            BY <1>2, <3>1, <3>2
        <3> QED BY <2>2, <3>1, <3>3
    <2> QED BY <2>1, <2>2
<1>10. I(5) \in C
    <2>1. PICK h \in 1..5 : I(h) \in C /\ I(h) \in U /\ X(4) < X(h) /\ X(h) <= X(5)
        BY <1>2, <1>4, <1>6, <1>9
    <2>2. h = 1 \/ h = 2 \/ h = 3 \/ h = 4 \/ h = 5
        OBVIOUS
    <2>3. h = 5
        BY <1>2, <2>1, <2>2
    <2> QED BY <2>1, <2>3
<1>11. I(6) \in C
    <2>1. Leads(C, P, U, I(4)) /\ P[I(6)][2] > P[I(4)][2]
        BY <1>1, <1>3, <1>5, <1>9
    <2>2. PICK r \in C : DownTo(P, U, I(4), r)
        BY <1>4, <2>1 DEF Leads
    <2> DEFINE x == P[r][1]
               y == P[r][2]
    <2>3. r \in WatchItems /\ x \in Int /\ y \in Int
        BY <1>5, WatchLines
    <2>4. /\ y > P[I(4)][2]
          /\ \/ Abs(x - P[I(4)][1]) < Abs(P[I(6)][1] - P[I(4)][1])
             \/ /\ Abs(x - P[I(4)][1]) = Abs(P[I(6)][1] - P[I(4)][1])
                /\ y < P[I(6)][2] \/ (y = P[I(6)][2] /\ r <= I(6))
        BY <1>4, <2>1, <2>2 DEF DownTo
    <2>5. P[I(4)][1] = 32 /\ P[I(6)][1] = 32 /\ P[I(4)][2] = 16 * i - 8 /\ P[I(6)][2] = 16 * i
        BY <1>3
    <2>6. x = 32 /\ y > 16 * i - 8 /\ y <= 16 * i
        <3> HIDE DEF x, y, I
        <3> QED BY <1>1, <2>3, <2>4, <2>5 DEF Abs
    <2>7. PICK h \in 1..WatchRows : r = ItemOf(h, 4) \/ r = ItemOf(h, 6)
        BY <2>3, <2>6, WatchLines
    <2>8. P[ItemOf(h, 4)][2] = 16 * h - 8 /\ P[ItemOf(h, 6)][2] = 16 * h
        BY DEF IsWatchPage
    <2>9. h = i /\ r = ItemOf(h, 6)
        BY <1>1, <2>6, <2>7, <2>8
    <2> QED BY <2>9
<1>12. \A k \in 1..6 : k = 1 \/ k = 2 \/ k = 3 \/ k = 4 \/ k = 5 \/ k = 6
    OBVIOUS
<1> QED BY <1>7, <1>8, <1>9, <1>10, <1>11, <1>12 DEF I

(* Of the page of watches all that can be used is reached from anywhere,   *)
(* however many there are and whichever do not float.                      *)
LEMMA WatchesReached ==
    ASSUME NEW fixed \in SUBSET (1..WatchRows)
    PROVE  ReachesAll(2 + 6 * WatchRows, watches_menu, UsableOfWatches(fixed))
<1> DEFINE P == watches_menu
           U == UsableOfWatches(fixed)
           W == WatchRows
           n == 2 + 6 * WatchRows
<1>1. W \in Nat /\ n \in Nat /\ 16 * W + 112 \in Nat /\ WatchItems = 1..n
    BY PagesAssumption DEF WatchItems
<1> SUFFICES ASSUME NEW C \in SUBSET (1..n), C # {}, Closed(C, P, U) PROVE U \subseteq C
    BY DEF ReachesAll
<1>2. U \subseteq WatchItems /\ U \in SUBSET (1..n)
    BY <1>1 DEF UsableOfWatches
<1>3. ASSUME NEW i \in 1..W, NEW k \in 1..6 PROVE ItemOf(i, k) \in WatchItems /\ (k # 3 => ItemOf(i, k) \in U)
    <2>1. ItemOf(i, k) \in WatchItems
        BY <1>1, ItemOfRow DEF WatchItems
    <2>2. \A h \in 1..W : ItemOf(i, k) = ItemOf(h, 3) => k = 3
        BY <1>1 DEF ItemOf
    <2> QED BY <2>1, <2>2 DEF UsableOfWatches
<1>4. 1 \in U /\ 2 \in U
    <2>1. \A h \in 1..W : ItemOf(h, 3) # 1 /\ ItemOf(h, 3) # 2
        BY <1>1 DEF ItemOf
    <2>2. \A h \in fixed : h \in 1..W
        OBVIOUS
    <2>3. 1 \in WatchItems /\ 2 \in WatchItems
        BY <1>1
    <2> QED BY <2>1, <2>2, <2>3 DEF UsableOfWatches
<1>5. IsWatchPage(P, U, C)
    <2>1. \A at \in C : Leads(C, P, U, at)
        <3> HIDE DEF P, U, n
        <3> QED BY <1>1, <1>2, WatchPoints, ClosedLeads DEF P, n
    <2> QED BY <1>1, <1>2, <1>3, <1>4, <2>1, WatchPoints DEF IsWatchPage
<1> HIDE DEF P, U, n
<1>6. \E k \in 0..(W + 1) : Place(k) \in C
    <2>1. PICK c \in C : c \in WatchItems
        BY <1>1
    <2>2. CASE c = 1
        <3>1. Place(0) = 1 /\ 0 \in 0..(W + 1)
            BY <1>1 DEF Place
        <3> QED BY <2>2, <3>1
    <2>3. CASE c = 2
        <3>1. Place(W + 1) = 2 /\ W + 1 \in 0..(W + 1)
            BY <1>1 DEF Place
        <3> QED BY <2>3, <3>1
    <2>4. CASE c \in 3..(2 + 6 * WatchRows)
        <3>1. PICK i \in 1..W, k \in 1..6 : c = ItemOf(i, k)
            BY <2>4, ItemOfRow
        <3>2. ItemOf(i, 1) \in C
            BY <1>5, <3>1, RowToFirst
        <3>3. Place(i) = ItemOf(i, 1) /\ i \in 0..(W + 1)
            BY <1>1 DEF Place
        <3> QED BY <3>2, <3>3
    <2>5. c = 1 \/ c = 2 \/ c \in 3..(2 + 6 * WatchRows)
        BY <1>1, <2>1 DEF WatchItems
    <2> QED BY <2>2, <2>3, <2>4, <2>5
<1>7. \A k \in 0..(W + 1) : Place(k) \in C
    BY <1>5, <1>6, ColumnReached
<1> SUFFICES ASSUME NEW j \in U PROVE j \in C
    OBVIOUS
<1>8. CASE j = 1 \/ j = 2
    <2>1. Place(0) = 1 /\ 0 \in 0..(W + 1) /\ Place(W + 1) = 2 /\ W + 1 \in 0..(W + 1)
        BY <1>1 DEF Place
    <2> QED BY <1>7, <1>8, <2>1
<1>9. CASE j \in 3..(2 + 6 * WatchRows)
    <2>1. PICK i \in 1..W, k \in 1..6 : j = ItemOf(i, k)
        BY <1>9, ItemOfRow
    <2>2. Place(i) = ItemOf(i, 1) /\ i \in 0..(W + 1)
        BY <1>1 DEF Place
    <2>3. ItemOf(i, 1) \in C
        BY <1>7, <2>2
    <2> QED BY <1>5, <2>1, <2>3, FirstToRow
<1>10. j = 1 \/ j = 2 \/ j \in 3..(2 + 6 * WatchRows)
    BY <1>1, <1>2 DEF WatchItems
<1> QED BY <1>8, <1>9, <1>10

(* The dialog for a file has eight items and the rows. *)
DialogItems == 1..(8 + DialogRows)

(* Where the items of the file dialog are, its rows from y on. *)
DialogPoint(y, j) ==
    CASE j = 1 -> <<0, 0>> [] j = 2 -> <<0, 8>> [] j = 3 -> <<0, 24>> [] j = 4 -> <<0, 32>> [] j = 5 -> <<64, 32>>
      [] j = 6 -> <<0, 40>> [] j = 7 -> <<0, 8 * y>> [] j = 8 -> <<0, 8 * (y + DialogRows - 1)>>
      [] OTHER -> <<8, 8 * (y + (j - 9))>>

(* That is where the model's layout puts them. *)
LEMMA DialogPoints ==
    ASSUME NEW y \in {3, 6}
    PROVE  /\ file_dialog(y) \in Points(8 + DialogRows, 8 * (y + DialogRows) + 64)
           /\ \A j \in DialogItems : file_dialog(y)[j] = DialogPoint(y, j)
<1> DEFINE R == DialogRows
           m == 8 * (y + R) + 64
           first == <<At(0, 0), At(0, 1), At(0, 3), At(0, 4), At(8, 4), At(0, 5), At(0, y), At(0, y + R - 1)>>
           rest == [k \in 1..R |-> At(1, y + (k - 1))]
           cells == first \o rest
           Cells == Int \X Int \X Int \X Int
<1>1. R \in Nat /\ R > 1 /\ y \in Nat /\ DialogItems = 1..(8 + R)
    BY PagesAssumption DEF DialogItems
<1>2. file_dialog(y) = [k \in DOMAIN cells |-> <<cells[k][1] * 8 + cells[k][3], cells[k][2] * 8 + cells[k][4]>>]
    BY DEF file_dialog, Placed, menu_item_x, menu_item_y, Each
<1>3. first \in Seq(Cells) /\ Len(first) = 8
    BY <1>1 DEF At
<1>4. rest \in Seq(Cells) /\ Len(rest) = R
    <2>1. rest \in [1..R -> Cells]
        BY <1>1 DEF At
    <2> HIDE DEF rest, Cells, R
    <2> QED BY <1>1, <2>1, FunctionIsSequence
<1>5. /\ cells \in Seq(Cells) /\ Len(cells) = 8 + R /\ DOMAIN cells = 1..(8 + R)
      /\ \A j \in 1..(8 + R) : cells[j] = IF j <= 8 THEN first[j] ELSE rest[j - 8]
    <2> HIDE DEF rest, first, Cells, R
    <2>1. /\ first \o rest \in Seq(Cells) /\ Len(first \o rest) = Len(first) + Len(rest)
          /\ \A j \in 1..(Len(first) + Len(rest)) : (first \o rest)[j] =
                IF j <= Len(first) THEN first[j] ELSE rest[j - Len(first)]
        BY <1>3, <1>4, ConcatProperties
    <2> HIDE DEF cells
    <2>2. cells \in Seq(Cells) /\ Len(cells) = 8 + R
        BY <1>3, <1>4, <2>1 DEF cells
    <2> QED BY <1>3, <1>4, <2>1, <2>2, LenProperties DEF cells
<1>6. ASSUME NEW j \in 1..(8 + R)
      PROVE  <<cells[j][1] * 8 + cells[j][3], cells[j][2] * 8 + cells[j][4]>> = DialogPoint(y, j)
    <2>1. CASE j <= 8
        <3>1. j = 1 \/ j = 2 \/ j = 3 \/ j = 4 \/ j = 5 \/ j = 6 \/ j = 7 \/ j = 8
            BY <1>1, <2>1
        <3>2. cells[j] = first[j]
            <4> HIDE DEF cells, first, rest
            <4> QED BY <1>5, <2>1
        <3> DEFINE c == first[j]
        <3>3. <<c[1] * 8 + c[3], c[2] * 8 + c[4]>> = DialogPoint(y, j)
            <4>1. CASE j = 1
                BY <1>1, <4>1 DEF At, DialogPoint
            <4>2. CASE j = 2
                BY <1>1, <4>2 DEF At, DialogPoint
            <4>3. CASE j = 3
                BY <1>1, <4>3 DEF At, DialogPoint
            <4>4. CASE j = 4
                BY <1>1, <4>4 DEF At, DialogPoint
            <4>5. CASE j = 5
                BY <1>1, <4>5 DEF At, DialogPoint
            <4>6. CASE j = 6
                BY <1>1, <4>6 DEF At, DialogPoint
            <4>7. CASE j = 7
                BY <1>1, <4>7 DEF At, DialogPoint
            <4>8. CASE j = 8
                BY <1>1, <4>8 DEF At, DialogPoint
            <4> QED BY <3>1, <4>1, <4>2, <4>3, <4>4, <4>5, <4>6, <4>7, <4>8
        <3> HIDE DEF cells, first
        <3> QED BY <3>2, <3>3
    <2>2. CASE ~(j <= 8)
        <3>1. j - 8 \in 1..R /\ (j - 8) - 1 = j - 9
            BY <1>1, <2>2
        <3>2. cells[j] = rest[j - 8]
            <4> HIDE DEF cells, first, rest
            <4> QED BY <1>5, <2>2
        <3>3. rest[j - 8] = <<1, y + (j - 9), 0, 0>>
            BY <3>1 DEF At
        <3>4. cells[j] = <<1, y + (j - 9), 0, 0>>
            BY <3>2, <3>3
        <3> HIDE DEF cells
        <3>5. <<cells[j][1] * 8 + cells[j][3], cells[j][2] * 8 + cells[j][4]>> = <<8, 8 * (y + (j - 9))>>
            BY <1>1, <3>4
        <3>6. DialogPoint(y, j) = <<8, 8 * (y + (j - 9))>>
            <4>1. j # 1 /\ j # 2 /\ j # 3 /\ j # 4 /\ j # 5 /\ j # 6 /\ j # 7 /\ j # 8
                BY <1>1, <2>2
            <4> HIDE DEF m, first, rest
            <4> QED BY <4>1, Zenon DEF DialogPoint
        <3> QED BY <3>5, <3>6
    <2> QED BY <2>1, <2>2
<1> HIDE DEF cells
<1>7. file_dialog(y) = [j \in 1..(8 + R) |-> DialogPoint(y, j)]
    BY <1>2, <1>5, <1>6
<1>8. ASSUME NEW j \in 1..(8 + R) PROVE DialogPoint(y, j) \in (0..m) \X (0..m)
    <2>1. 8 * y \in 0..m /\ 8 * (y + R - 1) \in 0..m /\ {0, 8, 24, 32, 40, 64} \subseteq 0..m
        BY <1>1
    <2>2. j \in 9..(8 + R) => 8 * (y + (j - 9)) \in 0..m
        BY <1>1
    <2>3. j = 1 \/ j = 2 \/ j = 3 \/ j = 4 \/ j = 5 \/ j = 6 \/ j = 7 \/ j = 8 \/ j \in 9..(8 + R)
        BY <1>1
    <2> HIDE DEF m
    <2> QED BY <2>1, <2>2, <2>3 DEF DialogPoint
<1> QED BY <1>1, <1>7, <1>8 DEF Points

(* Down from an item leads to what is straight below it, if anything is,   *)
LEMMA StraightDown ==
    ASSUME NEW n \in Nat, NEW m \in Nat, NEW points \in Points(n, m), NEW items \in SUBSET (1..n),
           NEW C \in SUBSET (1..n), NEW at \in C, Leads(C, points, items, at),
           NEW t \in items, points[t][1] = points[at][1], points[t][2] > points[at][2]
    PROVE  \E r \in C \cap items : /\ points[r][1] = points[at][1]
                                   /\ points[r][2] > points[at][2] /\ points[r][2] <= points[t][2]
<1>1. PICK r \in C : DownTo(points, items, at, r)
    BY DEF Leads
<1> DEFINE x(i) == points[i][1]
           y(i) == points[i][2]
<1>2. /\ r \in items /\ y(r) > y(at)
      /\ \/ Abs(x(r) - x(at)) < Abs(x(t) - x(at))
         \/ Abs(x(r) - x(at)) = Abs(x(t) - x(at)) /\ (y(r) < y(t) \/ y(r) = y(t))
    BY <1>1 DEF DownTo
<1>3. x(r) \in Int /\ x(at) \in Int /\ y(r) \in Int /\ y(t) \in Int /\ x(t) = x(at)
    BY <1>2 DEF Points
<1>4. x(r) = x(at) /\ y(r) <= y(t)
    <2> HIDE DEF x, y
    <2> QED BY <1>2, <1>3 DEF Abs
<1> QED BY <1>2, <1>4

(* and right to what is straight beside it.                                *)
LEMMA StraightRight ==
    ASSUME NEW n \in Nat, NEW m \in Nat, NEW points \in Points(n, m), NEW items \in SUBSET (1..n),
           NEW C \in SUBSET (1..n), NEW at \in C, Leads(C, points, items, at),
           NEW t \in items, points[t][2] = points[at][2], points[t][1] > points[at][1]
    PROVE  \E r \in C \cap items : /\ points[r][2] = points[at][2]
                                   /\ points[r][1] > points[at][1] /\ points[r][1] <= points[t][1]
<1>1. PICK r \in C : RightTo(points, items, at, r)
    BY DEF Leads
<1> DEFINE x(i) == points[i][1]
           y(i) == points[i][2]
<1>2. /\ r \in items /\ x(r) > x(at)
      /\ \/ Abs(y(r) - y(at)) < Abs(y(t) - y(at))
         \/ Abs(y(r) - y(at)) = Abs(y(t) - y(at)) /\ (x(r) < x(t) \/ x(r) = x(t))
    BY <1>1 DEF RightTo
<1>3. y(r) \in Int /\ y(at) \in Int /\ x(r) \in Int /\ x(t) \in Int /\ y(t) = y(at)
    BY <1>2 DEF Points
<1>4. y(r) = y(at) /\ x(r) <= x(t)
    <2> HIDE DEF x, y
    <2> QED BY <1>2, <1>3 DEF Abs
<1> QED BY <1>2, <1>4

(* The dialog with what can be used of it, and a set its directions do not *)
(* lead out of.                                                            *)
IsDialog(y, U, C) ==
    /\ y \in {3, 6} /\ U \subseteq DialogItems /\ C \subseteq DialogItems /\ C # {}
    /\ 1 \in U /\ 2 \in U
    /\ \A at \in C : Leads(C, file_dialog(y), U, at)

(* How the items lie, coordinate by coordinate. *)
PlacedAsDialog(P, y) ==
    /\ P[1][1] = 0 /\ P[2][1] = 0 /\ P[3][1] = 0 /\ P[4][1] = 0 /\ P[5][1] = 64 /\ P[6][1] = 0 /\ P[7][1] = 0 /\ P[8][1] = 0
    /\ P[1][2] = 0 /\ P[2][2] = 8 /\ P[3][2] = 24 /\ P[4][2] = 32 /\ P[5][2] = 32 /\ P[6][2] = 40
    /\ P[7][2] = 8 * y /\ P[8][2] = 8 * (y + DialogRows - 1)
    /\ \A j \in 9..(8 + DialogRows) : P[j][1] = 8 /\ P[j][2] = 8 * (y + (j - 9))
    /\ \A j \in DialogItems :
          j = 1 \/ j = 2 \/ j = 3 \/ j = 4 \/ j = 5 \/ j = 6 \/ j = 7 \/ j = 8 \/ j \in 9..(8 + DialogRows)

(* and so it is placed. *)
LEMMA DialogPlaces ==
    ASSUME NEW y \in {3, 6}
    PROVE  PlacedAsDialog(file_dialog(y), y)
<1>1. DialogRows \in Nat /\ DialogItems = 1..(8 + DialogRows)
    BY PagesAssumption DEF DialogItems
<1>2. \A j \in 1..8 : file_dialog(y)[j] = DialogPoint(y, j)
    BY <1>1, DialogPoints
<1>3. \A j \in 9..(8 + DialogRows) : file_dialog(y)[j] = <<8, 8 * (y + (j - 9))>>
    <2> SUFFICES ASSUME NEW j \in 9..(8 + DialogRows) PROVE file_dialog(y)[j] = <<8, 8 * (y + (j - 9))>>
        OBVIOUS
    <2>1. j # 1 /\ j # 2 /\ j # 3 /\ j # 4 /\ j # 5 /\ j # 6 /\ j # 7 /\ j # 8 /\ j \in DialogItems
        BY <1>1
    <2>2. DialogPoint(y, j) = <<8, 8 * (y + (j - 9))>>
        BY <2>1, Zenon DEF DialogPoint
    <2> QED BY <2>1, <2>2, DialogPoints
<1>4. /\ file_dialog(y)[1] = <<0, 0>> /\ file_dialog(y)[2] = <<0, 8>> /\ file_dialog(y)[3] = <<0, 24>>
      /\ file_dialog(y)[4] = <<0, 32>> /\ file_dialog(y)[5] = <<64, 32>> /\ file_dialog(y)[6] = <<0, 40>>
      /\ file_dialog(y)[7] = <<0, 8 * y>> /\ file_dialog(y)[8] = <<0, 8 * (y + DialogRows - 1)>>
    BY <1>2 DEF DialogPoint
<1>5. \A j \in DialogItems :
        j = 1 \/ j = 2 \/ j = 3 \/ j = 4 \/ j = 5 \/ j = 6 \/ j = 7 \/ j = 8 \/ j \in 9..(8 + DialogRows)
    BY <1>1
<1> QED BY <1>3, <1>4, <1>5 DEF PlacedAsDialog

(* From anywhere the directions lead back to the first two items.          *)
LEMMA DialogTop ==
    ASSUME NEW y, NEW U, NEW C, IsDialog(y, U, C)
    PROVE  1 \in C /\ 2 \in C
<1> DEFINE P == file_dialog(y)
           R == DialogRows
           n == 8 + R
           m == 8 * (y + R) + 64
           X(j) == P[j][1]
           Y(j) == P[j][2]
<1>1. /\ y \in {3, 6} /\ R \in Nat /\ R > 1 /\ n \in Nat /\ m \in Nat /\ DialogItems = 1..n /\ P \in Points(n, m)
      /\ U \in SUBSET (1..n) /\ C \in SUBSET (1..n)
    BY PagesAssumption, DialogPoints DEF IsDialog, DialogItems
<1>2. /\ Y(1) = 0 /\ Y(2) = 8 /\ X(1) = 0 /\ X(2) = 0
      /\ \A j \in DialogItems : Y(j) \in Nat /\ (Y(j) = 0 => j = 1)
      /\ \A j \in DialogItems : X(j) = 0 /\ Y(j) > 0 /\ Y(j) <= 8 => j = 2
    <2>1. PlacedAsDialog(P, y)
        BY <1>1, DialogPlaces
    <2> HIDE DEF P
    <2>2. \A j \in 9..n : X(j) = 8 /\ Y(j) \in Nat /\ Y(j) >= 24
        <3> SUFFICES ASSUME NEW j \in 9..n PROVE X(j) = 8 /\ Y(j) \in Nat /\ Y(j) >= 24
            OBVIOUS
        <3>1. X(j) = 8 /\ Y(j) = 8 * (y + (j - 9))
            BY <2>1 DEF PlacedAsDialog
        <3> HIDE DEF X, Y
        <3> QED BY <1>1, <3>1
    <2>3. Y(7) \in Nat /\ Y(7) >= 24 /\ Y(8) \in Nat /\ Y(8) >= 24
        <3>1. Y(7) = 8 * y /\ Y(8) = 8 * (y + R - 1)
            BY <2>1 DEF PlacedAsDialog
        <3> HIDE DEF X, Y
        <3> QED BY <1>1, <3>1
    <2>4. /\ Y(1) = 0 /\ Y(2) = 8 /\ X(1) = 0 /\ X(2) = 0 /\ Y(3) = 24 /\ Y(4) = 32 /\ Y(5) = 32 /\ Y(6) = 40
          /\ \A j \in DialogItems :
                j = 1 \/ j = 2 \/ j = 3 \/ j = 4 \/ j = 5 \/ j = 6 \/ j = 7 \/ j = 8 \/ j \in 9..n
        BY <2>1 DEF PlacedAsDialog
    <2> HIDE DEF X, Y, n
    <2> QED BY <2>2, <2>3, <2>4
<1>3. 1 \in U /\ 2 \in U /\ C # {} /\ \A at \in C : Leads(C, P, U, at)
    BY DEF IsDialog
<1> HIDE DEF P, R, n, m
<1>4. 1 \in C
    <2> DEFINE S == {Y(j) : j \in C}
    <2>1. PICK s \in S : \A t \in S : s <= t
        <3>1. S \in SUBSET Nat /\ S # {}
            BY <1>1, <1>2, <1>3
        <3> HIDE DEF S
        <3> QED BY <3>1, LeastNatural
    <2>2. PICK c \in C : s = Y(c)
        BY <2>1
    <2>3. \A j \in C : Y(c) <= Y(j)
        BY <2>1, <2>2
    <2>4. Y(c) = 0
        <3> SUFFICES ASSUME Y(c) # 0 PROVE FALSE
            OBVIOUS
        <3>1. Y(1) < Y(c)
            BY <1>1, <1>2
        <3>2. PICK r \in C : UpTo(P, U, c, r)
            BY <1>3, <3>1 DEF Leads
        <3>3. Y(r) < Y(c)
            BY <3>2 DEF UpTo
        <3>4. Y(c) <= Y(r) /\ Y(c) \in Nat /\ Y(r) \in Nat
            BY <1>1, <1>2, <2>3
        <3> HIDE DEF Y
        <3> QED BY <3>3, <3>4
    <2> QED BY <1>1, <1>2, <2>4
<1>5. 2 \in C
    <2>1. P[2][1] = P[1][1] /\ P[2][2] > P[1][2]
        BY <1>2
    <2>2. PICK r \in C \cap U : P[r][1] = P[1][1] /\ P[r][2] > P[1][2] /\ P[r][2] <= P[2][2]
        BY <1>1, <1>3, <1>4, <2>1, StraightDown
    <2> QED BY <1>1, <1>2, <2>2
<1> QED BY <1>4, <1>5

(* From a row that can be used they lead to those below it.                *)
LEMMA DialogRowsReached ==
    ASSUME NEW y, NEW U, NEW C, IsDialog(y, U, C), NEW k \in 0..DialogRows, Rows(k) \subseteq U,
           \A j \in U : j \in 9..(8 + DialogRows) => j \in Rows(k), k > 0 => 9 \in C
    PROVE  Rows(k) \subseteq C
<1> DEFINE P == file_dialog(y)
           R == DialogRows
           n == 8 + R
           m == 8 * (y + R) + 64
           X(j) == P[j][1]
           Y(j) == P[j][2]
<1>1. /\ y \in {3, 6} /\ R \in Nat /\ R > 1 /\ n \in Nat /\ m \in Nat /\ DialogItems = 1..n /\ P \in Points(n, m)
      /\ U \in SUBSET (1..n) /\ C \in SUBSET (1..n) /\ k \in Nat /\ k <= R
    BY PagesAssumption, DialogPoints DEF IsDialog, DialogItems
<1>2. /\ \A j \in 9..n : X(j) = 8 /\ Y(j) = 8 * (y + (j - 9))
      /\ \A j \in DialogItems : X(j) = 8 => j \in 9..n
    <2>1. PlacedAsDialog(P, y)
        BY <1>1, DialogPlaces
    <2> HIDE DEF P
    <2>2. \A j \in 9..n : X(j) = 8 /\ Y(j) = 8 * (y + (j - 9))
        BY <2>1 DEF PlacedAsDialog
    <2>3. /\ X(1) = 0 /\ X(2) = 0 /\ X(3) = 0 /\ X(4) = 0 /\ X(5) = 64 /\ X(6) = 0 /\ X(7) = 0 /\ X(8) = 0
          /\ \A j \in DialogItems :
                j = 1 \/ j = 2 \/ j = 3 \/ j = 4 \/ j = 5 \/ j = 6 \/ j = 7 \/ j = 8 \/ j \in 9..n
        BY <2>1 DEF PlacedAsDialog
    <2> HIDE DEF X, Y, n
    <2>4. \A j \in DialogItems : X(j) = 8 => j \in 9..n
        BY <2>3
    <2> QED BY <2>2, <2>4
<1>3. \A at \in C : Leads(C, P, U, at)
    BY DEF IsDialog
<1>4. Rows(k) = 9..(8 + k)
    <2>1. \A j \in 9..(8 + k) : j - 8 \in 1..k /\ j = 8 + (j - 8)
        BY <1>1
    <2>2. \A i \in 1..k : 8 + i \in 9..(8 + k)
        BY <1>1
    <2> QED BY <2>1, <2>2 DEF Rows
<1> HIDE DEF P, R, n, m
<1>5. ASSUME NEW j \in (9 + 1)..(8 + k), j - 1 \in C PROVE j \in C
    <2>1. j \in 9..n /\ j - 1 \in 9..n /\ j \in Nat /\ j \in U /\ (j - 1) - 9 = j - 10
        BY <1>1, <1>4 DEF n
    <2>2. X(j) = 8 /\ X(j - 1) = 8 /\ Y(j) = 8 * (y + (j - 9)) /\ Y(j - 1) = 8 * (y + (j - 10))
        BY <1>2, <2>1
    <2>3. P[j][1] = P[j - 1][1] /\ P[j][2] > P[j - 1][2]
        BY <1>1, <2>1, <2>2
    <2>4. PICK r \in C \cap U : P[r][1] = P[j - 1][1] /\ P[r][2] > P[j - 1][2] /\ P[r][2] <= P[j][2]
        <3> DEFINE at == j - 1
        <3>1. at \in C /\ Leads(C, P, U, at) /\ j \in U /\ P[j][1] = P[at][1] /\ P[j][2] > P[at][2]
            BY <1>3, <1>5, <2>1, <2>3
        <3> HIDE DEF at
        <3>2. \E r \in C \cap U : P[r][1] = P[at][1] /\ P[r][2] > P[at][2] /\ P[r][2] <= P[j][2]
            BY <1>1, <3>1, StraightDown
        <3> QED BY <3>2 DEF at
    <2>5. r \in 9..n /\ Y(r) = 8 * (y + (r - 9))
        BY <1>1, <1>2, <2>2, <2>4
    <2>6. r = j
        <3>1. Y(r) > Y(j - 1) /\ Y(r) <= Y(j)
            BY <2>4
        <3> HIDE DEF X, Y
        <3> QED BY <1>1, <2>1, <2>2, <2>5, <3>1
    <2> QED BY <2>4, <2>6
<1>6. CASE k > 0
    <2>1. 9 \in Int /\ 8 + k \in Int /\ 9 <= 8 + k
        BY <1>1, <1>6
    <2>2. \A j \in 9..(8 + k) : j \in C
        BY <1>5, <1>6, <2>1, EveryPlace
    <2> QED BY <1>4, <2>2
<1>7. CASE k = 0
    <2>1. Rows(k) = {}
        BY <1>7 DEF Rows
    <2> QED BY <2>1
<1> QED BY <1>1, <1>6, <1>7

(* What is above the rows: the name of the file, and what changes it.      *)
DialogHead(y) == IF y = 3 THEN {1, 2} ELSE 1..6

(* What can be used of the dialog. *)
DialogViews(y) ==
    {{1, 2}} \cup {DialogHead(y) \cup Rows(k) : k \in 0..DialogRows}
             \cup {DialogHead(y) \cup {7, 8} \cup Rows(DialogRows)}

(* All of the dialog that can be used is reached from anywhere in it: the *)
(* first column, from its end the rows, and from each row the next; with  *)
(* more rows than are shown the buttons that scroll them come first.      *)
LEMMA DialogReached ==
    ASSUME NEW y \in {3, 6}, NEW U \in DialogViews(y)
    PROVE  ReachesAll(8 + DialogRows, file_dialog(y), U)
<1> DEFINE P == file_dialog(y)
           R == DialogRows
           n == 8 + R
           m == 8 * (y + R) + 64
           X(j) == P[j][1]
           Y(j) == P[j][2]
<1>1. R \in Nat /\ R > 1 /\ n \in Nat /\ m \in Nat /\ DialogItems = 1..n /\ P \in Points(n, m)
    BY PagesAssumption, DialogPoints DEF DialogItems
<1>2. \A k \in 0..R : Rows(k) = 9..(8 + k) /\ Rows(k) \subseteq 9..n
    <2> SUFFICES ASSUME NEW k \in 0..R PROVE Rows(k) = 9..(8 + k) /\ Rows(k) \subseteq 9..n
        OBVIOUS
    <2>1. \A j \in 9..(8 + k) : j - 8 \in 1..k /\ j = 8 + (j - 8)
        BY <1>1
    <2>2. \A i \in 1..k : 8 + i \in 9..(8 + k) /\ 8 + i \in 9..n
        BY <1>1
    <2> QED BY <2>1, <2>2 DEF Rows
<1>3. DialogHead(y) \subseteq 1..6 /\ 1 \in DialogHead(y) /\ 2 \in DialogHead(y)
    BY DEF DialogHead
<1>4. U \subseteq DialogItems /\ 1 \in U /\ 2 \in U
    <2>1. 1..6 \subseteq 1..n /\ {1, 2} \subseteq 1..n /\ {7, 8} \subseteq 1..n /\ 9..n \subseteq 1..n /\ R \in 0..R
        BY <1>1
    <2> HIDE DEF n, R
    <2> QED BY <1>1, <1>2, <1>3, <2>1 DEF DialogViews, R
<1> SUFFICES ASSUME NEW C \in SUBSET (1..n), C # {}, Closed(C, P, U) PROVE U \subseteq C
    BY DEF ReachesAll
<1>5. IsDialog(y, U, C)
    <2>1. \A at \in C : Leads(C, P, U, at)
        <3> HIDE DEF P, n, m
        <3> QED BY <1>1, <1>4, ClosedLeads
    <2> QED BY <1>1, <1>4, <2>1 DEF IsDialog
<1>6. 1 \in C /\ 2 \in C
    BY <1>5, DialogTop
<1>7. CASE U = {1, 2}
    BY <1>6, <1>7
<1>8. ASSUME NEW k \in 0..R, NEW B \in {{}, {7, 8}}, B # {} => k = R, U = DialogHead(y) \cup B \cup Rows(k)
      PROVE  U \subseteq C
    <2>1. PlacedAsDialog(P, y)
        BY <1>1, DialogPlaces
    <2>2. \A at \in C : Leads(C, P, U, at)
        BY <1>5 DEF IsDialog
    <2> HIDE DEF P, m
    <2>3. /\ X(1) = 0 /\ X(2) = 0 /\ X(3) = 0 /\ X(4) = 0 /\ X(5) = 64 /\ X(6) = 0 /\ X(7) = 0 /\ X(8) = 0
          /\ Y(1) = 0 /\ Y(2) = 8 /\ Y(3) = 24 /\ Y(4) = 32 /\ Y(5) = 32 /\ Y(6) = 40
          /\ Y(7) = 8 * y /\ Y(8) = 8 * (y + R - 1)
          /\ \A j \in DialogItems :
                j = 1 \/ j = 2 \/ j = 3 \/ j = 4 \/ j = 5 \/ j = 6 \/ j = 7 \/ j = 8 \/ j \in 9..n
        BY <2>1 DEF PlacedAsDialog
    <2>4. \A j \in 9..n : X(j) = 8 /\ Y(j) = 8 * (y + (j - 9)) /\ Y(j) >= 8 * y /\ Y(j) \in Nat
        <3> SUFFICES ASSUME NEW j \in 9..n PROVE X(j) = 8 /\ Y(j) = 8 * (y + (j - 9)) /\ Y(j) >= 8 * y /\ Y(j) \in Nat
            OBVIOUS
        <3>1. X(j) = 8 /\ Y(j) = 8 * (y + (j - 9))
            BY <2>1 DEF PlacedAsDialog
        <3> HIDE DEF X, Y
        <3> QED BY <1>1, <3>1
    <2>5. Y(8) > Y(7) /\ Y(7) \in {24, 48} /\ Y(8) \in Nat
        <3> HIDE DEF X, Y
        <3> QED BY <1>1, <2>3
    <2> DEFINE Down(at, r, t) == X(r) = X(at) /\ Y(r) > Y(at) /\ Y(r) <= Y(t)
               Right(at, r, t) == Y(r) = Y(at) /\ X(r) > X(at) /\ X(r) <= X(t)
    <2>6. ASSUME NEW at \in C, NEW t \in U, X(t) = X(at), Y(t) > Y(at) PROVE \E r \in C \cap U : Down(at, r, t)
        <3> HIDE DEF n
        <3> QED BY <1>1, <1>4, <2>2, <2>6, StraightDown
    <2>7. ASSUME NEW at \in C, NEW t \in U, Y(t) = Y(at), X(t) > X(at) PROVE \E r \in C \cap U : Right(at, r, t)
        <3> HIDE DEF n
        <3> QED BY <1>1, <1>4, <2>2, <2>7, StraightRight
    <2>8. \A r \in U : r \in DialogItems
        BY <1>4
    <2> HIDE DEF X, Y, n, R
    <2>9. DialogHead(y) \subseteq C
        <3>1. CASE y = 3
            BY <1>6, <3>1 DEF DialogHead
        <3>2. CASE y = 6
            <4>1. 3 \in U /\ 4 \in U /\ 5 \in U /\ 6 \in U
                BY <1>8, <3>2 DEF DialogHead
            <4>2. Y(7) = 48
                BY <2>3, <3>2
            <4>3. 3 \in C
                <5>1. PICK r \in C \cap U : Down(2, r, 3)
                    BY <1>6, <2>3, <2>6, <4>1
                <5> QED BY <2>3, <2>4, <2>5, <2>8, <4>2, <5>1, <3>2
            <4>4. 4 \in C
                <5>1. PICK r \in C \cap U : Down(3, r, 4)
                    BY <2>3, <2>6, <4>1, <4>3
                <5> QED BY <2>3, <2>4, <2>5, <2>8, <4>2, <5>1, <3>2
            <4>5. 6 \in C
                <5>1. PICK r \in C \cap U : Down(4, r, 6)
                    BY <2>3, <2>6, <4>1, <4>4
                <5> QED BY <2>3, <2>4, <2>5, <2>8, <4>2, <5>1, <3>2
            <4>6. 5 \in C
                <5>1. PICK r \in C \cap U : Right(4, r, 5)
                    BY <2>3, <2>7, <4>1, <4>4
                <5> QED BY <2>3, <2>4, <2>5, <2>8, <4>2, <5>1, <3>2
            <4> QED BY <1>6, <3>2, <4>3, <4>4, <4>5, <4>6 DEF DialogHead
        <3> QED BY <3>1, <3>2
    <2> DEFINE last == IF y = 3 THEN 2 ELSE 6
    <2>10. /\ last \in C /\ X(last) = 0 /\ Y(last) < Y(7) /\ Y(last) \in Nat
           /\ \A j \in DialogHead(y) : X(j) = 0 => Y(j) <= Y(last)
        <3>1. CASE y = 3
            <4>1. Y(7) = 24 /\ DialogHead(y) = {1, 2} /\ last = 2
                BY <2>3, <3>1 DEF DialogHead
            <4> HIDE DEF last
            <4> QED BY <1>6, <2>3, <4>1
        <3>2. CASE y = 6
            <4>1. Y(7) = 48 /\ DialogHead(y) = 1..6 /\ last = 6
                BY <2>3, <3>2 DEF DialogHead
            <4>2. 6 \in C /\ \A j \in 1..6 : j = 1 \/ j = 2 \/ j = 3 \/ j = 4 \/ j = 5 \/ j = 6
                BY <2>9, <4>1
            <4> HIDE DEF last
            <4> QED BY <2>3, <4>1, <4>2
        <3> QED BY <3>1, <3>2
    <2> HIDE DEF last
    <2>11. B \subseteq C
        <3> SUFFICES ASSUME B = {7, 8} PROVE 7 \in C /\ 8 \in C
            BY <1>8
        <3>1. 7 \in U /\ 8 \in U
            BY <1>8
        <3>2. 7 \in C
            <4>1. PICK r \in C \cap U : Down(last, r, 7)
                BY <2>3, <2>6, <2>10, <3>1
            <4>2. r \notin DialogHead(y) /\ r # 8 /\ r \notin 9..n
                BY <2>3, <2>4, <2>5, <2>10, <4>1
            <4>3. r \in DialogHead(y) \/ r = 7 \/ r = 8 \/ r \in Rows(k)
                BY <1>8, <4>1
            <4>4. r = 7
                BY <1>2, <4>2, <4>3 DEF R, n
            <4> QED BY <4>1, <4>4
        <3>3. 8 \in C
            <4>1. PICK r \in C \cap U : Down(7, r, 8)
                BY <2>3, <2>5, <2>6, <3>1, <3>2
            <4>2. r \notin DialogHead(y) /\ r # 7 /\ r \notin 9..n
                BY <2>3, <2>4, <2>5, <2>10, <4>1
            <4>3. r \in DialogHead(y) \/ r = 7 \/ r = 8 \/ r \in Rows(k)
                BY <1>8, <4>1
            <4>4. r = 8
                BY <1>2, <4>2, <4>3 DEF R, n
            <4> QED BY <4>1, <4>4
        <3> QED BY <3>2, <3>3
    <2>12. ASSUME k > 0 PROVE 9 \in C
        <3>1. 9 \in U /\ 9 \in 9..n /\ X(9) = 8 /\ Y(9) = Y(7)
            <4>1. 9 \in 9..(8 + k) /\ 9 \in 9..n
                BY <1>1, <2>12 DEF R, n
            <4>2. 9 \in Rows(k)
                BY <1>2, <4>1 DEF R
            <4>3. Y(9) = 8 * (y + 0)
                BY <2>4, <4>1
            <4> QED BY <1>1, <1>8, <2>3, <2>4, <4>1, <4>2, <4>3
        <3>2. CASE B = {7, 8}
            <4>1. PICK r \in C \cap U : Right(7, r, 9)
                BY <2>3, <2>7, <2>11, <3>1, <3>2
            <4>2. r \in 9..n
                BY <2>3, <2>4, <2>5, <2>8, <4>1, <3>1
            <4>3. r = 9
                BY <1>1, <2>3, <2>4, <3>1, <4>1, <4>2, SMTT(20) DEF n
            <4> QED BY <4>1, <4>3
        <3>3. CASE B = {}
            <4>1. Y(9) > Y(last)
                BY <2>10, <3>1
            <4>2. PICK r \in C : DownTo(P, U, last, r)
                <5>1. \E i \in U : P[i][2] > P[last][2]
                    BY <3>1, <4>1 DEF Y
                <5> QED BY <2>2, <2>10, <5>1 DEF Leads
            <4>3. /\ r \in U /\ Y(r) > Y(last)
                  /\ \/ Abs(X(r) - X(last)) < Abs(X(9) - X(last))
                     \/ Abs(X(r) - X(last)) = Abs(X(9) - X(last)) /\ (Y(r) < Y(9) \/ (Y(r) = Y(9) /\ r <= 9))
                BY <3>1, <4>1, <4>2 DEF DownTo, X, Y
            <4>4. r \in DialogHead(y) \/ r \in 9..n
                BY <1>2, <1>8, <3>3, <4>3 DEF R, n
            <4>5. r \notin DialogHead(y)
                <5> SUFFICES ASSUME r \in DialogHead(y) PROVE FALSE
                    OBVIOUS
                <5>1. X(r) = 0 \/ X(r) = 64
                    BY <1>3, <2>3
                <5>2. X(r) # 0 /\ Y(r) \in Int
                    BY <1>3, <2>3, <2>10, <4>3
                <5> QED BY <2>10, <3>1, <4>3, <5>1, <5>2 DEF Abs
            <4>6. X(r) = 8 /\ Y(r) <= Y(9)
                BY <2>4, <2>10, <3>1, <4>3, <4>4, <4>5 DEF Abs
            <4>7. r = 9
                BY <1>1, <2>3, <2>4, <3>1, <4>4, <4>5, <4>6 DEF n
            <4> QED BY <4>7, <4>2
        <3> QED BY <3>2, <3>3
    <2>13. Rows(k) \subseteq C
        <3>1. \A j \in U : j \in 9..(8 + DialogRows) => j \in Rows(k)
            <4>1. \A j \in 9..(8 + DialogRows) : j \notin 1..6 /\ j # 7 /\ j # 8
                BY <1>1 DEF R
            <4> QED BY <1>3, <1>8, <4>1
        <3>2. Rows(k) \subseteq U /\ k \in 0..DialogRows
            BY <1>8 DEF R
        <3> QED BY <1>5, <2>12, <3>1, <3>2, DialogRowsReached
    <2> QED BY <1>8, <2>9, <2>11, <2>13
<1>9. CASE U \in {DialogHead(y) \cup Rows(k) : k \in 0..R}
    <2>1. PICK k \in 0..R : U = DialogHead(y) \cup {} \cup Rows(k)
        BY <1>9
    <2> HIDE DEF R
    <2>2. {} \in {{}, {7, 8}} /\ ({} # {} => k = R)
        OBVIOUS
    <2> QED BY <1>8, <2>1, <2>2
<1>10. CASE U = DialogHead(y) \cup {7, 8} \cup Rows(R)
    <2>1. R \in 0..R /\ {7, 8} \in {{}, {7, 8}}
        BY <1>1
    <2> HIDE DEF R
    <2> QED BY <1>8, <1>10, <2>1
<1> QED BY <1>7, <1>9, <1>10 DEF DialogViews

(* The pages that are as long as a constant of the module says; the others *)
(* are what they are.                                                      *)
GrowingPages == {"category", "scene_entrances", "watches", "load", "save"}

(* Such a page can be navigated to the last item. *)
Navigable(page) ==
    \E n \in Nat \ {0}, m \in Nat :
        /\ Pages[page] \in Points(n, m)
        /\ \A view \in Views(page) : view \subseteq 1..n /\ ReachesAll(n, Pages[page], view)

(* The pages of each kind are such. *)
LEMMA CategoryNavigable == Navigable("category") /\ Navigable("scene_entrances")
<1> DEFINE n == CategorySize + 1
<1>1. CategorySize \in Nat /\ n \in Nat \ {0} /\ 9 * CategorySize \in Nat /\ CategoryItems = 1..n
    BY PagesAssumption DEF CategoryItems
<1>2. Pages["category"] = category_menu /\ Pages["scene_entrances"] = category_menu
    BY DEF Pages
<1>3. category_menu \in Points(n, 9 * CategorySize) /\ DOMAIN category_menu = 1..n
    BY CategoryPoints DEF Points
<1>4. Views("category") = {1..n} /\ Views("scene_entrances") = {1..n}
    BY <1>2, <1>3 DEF Views
<1> QED BY <1>1, <1>2, <1>3, <1>4, CategoryReached DEF Navigable

(* The page of watches, whichever of them float. *)
LEMMA WatchesNavigable == Navigable("watches")
<1> DEFINE n == 2 + 6 * WatchRows
<1>1. WatchRows \in Nat /\ n \in Nat \ {0} /\ 16 * WatchRows + 112 \in Nat /\ WatchItems = 1..n
    BY PagesAssumption DEF WatchItems
<1>2. Pages["watches"] = watches_menu
    BY DEF Pages
<1>3. watches_menu \in Points(n, 16 * WatchRows + 112) /\ DOMAIN watches_menu = 1..n
    BY WatchPoints DEF Points
<1>4. ASSUME NEW view \in Views("watches") PROVE view \subseteq 1..n /\ ReachesAll(n, watches_menu, view)
    <2>1. Views("watches") = {UsableOfWatches(fixed) : fixed \in SUBSET (1..WatchRows)}
        BY <1>1, <1>2, <1>3 DEF Views, UsableOfWatches, ItemOf
    <2>2. PICK fixed \in SUBSET (1..WatchRows) : view = UsableOfWatches(fixed)
        BY <1>4, <2>1
    <2>3. view \subseteq 1..n
        BY <1>1, <2>2 DEF UsableOfWatches
    <2> QED BY <2>2, <2>3, WatchesReached
<1> HIDE DEF n
<1> QED BY <1>1, <1>2, <1>3, <1>4 DEF Navigable

(* The dialogs that load and save. *)
LEMMA DialogsNavigable == Navigable("load") /\ Navigable("save")
<1> DEFINE R == DialogRows
           n == 8 + R
           m(y) == 8 * (y + R) + 64
<1>1. R \in Nat /\ R > 1 /\ n \in Nat \ {0} /\ m(3) \in Nat /\ m(6) \in Nat /\ DialogItems = 1..n
    BY PagesAssumption DEF DialogItems
<1>2. Pages["load"] = file_dialog(3) /\ Pages["save"] = file_dialog(6)
    BY DEF Pages
<1>3. /\ file_dialog(3) \in Points(n, m(3)) /\ DOMAIN file_dialog(3) = 1..n
      /\ file_dialog(6) \in Points(n, m(6)) /\ DOMAIN file_dialog(6) = 1..n
    BY DialogPoints DEF Points
<1>4. 1..n = 1..6 \cup {7, 8} \cup Rows(R)
    <2>1. \A j \in 9..n : j - 8 \in 1..R /\ j = 8 + (j - 8)
        BY <1>1
    <2>2. \A i \in 1..R : 8 + i \in 1..n
        BY <1>1
    <2>3. \A j \in 1..n : j \in 1..6 \/ j = 7 \/ j = 8 \/ j \in 9..n
        BY <1>1
    <2>4. 1..6 \subseteq 1..n /\ {7, 8} \subseteq 1..n
        BY <1>1
    <2> HIDE DEF n, R
    <2> QED BY <2>1, <2>2, <2>3, <2>4 DEF Rows
<1>5. \A k \in 0..R : Rows(k) \subseteq Rows(R)
    BY <1>1 DEF Rows
<1>6. Views("load") \subseteq DialogViews(3)
    <2>1. \A k \in 0..R : {1, 2} \cup Rows(k) \in DialogViews(3)
        BY DEF DialogViews, DialogHead
    <2>2. {1, 2, 7, 8} \cup Rows(R) \in DialogViews(3)
        <3>1. {1, 2, 7, 8} \cup Rows(R) = {1, 2} \cup {7, 8} \cup Rows(R)
            OBVIOUS
        <3> QED BY <3>1 DEF DialogViews, DialogHead
    <2>3. {1, 2} \in DialogViews(3)
        BY DEF DialogViews
    <2> HIDE DEF R
    <2> QED BY <2>1, <2>2, <2>3 DEF Views, R
<1>7. Views("save") \subseteq DialogViews(6)
    <2>1. \A k \in 0..R : (1..6) \cup Rows(k) \in DialogViews(6)
        BY DEF DialogViews, DialogHead
    <2>2. 1..n \in DialogViews(6)
        BY <1>4 DEF DialogViews, DialogHead
    <2>3. {1, 2} \in DialogViews(6)
        BY DEF DialogViews
    <2> HIDE DEF R
    <2>4. Views("save") = {{1, 2}} \cup {(1..6) \cup Rows(k) : k \in 0..R} \cup {1..n}
        BY <1>2, <1>3 DEF Views, R
    <2> HIDE DEF n
    <2> QED BY <2>1, <2>2, <2>3, <2>4
<1>8. ASSUME NEW y \in {3, 6}, NEW view \in DialogViews(y)
      PROVE  view \subseteq 1..n /\ ReachesAll(n, file_dialog(y), view)
    <2>1. \A k \in 0..R : DialogHead(y) \cup Rows(k) \subseteq 1..n
        <3> HIDE DEF n, R
        <3> QED BY <1>4, <1>5 DEF DialogHead
    <2>2. DialogHead(y) \cup {7, 8} \cup Rows(R) \subseteq 1..n /\ {1, 2} \subseteq 1..n
        <3> HIDE DEF n, R
        <3> QED BY <1>4 DEF DialogHead
    <2>3. view \subseteq 1..n
        <3> HIDE DEF n, R
        <3> QED BY <1>8, <2>1, <2>2 DEF DialogViews, R
    <2> QED BY <2>3, DialogReached
<1> HIDE DEF n, m
<1> QED BY <1>1, <1>2, <1>3, <1>6, <1>7, <1>8 DEF Navigable

(* So every page that grows can be navigated. *)
LEMMA GrowingNavigable ==
    \A page \in GrowingPages : Navigable(page) /\ page \in DOMAIN Pages
<1>1. \A page \in GrowingPages : page \in DOMAIN Pages
    BY DEF GrowingPages, Pages
<1> QED BY <1>1, CategoryNavigable, WatchesNavigable, DialogsNavigable DEF GrowingPages

(* What the directions do on such a page. *)
LEMMA GrowingMoves ==
    ASSUME NEW page \in GrowingPages, NEW view \in Views(page), NEW at \in DOMAIN Pages[page]
    PROVE  /\ Moves[page][view][at] \subseteq DOMAIN Pages[page]
           /\ view \subseteq LedTo(Moves[page][view], at)
<1>1. PICK n \in Nat \ {0}, m \in Nat :
            /\ Pages[page] \in Points(n, m)
            /\ \A v \in Views(page) : v \subseteq 1..n /\ ReachesAll(n, Pages[page], v)
    BY GrowingNavigable DEF Navigable
<1> DEFINE P == Pages[page]
           moves == MovesOf(n, P, view)
<1>2. DOMAIN P = 1..n /\ view \in SUBSET (1..n) /\ at \in 1..n /\ P \in Points(n, m)
    BY <1>1 DEF Points
<1>3. Moves[page][view] = moves
    BY <1>2, GrowingNavigable DEF Moves, MovesOf
<1> HIDE DEF P
<1>4. moves[at] \subseteq 1..n
    <2> SUFFICES ASSUME NEW nav \in Navs PROVE Navigated(P, view, at, nav) \in 1..n
        BY <1>2 DEF MovesOf
    <2>1. Navigated(P, view, at, nav) \in view \cup {at}
        BY <1>1, <1>2, NavigatesWithin
    <2> QED BY <1>2, <2>1
<1>5. /\ at \in LedTo(moves, at) /\ LedTo(moves, at) \in SUBSET (1..n)
      /\ Closed(LedTo(moves, at), P, view)
    BY <1>1, <1>2, ReachedClosed
<1>6. ReachesAll(n, P, view)
    BY <1>1 DEF P
<1> HIDE DEF moves
<1>7. view \subseteq LedTo(moves, at)
    BY <1>5, <1>6 DEF ReachesAll
<1> QED BY <1>2, <1>3, <1>4, <1>7 DEF P

(* The cursor is on an item of its page, on those and on the pages below,  *)
(* and what can be used is what that page can show.                        *)
CursorOnItem(visit) ==
    /\ visit = [page |-> visit.page, at |-> visit.at]
    /\ visit.page \in GrowingPages => visit.at \in DOMAIN Pages[visit.page]
(* So are they all the way up to the main menu. *)
PathInv ==
    /\ \E S : path \in Seq(S)
    /\ Len(path) > 0
    /\ \A k \in 1..Len(path) : CursorOnItem(path[k])
    /\ Here.page \in GrowingPages => usable \in Views(Here.page)

(* It holds of the main menu, and is kept by what enters, leaves and moves.*)
LEMMA PathInit == PageInit => PathInv
<1> SUFFICES ASSUME PageInit PROVE PathInv
    OBVIOUS
<1> DEFINE visit == [page |-> "main", at |-> 1]
<1>1. path = <<visit>> /\ path \in Seq({visit}) /\ Len(path) = 1 /\ path[1] = visit
    BY DEF PageInit
<1>2. visit.page = "main" /\ visit.at = 1 /\ "main" \notin GrowingPages
    BY DEF GrowingPages
<1>3. CursorOnItem(visit)
    BY <1>2 DEF CursorOnItem
<1> HIDE DEF visit
<1>4. \E S : path \in Seq(S)
    BY <1>1
<1>5. Here = visit /\ \A k \in 1..Len(path) : path[k] = visit
    BY <1>1 DEF Here
<1> QED BY <1>1, <1>2, <1>3, <1>4, <1>5 DEF PathInv

(* Every step keeps it. *)
LEMMA PathNext == PathInv /\ [PageNext]_PageVars => PathInv'
<1> SUFFICES ASSUME PathInv, [PageNext]_PageVars PROVE PathInv'
    OBVIOUS
<1>1. PICK S : path \in Seq(S)
    BY DEF PathInv
<1> DEFINE n == Len(path)
<1>2. n \in Nat /\ n > 0 /\ DOMAIN path = 1..n /\ n \in 1..n /\ Here = path[n] /\ path \in [1..n -> S]
    BY <1>1, LenProperties DEF PathInv, Here
<1>3. \A k \in 1..n : CursorOnItem(path[k])
    BY DEF PathInv
<1>4. CASE menu_navigate
    <2>1. PICK to \in Moves[Here.page][usable][Here.at] : path' = [path EXCEPT ![n].at = to]
        BY <1>4 DEF menu_navigate
    <2> DEFINE visit == [path[n] EXCEPT !.at = to]
    <2>2. visit = [page |-> path[n].page, at |-> to]
        <3>1. path[n] = [page |-> path[n].page, at |-> path[n].at]
            BY <1>2, <1>3 DEF CursorOnItem
        <3> QED BY <3>1
    <2>3. path' = [path EXCEPT ![n] = visit]
        BY <2>1
    <2> HIDE DEF visit
    <2>4. path' \in Seq(S \cup {visit}) /\ Len(path') = n /\ path'[n] = visit
          /\ \A k \in 1..n : k # n => path'[k] = path[k]
        <3>1. path \in Seq(S \cup {visit})
            BY <1>1, <1>2
        <3>2. /\ path' \in Seq(S \cup {visit}) /\ Len(path') = Len(path)
              /\ \A k \in 1..Len(path) : path'[k] = IF k = n THEN visit ELSE path[k]
            BY <1>2, <2>3, <3>1, ExceptSeq
        <3> QED BY <1>2, <3>2
    <2>5. visit.page = Here.page /\ visit.at = to
        BY <1>2, <2>2
    <2>6. CursorOnItem(visit)
        <3>1. visit.page \in GrowingPages => to \in DOMAIN Pages[visit.page]
            <4> SUFFICES ASSUME visit.page \in GrowingPages PROVE to \in DOMAIN Pages[visit.page]
                OBVIOUS
            <4>1. Here.page \in GrowingPages /\ usable \in Views(Here.page) /\ Here.at \in DOMAIN Pages[Here.page]
                BY <1>2, <1>3, <2>5 DEF PathInv, CursorOnItem
            <4> QED BY <2>1, <2>5, <4>1, GrowingMoves
        <3> QED BY <2>2, <2>5, <3>1 DEF CursorOnItem
    <2>7. Here'.page = Here.page /\ usable' = usable
        BY <1>4, <2>4, <2>5 DEF menu_navigate, Here
    <2>8. \A k \in 1..n : CursorOnItem(path'[k])
        BY <1>3, <2>4, <2>6
    <2>9. Here'.page \in GrowingPages => usable' \in Views(Here'.page)
        BY <2>7 DEF PathInv
    <2>10. \E Q : path' \in Seq(Q)
        BY <2>4
    <2> QED BY <1>2, <2>4, <2>8, <2>9, <2>10 DEF PathInv, CursorOnItem
<1>5. CASE Enter
    <2>0. PICK door \in Doors : \E view \in Views(door[3]) :
            /\ usable' = view
            /\ \E at \in IF door[3] \in {"keyboard", "load", "save"} THEN {1} ELSE view :
                  path' = Append(path, [page |-> door[3], at |-> at])
        BY <1>5 DEF Enter
    <2>1. PICK view \in Views(door[3]) :
            /\ usable' = view
            /\ \E at \in IF door[3] \in {"keyboard", "load", "save"} THEN {1} ELSE view :
                  path' = Append(path, [page |-> door[3], at |-> at])
        BY <2>0
    <2>2. PICK at \in IF door[3] \in {"keyboard", "load", "save"} THEN {1} ELSE view :
                  path' = Append(path, [page |-> door[3], at |-> at])
        BY <2>1
    <2> DEFINE visit == [page |-> door[3], at |-> at]
    <2>3. visit.page = door[3] /\ visit.at = at
        OBVIOUS
    <2>4. CursorOnItem(visit)
        <3>1. visit.page \in GrowingPages => at \in DOMAIN Pages[visit.page]
            <4> SUFFICES ASSUME door[3] \in GrowingPages PROVE at \in DOMAIN Pages[door[3]]
                OBVIOUS
            <4>1. PICK l \in Nat \ {0}, m \in Nat :
                    /\ Pages[door[3]] \in Points(l, m)
                    /\ \A v \in Views(door[3]) : v \subseteq 1..l /\ ReachesAll(l, Pages[door[3]], v)
                BY GrowingNavigable DEF Navigable
            <4>2. DOMAIN Pages[door[3]] = 1..l /\ view \subseteq 1..l /\ 1 \in 1..l
                BY <2>1, <4>1 DEF Points
            <4> QED BY <2>2, <4>2
        <3> QED BY <2>3, <3>1 DEF CursorOnItem
    <2> HIDE DEF visit
    <2>5. path' \in Seq(S \cup {visit}) /\ Len(path') = n + 1 /\ path'[n + 1] = visit
          /\ \A k \in 1..n : path'[k] = path[k]
        <3>1. path \in Seq(S \cup {visit}) /\ path' = Append(path, visit)
            BY <1>1, <1>2, <2>2 DEF visit
        <3> QED BY <3>1, AppendProperties
    <2>6. \A k \in 1..(n + 1) : CursorOnItem(path'[k])
        <3>1. \A k \in 1..(n + 1) : k = n + 1 \/ k \in 1..n
            BY <1>2
        <3> QED BY <1>3, <2>4, <2>5, <3>1
    <2>7. Here' = visit /\ usable' \in Views(visit.page)
        BY <2>1, <2>3, <2>5 DEF Here
    <2>8. \E Q : path' \in Seq(Q)
        BY <2>5
    <2>9. n + 1 > 0
        BY <1>2
    <2> QED BY <2>5, <2>6, <2>7, <2>8, <2>9 DEF PathInv, CursorOnItem
<1>6. CASE menu_return
    <2>1. n > 1 /\ path' = SubSeq(path, 1, n - 1) /\ usable' \in Views(path[n - 1].page)
        BY <1>6 DEF menu_return
    <2>2. 1 \in Int /\ n - 1 \in Nat /\ n - 1 <= n /\ \A k \in 1..(n - 1) : k \in 1..n /\ k + 1 - 1 = k
        BY <1>2
    <2>3. path' \in Seq(S) /\ Len(path') = n - 1 /\ \A k \in 1..(n - 1) : path'[k] = path[k]
        <3>1. SubSeq(path, 1, n - 1) \in Seq(S) /\ Len(SubSeq(path, 1, n - 1)) = n - 1
              /\ \A k \in 1..(n - 1) : SubSeq(path, 1, n - 1)[k] = path[k]
            BY <1>1, <1>2, <2>2
        <3> QED BY <2>1, <3>1
    <2>4. Here' = path[n - 1] /\ n - 1 > 0
        BY <1>2, <2>1, <2>3 DEF Here
    <2>5. \A k \in 1..(n - 1) : CursorOnItem(path'[k])
        BY <1>3, <2>2, <2>3
    <2>6. \E Q : path' \in Seq(Q)
        BY <2>3
    <2> QED BY <2>1, <2>3, <2>4, <2>5, <2>6 DEF PathInv, CursorOnItem
<1>7. CASE Changes
    <2>1. path' = path /\ usable' \in Views(Here.page)
        BY <1>7 DEF Changes
    <2> QED BY <2>1 DEF PathInv, CursorOnItem, Here
<1>8. CASE UNCHANGED PageVars
    BY <1>8 DEF PageVars, PathInv, CursorOnItem, Here
<1> QED BY <1>4, <1>5, <1>6, <1>7, <1>8 DEF PageNext

(* On a page whose length a constant gives, however long it is and         *)
(* wherever the cursor is left on it, the directions lead to every item    *)
(* that can be used (menu_navigate of src/src/menu.c).                     *)
THEOREM GrowingPagesReached == PageSpec => [](Here.page \in GrowingPages => EveryItemReached)
<1>1. PathInv => (Here.page \in GrowingPages => EveryItemReached)
    <2> SUFFICES ASSUME PathInv, Here.page \in GrowingPages PROVE EveryItemReached
        OBVIOUS
    <2>1. usable \in Views(Here.page)
        BY DEF PathInv
    <2>2. Len(path) \in 1..Len(path)
        <3>1. PICK S : path \in Seq(S)
            BY DEF PathInv
        <3> QED BY <3>1, LenProperties DEF PathInv
    <2>3. Here.at \in DOMAIN Pages[Here.page]
        BY <2>2 DEF PathInv, CursorOnItem, Here
    <2> QED BY <2>1, <2>3, GrowingMoves DEF EveryItemReached
<1> QED BY PathInit, PathNext, <1>1, PTL DEF PageSpec
=============================================================================
