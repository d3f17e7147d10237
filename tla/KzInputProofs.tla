----------------------------- MODULE KzInputProofs -----------------------------
(***************************************************************************)
(* The combinations start as they are entered, and a row that records one  *)
(* has the pad to itself, for any commands, bindings and number of frames  *)
(* until a button repeats.                                                 *)
(***************************************************************************)
EXTENDS KzInput, KzLemmas

(* The components that are down are the first ones of the binding, they    *)
(* went down in order, and a combination that is wholly down has started.  *)
Entered(c) ==
    LET down == bind_component_state[c]
        b    == binds[c]
    IN  /\ down \subseteq DOMAIN b
        /\ \A i, j \in DOMAIN b :
             i < j /\ j \in down => i \in down /\ button_time[b[i]] >= button_time[b[j]]
        /\ down = DOMAIN b => c \in bind_held

(* What is seen of the pad while a row waits for it.                       *)
RowsWait ==
    /\ pc = "input" => bind_pressed_raw = {}
    /\ ~input_enabled => bind_pressed_raw = {}
    /\ pc = "menu" /\ ~input_enabled => \A c \in Commands : bind_component_state[c] = {}
    /\ \A r \in Rows : row_state[r] = "ACTION" =>
         IF pc = "input" THEN pad_cur = {} ELSE pad_cur = pad_pressed_raw
    /\ \A r \in Rows : row_state[r] = "LISTENING" => binds[r] # <<>>

BindsEntered == \A c \in Commands : binds[c] # <<>> => Entered(c)

InputInv ==
    TypeOK /\ RecordingOwnsInput /\ RowsWait /\ BindsEntered /\ StartsAsEntered

-----------------------------------------------------------------------------
(* The buttons of a set in the order of their numbers, each of them once. *)
LEMMA IndexOrder ==
    ASSUME NEW S \in SUBSET Buttons
    PROVE  /\ InIndexOrder(S) \in Seq(S) /\ Len(InIndexOrder(S)) = Cardinality(S)
           /\ Cardinality(S) \in Nat /\ (S # {} => Cardinality(S) # 0)
           /\ \A i, j \in 1..Cardinality(S) : InIndexOrder(S)[i] = InIndexOrder(S)[j] => i = j
<1> DEFINE rank(b) == Cardinality({x \in S : x < b})
           n == Cardinality(S)
           order == InIndexOrder(S)
<1>1. IsFiniteSet(S) /\ S \in SUBSET Nat
    BY InputAssumption, FS_Subset
<1>2. n \in Nat /\ (S # {} => n # 0)
    BY <1>1, FS_CardinalityType, FS_EmptySet
<1>3. ASSUME NEW i \in 1..n PROVE \E b \in S : rank(b) = i - 1
    <2>1. i - 1 \in 0..(n - 1)
        BY <1>2
    <2> QED BY <1>1, <2>1, EveryRankTaken
<1>4. order = [i \in 1..n |-> CHOOSE b \in S : rank(b) = i - 1]
    BY DEF InIndexOrder
<1> HIDE DEF rank, n, order
<1>5. \A i \in 1..n : order[i] \in S /\ rank(order[i]) = i - 1
    BY <1>3, <1>4
<1>6. order \in Seq(S) /\ Len(order) = n
    <2>1. order = [i \in 1..n |-> order[i]]
        BY <1>4
    <2> QED BY <1>2, <1>5, <2>1, IsASeq
<1>7. \A i, j \in 1..n : order[i] = order[j] => i = j
    <2> SUFFICES ASSUME NEW i \in 1..n, NEW j \in 1..n, order[i] = order[j] PROVE i = j
        OBVIOUS
    <2>1. i - 1 = j - 1
        BY <1>5
    <2> QED BY <1>2, <2>1
<1> QED BY <1>2, <1>6, <1>7 DEF n, order

(* A binding that is extended stays one, and goes on as it began. *)
LEMMA ExtendedIsBind ==
    ASSUME NEW b, IsBind(b)
    PROVE  /\ IsBind(Extended(b)) /\ Len(b) <= Len(Extended(b))
           /\ SubSeq(Extended(b), 1, Len(b)) = b
           /\ b = <<>> /\ pad_pressed_raw # {} => Extended(b) # <<>>
<1> DEFINE S == pad_pressed_raw \ bind_get_bitmask(b)
           order == InIndexOrder(S)
           all == b \o order
           n == IF Len(all) < BIND_MAX THEN Len(all) ELSE BIND_MAX
           longer == SubSeq(all, 1, n)
<1>1. /\ b \in Seq(Buttons) /\ Len(b) \in Nat /\ Len(b) <= BIND_MAX /\ BIND_MAX \in Nat \ {0}
      /\ DOMAIN b = 1..Len(b)
      /\ \A i, j \in 1..Len(b) : b[i] = b[j] => i = j
    BY InputAssumption DEF IsBind
<1>2. S \in SUBSET Buttons
    BY DEF pad_pressed_raw
<1>3. /\ order \in Seq(S) /\ Len(order) = Cardinality(S)
      /\ Cardinality(S) \in Nat /\ (S # {} => Cardinality(S) # 0)
      /\ \A i, j \in 1..Cardinality(S) : order[i] = order[j] => i = j
    <2> HIDE DEF S
    <2> QED BY <1>2, IndexOrder
<1>4. \A i \in 1..Len(b) : b[i] \notin S /\ b[i] \in Buttons
    BY <1>1, ElementOfSeq DEF bind_get_bitmask
<1>5. b = <<>> => bind_get_bitmask(b) = {}
    BY EmptySeq, <1>1 DEF bind_get_bitmask
<1>6. b = <<>> /\ pad_pressed_raw # {} => S # {}
    BY <1>5
<1> HIDE DEF S, order
<1>7. \A i \in 1..Cardinality(S) : order[i] \in S /\ order[i] \in Buttons
    BY <1>2, <1>3, ElementOfSeq
<1>8. order \in Seq(Buttons)
    <2>1. order = [i \in 1..Len(order) |-> order[i]] /\ Len(order) \in Nat
        BY <1>3
    <2> QED BY <1>3, <1>7, <2>1, IsASeq
<1>9. /\ all \in Seq(Buttons) /\ Len(all) = Len(b) + Cardinality(S)
      /\ \A i \in 1..(Len(b) + Cardinality(S)) :
           all[i] = IF i <= Len(b) THEN b[i] ELSE order[i - Len(b)]
    BY <1>1, <1>3, <1>8, ConcatProperties
<1> HIDE DEF all
<1>10. n \in Nat /\ n <= BIND_MAX /\ Len(b) <= n /\ n <= Len(all) /\ (Len(all) # 0 => n # 0)
    BY <1>1, <1>3, <1>9
<1> HIDE DEF n
<1>11. \A i \in 1..n : all[i] \in Buttons
    BY <1>9, <1>10, ElementOfSeq
<1>12. /\ longer \in Seq(Buttons) /\ Len(longer) = n
       /\ \A i \in 1..n : longer[i] = all[i]
    <2>1. /\ longer \in Seq(Buttons) /\ Len(longer) = IF 1 <= n THEN n - 1 + 1 ELSE 0
          /\ \A i \in 1..(n - 1 + 1) : longer[i] = all[1 + i - 1]
        BY <1>10, <1>11, SubSeqProperties
    <2> HIDE DEF longer
    <2>2. \A i \in 1..n : 1 + i - 1 = i
        BY <1>10
    <2> QED BY <1>10, <2>1, <2>2
<1>13. Extended(b) = longer
    BY DEF Extended, longer, n, all, order, S
<1> HIDE DEF longer
<1>14. \A i, j \in 1..n : longer[i] = longer[j] => i = j
    <2> SUFFICES ASSUME NEW i \in 1..n, NEW j \in 1..n, all[i] = all[j] PROVE i = j
        BY <1>12
    <2>1. /\ i \in 1..(Len(b) + Cardinality(S)) /\ j \in 1..(Len(b) + Cardinality(S))
          /\ i \in Nat /\ j \in Nat
        BY <1>1, <1>3, <1>9, <1>10
    <2>2. CASE i <= Len(b) /\ j <= Len(b)
        <3>1. i \in 1..Len(b) /\ j \in 1..Len(b)
            BY <1>1, <2>1, <2>2
        <3> QED BY <1>1, <1>9, <2>1, <2>2, <3>1
    <2>3. CASE i <= Len(b) /\ ~(j <= Len(b))
        <3>1. i \in 1..Len(b) /\ j - Len(b) \in 1..Cardinality(S)
            BY <1>1, <1>3, <2>1, <2>3
        <3> QED BY <1>4, <1>7, <1>9, <2>1, <2>3, <3>1
    <2>4. CASE ~(i <= Len(b)) /\ j <= Len(b)
        <3>1. j \in 1..Len(b) /\ i - Len(b) \in 1..Cardinality(S)
            BY <1>1, <1>3, <2>1, <2>4
        <3> QED BY <1>4, <1>7, <1>9, <2>1, <2>4, <3>1
    <2>5. CASE ~(i <= Len(b)) /\ ~(j <= Len(b))
        <3>1. i - Len(b) \in 1..Cardinality(S) /\ j - Len(b) \in 1..Cardinality(S)
            BY <1>1, <1>3, <2>1, <2>5
        <3>2. i - Len(b) = j - Len(b)
            BY <1>3, <1>9, <2>1, <2>5, <3>1
        <3> QED BY <1>1, <2>1, <3>2
    <2> QED BY <2>2, <2>3, <2>4, <2>5
<1>15. IsBind(longer)
    <2>1. DOMAIN longer = 1..n
        BY <1>12
    <2> QED BY <1>10, <1>12, <1>14, <2>1 DEF IsBind
<1>16. SubSeq(longer, 1, Len(b)) = b
    <2> DEFINE start == SubSeq(longer, 1, Len(b))
    <2>1. \A i \in 1..Len(b) : longer[i] = b[i]
        <3>1. \A i \in 1..Len(b) : i \in 1..n /\ i <= Len(b) /\ i \in 1..(Len(b) + Cardinality(S))
            BY <1>1, <1>3, <1>10
        <3> QED BY <1>9, <1>12, <3>1
    <2>2. \A i \in 1..Len(b) : longer[i] \in Buttons
        BY <1>4, <2>1
    <2>3. /\ start \in Seq(Buttons)
          /\ Len(start) = IF 1 <= Len(b) THEN Len(b) - 1 + 1 ELSE 0
          /\ \A i \in 1..(Len(b) - 1 + 1) : start[i] = longer[1 + i - 1]
        BY <1>1, <2>2, SubSeqProperties
    <2> HIDE DEF start
    <2>4. Len(start) = Len(b) /\ \A i \in 1..Len(b) : i \in 1..(Len(b) - 1 + 1) /\ 1 + i - 1 = i
        BY <1>1, <2>3
    <2>5. start = b
        BY <1>1, <2>1, <2>3, <2>4, SeqEqual
    <2> QED BY <2>5 DEF start
<1>17. b = <<>> /\ pad_pressed_raw # {} => longer # <<>>
    <2> SUFFICES ASSUME b = <<>>, pad_pressed_raw # {} PROVE Len(longer) # 0
        BY EmptySeq
    <2>1. Cardinality(S) # 0
        BY <1>3, <1>6
    <2> QED BY <1>1, <1>3, <1>9, <1>10, <1>12, <2>1
<1> QED BY <1>10, <1>12, <1>13, <1>15, <1>16, <1>17

-----------------------------------------------------------------------------
(* input_update. *)

(* What a button's time becomes in a frame that finds pad down. *)
Later(pad, b) == IF b \in pad THEN Counted(button_time[b]) ELSE 0

LEMMA LaterTimes ==
    ASSUME button_time \in [Buttons -> 0..INPUT_REPEAT], NEW pad \in SUBSET Buttons, NEW b \in Buttons
    PROVE  /\ Later(pad, b) \in 0..INPUT_REPEAT
           /\ Later(pad, b) > 0 <=> b \in pad
           /\ b \in pad /\ button_time[b] = 0 => Later(pad, b) = 1
           /\ Later(pad, b) = 1 => b \in pad /\ button_time[b] = 0
           /\ \A a \in pad : button_time[a] >= button_time[b] /\ b \in pad
                => Later(pad, a) >= Later(pad, b)
<1>1. INPUT_REPEAT \in Nat /\ INPUT_REPEAT > 1
    BY InputAssumption
<1>2. \A a \in Buttons : button_time[a] \in 0..INPUT_REPEAT
    OBVIOUS
<1>3. \A n \in 0..INPUT_REPEAT :
        /\ Counted(n) \in 1..INPUT_REPEAT /\ (n = 0 <=> Counted(n) = 1)
        /\ \A m \in 0..INPUT_REPEAT : m >= n => Counted(m) >= Counted(n)
    BY <1>1 DEF Counted
<1>4. b \notin pad => Later(pad, b) = 0
    BY DEF Later
<1>5. \A a \in pad : a \in Buttons /\ Later(pad, a) = Counted(button_time[a])
    BY DEF Later
<1> QED BY <1>1, <1>2, <1>3, <1>4, <1>5

LEMMA StopProperties ==
    ASSUME NEW c \in Commands, IsBind(binds[c]), NEW pad
    PROVE  /\ Stop(c, pad) \in 1..(Len(binds[c]) + 1)
           /\ \A j \in 1..(Stop(c, pad) - 1) : Stays(c, j, pad) \/ Enters(c, j, pad)
           /\ Stop(c, pad) <= Len(binds[c]) =>
                ~Stays(c, Stop(c, pad), pad) /\ ~Enters(c, Stop(c, pad), pad)
<1> DEFINE n == Len(binds[c])
           Runs(j) == Stays(c, j, pad) \/ Enters(c, j, pad)
           Stops(s) == /\ \A j \in 1..(s - 1) : Runs(j)
                       /\ s <= n => ~Runs(s)
           ends == {s \in 1..(n + 1) : s <= n => ~Runs(s)}
<1>1. n \in Nat
    BY DEF IsBind
<1>2. ends \in SUBSET Nat /\ n + 1 \in ends
    BY <1>1
<1>3. PICK m \in ends : \A s \in ends : m <= s
    <2> HIDE DEF ends
    <2> QED BY <1>2, LeastNatural
<1>4. m \in 1..(n + 1) /\ Stops(m)
    <2>1. m \in 1..(n + 1) /\ (m <= n => ~Runs(m))
        BY <1>3
    <2> HIDE DEF Runs
    <2>2. ASSUME NEW j \in 1..(m - 1) PROVE Runs(j)
        <3>1. j \in 1..(n + 1) /\ ~(m <= j)
            BY <1>1, <2>1
        <3> QED BY <1>3, <3>1
    <2> QED BY <2>1, <2>2
<1>5. Stop(c, pad) = CHOOSE s \in 1..(n + 1) : Stops(s)
    BY DEF Stop
<1> HIDE DEF Stops
<1>6. Stop(c, pad) \in 1..(n + 1) /\ Stops(Stop(c, pad))
    BY <1>4, <1>5
<1> QED BY <1>6 DEF Stops

LEMMA ComponentsInRange ==
    ASSUME NEW c \in Commands, IsBind(binds[c]), NEW pad,
           bind_component_state[c] \in SUBSET (1..BIND_MAX)
    PROVE  Components(c, pad) \in SUBSET (1..BIND_MAX)
<1>1. Stop(c, pad) \in 1..(Len(binds[c]) + 1) /\ Len(binds[c]) \in Nat /\ Len(binds[c]) <= BIND_MAX
      /\ BIND_MAX \in Nat
    BY StopProperties, InputAssumption DEF IsBind
<1>2. 1..(Stop(c, pad) - 1) \in SUBSET (1..BIND_MAX)
    BY <1>1
<1> QED BY <1>2 DEF Components

(* The components the loop leaves down still are the first ones, in order, *)
(* and they are all of them only when the combination is complete.         *)
LEMMA ComponentsEntered ==
    ASSUME NEW c \in Commands, IsBind(binds[c]), binds[c] # <<>>, Entered(c),
           NEW pad \in SUBSET Buttons, button_time \in [Buttons -> 0..INPUT_REPEAT]
    PROVE  LET down == Components(c, pad)
               b    == binds[c]
           IN  /\ down \subseteq DOMAIN b
               /\ \A i, j \in DOMAIN b :
                    i < j /\ j \in down => i \in down /\ Later(pad, b[i]) >= Later(pad, b[j])
               /\ down = DOMAIN b => Complete(c, pad)
<1> DEFINE b == binds[c]
           n == Len(b)
           s == Stop(c, pad)
           before == bind_component_state[c]
           down == Components(c, pad)
           Runs(j) == Stays(c, j, pad) \/ Enters(c, j, pad)
<1>1. /\ b \in Seq(Buttons) /\ n \in Nat /\ n # 0 /\ DOMAIN b = 1..n
      /\ \A j \in 1..n : b[j] \in Buttons
    <2>1. b \in Seq(Buttons)
        BY DEF IsBind
    <2> HIDE DEF b
    <2> QED BY <2>1, EmptySeq, ElementOfSeq DEF b
<1>2. /\ s \in 1..(n + 1) /\ \A j \in 1..(s - 1) : Runs(j)
      /\ s <= n => ~Runs(s)
    BY StopProperties
<1>3. /\ before \subseteq 1..n
      /\ \A i, j \in 1..n : i < j /\ j \in before => i \in before /\ button_time[b[i]] >= button_time[b[j]]
    BY <1>1 DEF Entered
<1>4. /\ Silent(c) => down = {}
      /\ ~Silent(c) /\ s > n => down = before \cup 1..(s - 1)
      /\ ~Silent(c) /\ ~(s > n) => down \subseteq 1..(s - 1)
    <2>1. Silent(c) => down = {}
        BY DEF Components
    <2>2. ~Silent(c) /\ s > n => down = before \cup 1..(s - 1)
        BY DEF Components
    <2>3. CASE ~Silent(c) /\ ~(s > n) /\ s \in before
        <3>1. down = IF \E j \in before : j > s THEN {} ELSE (before \cup 1..(s - 1)) \ {s}
            BY <2>3 DEF Components
        <3> HIDE DEF down, before, b, n, s
        <3>2. ASSUME \A j \in before : ~(j > s), NEW j \in (before \cup 1..(s - 1)) \ {s}
              PROVE  j \in 1..(s - 1)
            <4>1. CASE j \in before
                <5>1. j \in 1..n /\ s \in 1..(n + 1) /\ j # s /\ ~(j > s) /\ n \in Nat
                    BY <1>1, <1>2, <1>3, <3>2, <4>1
                <5> QED BY <5>1
            <4> QED BY <3>2, <4>1
        <3> QED BY <2>1, <2>2, <2>3, <3>1, <3>2
    <2>4. CASE ~Silent(c) /\ ~(s > n) /\ s \notin before
        <3>1. down = {} \/ down = before \cup 1..(s - 1)
            BY <2>4 DEF Components
        <3> HIDE DEF down, before, b, n, s
        <3>2. \A j \in before : j \in 1..(s - 1)
            <4> SUFFICES ASSUME NEW j \in before PROVE j \in 1..(s - 1)
                OBVIOUS
            <4>1. j \in 1..n /\ s \in 1..n /\ j # s
                BY <1>1, <1>2, <1>3, <2>4
            <4>2. ~(s < j)
                BY <1>3, <2>4, <4>1
            <4> QED BY <4>1, <4>2
        <3> QED BY <2>1, <2>2, <2>4, <3>1, <3>2
    <2> QED BY <2>1, <2>2, <2>3, <2>4
<1>5. down = {} \/ (~Silent(c) /\ (s > n \/ n \notin down) /\ down \subseteq 1..(s - 1))
    <2>1. ~(s > n) => n \notin 1..(s - 1)
        BY <1>1, <1>2
    <2>2. s > n => before \subseteq 1..(s - 1)
        BY <1>1, <1>2, <1>3
    <2> HIDE DEF down, before, b, n, s
    <2> QED BY <1>4, <2>1, <2>2
(* What stays down has been down longer than what enters. *)
<1>6. ASSUME NEW j \in 1..n, Runs(j)
      PROVE  b[j] \in pad /\ (j \notin before => button_time[b[j]] = 0)
    BY <1>6 DEF Stays, Enters, GoesDown
<1>7. \A j \in 1..(s - 1) : j \in 1..n
    BY <1>1, <1>2
<1>8. ASSUME NEW i \in 1..n, NEW j \in 1..n, i < j, j \in down
      PROVE  i \in down /\ Later(pad, b[i]) >= Later(pad, b[j])
    <2>1. ~Silent(c) /\ j \in 1..(s - 1)
        BY <1>5, <1>8
    <2>2. i \in 1..(s - 1)
        BY <1>2, <1>8, <2>1
    <2>3. Runs(i) /\ Runs(j)
        BY <1>2, <2>1, <2>2
    <2>4. b[i] \in pad /\ b[j] \in pad /\ (j \notin before => button_time[b[j]] = 0)
        BY <1>6, <2>3
    <2>5. button_time[b[i]] >= button_time[b[j]]
        <3>1. CASE j \in before
            BY <1>3, <1>8, <3>1
        <3>2. CASE j \notin before
            <4>1. button_time[b[j]] = 0 /\ button_time[b[i]] \in 0..INPUT_REPEAT
                BY <1>1, <2>4, <3>2
            <4> QED BY <4>1
        <3> QED BY <3>1, <3>2
    <2>6. Later(pad, b[i]) >= Later(pad, b[j])
        BY <1>1, <2>4, <2>5, LaterTimes
    <2>7. i \in down
        <3>1. CASE s > n
            BY <1>4, <2>1, <2>2, <3>1
        <3>2. CASE ~(s > n)
            <4>1. CASE s \in before
                <5>1. down = IF \E k \in before : k > s THEN {} ELSE (before \cup 1..(s - 1)) \ {s}
                    BY <2>1, <3>2, <4>1 DEF Components
                <5>2. i # s
                    BY <1>2, <2>2
                <5> HIDE DEF down, before, b, n, s
                <5> QED BY <1>8, <2>2, <5>1, <5>2
            <4>2. CASE s \notin before
                <5>1. down = {} \/ down = before \cup 1..(s - 1)
                    BY <2>1, <3>2, <4>2 DEF Components
                <5> HIDE DEF down, before, b, n, s
                <5> QED BY <1>8, <2>2, <5>1
            <4> QED BY <4>1, <4>2
        <3> QED BY <3>1, <3>2
    <2> QED BY <2>6, <2>7
<1>9. ASSUME down = 1..n PROVE Complete(c, pad)
    <2>1. n \in down
        BY <1>1, <1>9
    <2>2. ~Silent(c) /\ s > n
        BY <1>5, <2>1
    <2>3. \A j \in 1..n : Runs(j)
        BY <1>1, <1>2, <2>2
    <2>4. before \cup 1..n # {}
        BY <1>1
    <2> QED BY <1>1, <2>2, <2>3, <2>4 DEF Complete
<1>10. down \subseteq 1..n
    BY <1>5, <1>7
<1> QED BY <1>1, <1>8, <1>9, <1>10

(* A frame of input_update keeps the invariant.                            *)
LEMMA InputUpdateKeeps ==
    ASSUME InputInv, NEW pad \in SUBSET Buttons, InputUpdate(pad)
    PROVE  InputInv'
<1> DEFINE complete == {c \in Commands : Complete(c, pad)}
           active == {c \in complete : ~GivesWay(c, complete)}
<1>1. /\ button_time \in [Buttons -> 0..INPUT_REPEAT]
      /\ bind_component_state \in [Commands -> SUBSET (1..BIND_MAX)]
      /\ binds \in [Commands -> Seq(Buttons)] /\ \A c \in Commands : IsBind(binds[c])
      /\ input_enabled \in BOOLEAN /\ row_state \in [Rows -> RowStates]
      /\ pad_reserved \subseteq Buttons /\ menu_active \in BOOLEAN /\ shown \in BOOLEAN
      /\ selected \in Rows \cup {"elsewhere"}
    BY DEF InputInv, TypeOK
<1>2. /\ pc = "input" /\ pc' = "menu"
      /\ button_time' = [b \in Buttons |-> Later(pad, b)]
      /\ bind_component_state' = [c \in Commands |->
            IF c \in complete \ active THEN {} ELSE Components(c, pad)]
      /\ bind_held' = active /\ bind_pressed_raw' = active \ bind_held
    BY DEF InputInv, InputUpdate, Later
<1>3. /\ pad_reserved' = pad_reserved /\ input_enabled' = input_enabled /\ binds' = binds
      /\ row_state' = row_state /\ menu_active' = menu_active /\ shown' = shown
      /\ selected' = selected
    BY DEF InputUpdate, menuVars
<1>4. active \subseteq complete /\ complete \subseteq Commands
      /\ \A c \in complete : Complete(c, pad)
    OBVIOUS
<1>5. \A c \in Commands : Complete(c, pad) => c \in complete
    OBVIOUS
<1> HIDE DEF complete, active
<1>6. \A b \in Buttons : button_time'[b] = Later(pad, b)
    BY <1>2
<1>7. ~input_enabled => complete = {} /\ \A c \in Commands : bind_component_state'[c] = {}
    <2>1. ~input_enabled => \A c \in Commands : ~Complete(c, pad) /\ Components(c, pad) = {}
        BY DEF Complete, Components, Silent
    <2> QED BY <1>2, <1>4, <2>1
<1>8. TypeOK'
    <2>1. button_time' \in [Buttons -> 0..INPUT_REPEAT]
        BY <1>1, <1>2, LaterTimes
    <2>2. bind_component_state' \in [Commands -> SUBSET (1..BIND_MAX)]
        <3>1. \A c \in Commands : Components(c, pad) \in SUBSET (1..BIND_MAX)
            BY <1>1, ComponentsInRange
        <3> QED BY <1>2, <3>1
    <2>3. bind_held' \subseteq Commands /\ bind_pressed_raw' \subseteq bind_held'
        BY <1>2, <1>4
    <2> QED BY <1>1, <1>2, <1>3, <2>1, <2>2, <2>3 DEF TypeOK
<1>9. RecordingOwnsInput'
    BY <1>3 DEF InputInv, RecordingOwnsInput
<1>10. BindsEntered'
    <2> SUFFICES ASSUME NEW c \in Commands, binds[c] # <<>> PROVE Entered(c)'
        BY <1>3 DEF BindsEntered
    <2>1. Entered(c)
        BY DEF InputInv, BindsEntered
    <2>2. bind_component_state'[c] = IF c \in complete \ active THEN {} ELSE Components(c, pad)
        BY <1>2
    <2>3. binds[c] \in Seq(Buttons) /\ DOMAIN binds[c] # {} /\ \A i \in DOMAIN binds[c] : binds[c][i] \in Buttons
        <3>1. binds[c] \in Seq(Buttons)
            BY <1>1
        <3> QED BY <3>1, EmptySeq, ElementOfSeq
    <2>4. CASE c \in complete \ active
        BY <1>3, <2>2, <2>3, <2>4 DEF Entered
    <2>5. CASE c \notin complete \ active
        <3> DEFINE down == Components(c, pad)
                   b == binds[c]
        <3>1. /\ down \subseteq DOMAIN b
              /\ \A i, j \in DOMAIN b :
                   i < j /\ j \in down => i \in down /\ Later(pad, b[i]) >= Later(pad, b[j])
              /\ down = DOMAIN b => Complete(c, pad)
            BY <1>1, <2>1, ComponentsEntered
        <3>2. bind_component_state'[c] = down /\ binds'[c] = b
            BY <1>3, <2>2, <2>5
        <3>3. Complete(c, pad) => c \in bind_held'
            BY <1>2, <1>5, <2>5
        <3>4. \A i \in DOMAIN b : button_time'[b[i]] = Later(pad, b[i])
            BY <1>6, <2>3
        <3> HIDE DEF down, b
        <3> QED BY <3>1, <3>2, <3>3, <3>4 DEF Entered
    <2> QED BY <2>4, <2>5
<1>11. RowsWait'
    <2>1. ~input_enabled' => bind_pressed_raw' = {}
        BY <1>2, <1>3, <1>4, <1>7
    <2>2. ASSUME NEW r \in Rows, row_state[r] = "ACTION"
          PROVE  pad_cur' = pad_pressed_raw'
        <3>1. pad_cur = {}
            BY <1>2, <2>2 DEF InputInv, RowsWait
        <3>2. ASSUME NEW b \in Buttons PROVE button_time'[b] > 0 <=> button_time'[b] = 1
            <4>1. button_time[b] = 0
                BY <1>1, <3>1 DEF pad_cur
            <4>2. /\ Later(pad, b) > 0 <=> b \in pad
                  /\ b \in pad => Later(pad, b) = 1
                BY <1>1, <4>1, LaterTimes
            <4> QED BY <1>6, <4>2
        <3> QED BY <3>2 DEF pad_cur, pad_pressed_raw
    <2>3. \A r \in Rows : row_state[r] = "LISTENING" => binds[r] # <<>>
        BY DEF InputInv, RowsWait
    <2> QED BY <1>2, <1>3, <1>7, <2>1, <2>2, <2>3 DEF RowsWait
<1>12. StartsAsEntered'
    <2> SUFFICES ASSUME NEW c \in bind_pressed_raw', binds[c] # <<>>
                 PROVE  /\ bind_get_bitmask(binds[c]) \cap pad_pressed_raw' # {}
                        /\ bind_get_bitmask(binds[c]) \subseteq pad_cur'
                        /\ \A i, j \in DOMAIN binds[c] :
                             i < j => button_time'[binds[c][i]] >= button_time'[binds[c][j]]
        BY <1>3 DEF StartsAsEntered, bind_get_bitmask
    <2> DEFINE b == binds[c]
               n == Len(b)
               Runs(j) == Stays(c, j, pad) \/ Enters(c, j, pad)
    <2>1. c \in active /\ c \notin bind_held /\ c \in Commands /\ Complete(c, pad)
        BY <1>2, <1>4
    <2>2. Entered(c) /\ IsBind(binds[c])
        BY <1>1, <2>1 DEF InputInv, BindsEntered
    <2>3. /\ b \in Seq(Buttons) /\ n \in Nat /\ n # 0 /\ DOMAIN b = 1..n
          /\ \A j \in 1..n : b[j] \in Buttons
        <3>1. b \in Seq(Buttons)
            BY <2>2 DEF IsBind
        <3> HIDE DEF b
        <3> QED BY <3>1, EmptySeq, ElementOfSeq DEF b
    <2>4. ~Silent(c) /\ \A j \in 1..n : Runs(j)
        BY <2>1, <2>3 DEF Complete
    <2>5. \A j \in 1..n : b[j] \in pad
        BY <2>4 DEF Stays, Enters, GoesDown
    <2>6. \A j \in 1..n : button_time'[b[j]] = Later(pad, b[j]) /\ Later(pad, b[j]) > 0
        BY <1>1, <1>6, <2>3, <2>5, LaterTimes
    <2>7. bind_get_bitmask(b) \subseteq pad_cur'
        BY <2>3, <2>6 DEF bind_get_bitmask, pad_cur
    <2>8. PICK j \in 1..n : j \notin bind_component_state[c]
        BY <2>1, <2>2, <2>3 DEF Entered
    <2>9. button_time[b[j]] = 0
        BY <2>4, <2>8 DEF Stays, Enters, GoesDown
    <2>10. b[j] \in pad_pressed_raw'
        <3>1. Later(pad, b[j]) = 1
            BY <1>1, <2>3, <2>5, <2>9, LaterTimes
        <3> QED BY <2>3, <2>6, <3>1 DEF pad_pressed_raw
    <2>11. \A k \in 1..n : k \in Components(c, pad)
        <3>1. /\ Stop(c, pad) \in 1..(n + 1)
              /\ Stop(c, pad) <= n => ~Runs(Stop(c, pad))
            BY <2>1, <2>2, StopProperties
        <3> HIDE DEF Runs
        <3>2. Stop(c, pad) > n /\ 1..(Stop(c, pad) - 1) = 1..n
            BY <2>3, <2>4, <3>1
        <3>3. Components(c, pad) = bind_component_state[c] \cup 1..(Stop(c, pad) - 1)
            BY <2>4, <3>2 DEF Components
        <3> QED BY <3>2, <3>3
    <2>12. \A i, k \in 1..n : i < k /\ k \in Components(c, pad) => Later(pad, b[i]) >= Later(pad, b[k])
        BY <1>1, <2>1, <2>2, <2>3, ComponentsEntered
    <2>13. \A i, k \in 1..n : i < k => button_time'[b[i]] >= button_time'[b[k]]
        BY <2>6, <2>11, <2>12
    <2>14. bind_get_bitmask(b) \cap pad_pressed_raw' # {}
        BY <2>3, <2>10 DEF bind_get_bitmask
    <2> QED BY <2>3, <2>7, <2>13, <2>14
<1> QED BY <1>8, <1>9, <1>10, <1>11, <1>12 DEF InputInv

-----------------------------------------------------------------------------
(* The menu step. *)

LEMMA StatesOfARow ==
    ASSUME NEW s \in RowStates
    PROVE  /\ StateAfter(s) \in RowStates
           /\ StateAfter(s) = "NONE" <=> s = "NONE" \/ Unbinds(s) \/ Saved(s)
           /\ StateAfter(s) = "ACTION" => pad_cur = {}
           /\ StateAfter(s) = "LISTENING" => Records(s)
           /\ Records(s) => ~Unbinds(s) /\ s \in {"ACTION", "LISTENING"}
<1>1. Unbinds(s) => s = "BEGIN"
    BY DEF Unbinds
<1>2. Saved(s) <=> s = "LISTENING" /\ pad_cur = {}
    BY DEF Saved
<1>3. Records(s) <=> s \in {"ACTION", "LISTENING"} /\ pad_cur # {}
    BY DEF Records
<1> QED BY <1>1, <1>2, <1>3 DEF StateAfter, RowStates

(* What becomes of the binding of a row: it stays one, and it is not empty *)
(* once the row listens.                                                   *)
LEMMA BindOfARow ==
    ASSUME NEW s \in RowStates, NEW b, IsBind(b),
           s = "ACTION" => pad_cur = pad_pressed_raw,
           s = "LISTENING" => b # <<>>
    PROVE  /\ IsBind(BindAfter(s, b))
           /\ Records(s) => BindAfter(s, b) # <<>>
           /\ s \notin {"ACTION", "LISTENING"} => BindAfter(s, b) \in {<<>>, b}
           /\ s = "LISTENING" => /\ Len(b) <= Len(BindAfter(s, b))
                                 /\ SubSeq(BindAfter(s, b), 1, Len(b)) = b
<1>1. IsBind(<<>>)
    <2>1. <<>> \in Seq(Buttons) /\ Len(<<>>) = 0 /\ DOMAIN <<>> = {}
        BY EmptySeq
    <2> QED BY <2>1, InputAssumption DEF IsBind
<1>2. SubSeq(b, 1, Len(b)) = b /\ Len(b) <= Len(b)
    <2>1. b \in Seq(Buttons)
        BY DEF IsBind
    <2> QED BY <2>1
<1>3. CASE Unbinds(s)
    BY <1>1, <1>3, StatesOfARow DEF BindAfter, Unbinds
<1>4. CASE ~Unbinds(s) /\ ~Records(s)
    BY <1>2, <1>4 DEF BindAfter
<1>5. CASE Records(s) /\ s = "ACTION"
    <2>1. BindAfter(s, b) = Extended(<<>>) /\ pad_pressed_raw # {}
        BY <1>5, StatesOfARow DEF BindAfter, Records
    <2>2. IsBind(Extended(<<>>)) /\ Extended(<<>>) # <<>>
        BY <1>1, <2>1, ExtendedIsBind
    <2> QED BY <1>5, <2>1, <2>2
<1>6. CASE Records(s) /\ s = "LISTENING"
    <2>1. BindAfter(s, b) = Extended(b)
        BY <1>6, StatesOfARow DEF BindAfter
    <2>2. /\ IsBind(Extended(b)) /\ Len(b) <= Len(Extended(b))
          /\ SubSeq(Extended(b), 1, Len(b)) = b
        BY ExtendedIsBind
    <2>3. Extended(b) # <<>>
        <3>1. b \in Seq(Buttons) /\ b # <<>>
            BY <1>6 DEF IsBind
        <3>2. Len(b) # 0 /\ Len(b) \in Nat
            BY <3>1, EmptySeq
        <3>3. Len(<<>>) = 0
            BY EmptySeq
        <3> QED BY <2>2, <3>2, <3>3
    <2> QED BY <1>6, <2>1, <2>2, <2>3
<1> QED BY <1>3, <1>4, <1>5, <1>6, StatesOfARow

(* The rows the event before their update has left: at most one of them    *)
(* records, input is disabled exactly then, and the row knows of the pad   *)
(* what RowsWait says.                                                     *)
RowsReady(states, enabled, inner) ==
    /\ states \in [Rows -> RowStates] /\ enabled \in BOOLEAN
    /\ \A q, r \in Rows : states[q] # "NONE" /\ states[r] # "NONE" => q = r
    /\ enabled <=> \A r \in Rows : states[r] = "NONE"
    /\ ~enabled => inner
    /\ \A r \in Rows : states[r] = "ACTION" => pad_cur = pad_pressed_raw
    /\ \A r \in Rows : states[r] = "LISTENING" => binds[r] # <<>>
    /\ \A r \in Rows : states[r] \in {"ACTION", "LISTENING"} =>
         \A c \in Commands : bind_component_state[c] = {}

RowsKept ==
    /\ row_state \in [Rows -> RowStates] /\ input_enabled \in BOOLEAN
    /\ binds \in [Commands -> Seq(Buttons)] /\ \A c \in Commands : IsBind(binds[c])
    /\ \A q, r \in Rows : row_state[q] # "NONE" /\ row_state[r] # "NONE" => q = r
    /\ input_enabled <=> \A r \in Rows : row_state[r] = "NONE"
    /\ \A r \in Rows : row_state[r] = "ACTION" => pad_cur = {}
    /\ \A r \in Rows : row_state[r] = "LISTENING" => binds[r] # <<>>
    /\ BindsEntered

LEMMA RowsUpdated ==
    ASSUME TypeOK, BindsEntered,
           NEW states, NEW enabled, NEW inner, RowsReady(states, enabled, inner),
           UpdateRows(states, enabled, inner),
           UNCHANGED <<button_time, bind_component_state, bind_held>>
    PROVE  RowsKept' /\ (enabled => input_enabled')
<1>1. /\ binds \in [Commands -> Seq(Buttons)] /\ \A c \in Commands : IsBind(binds[c])
      /\ Rows \subseteq Commands
    BY InputAssumption DEF TypeOK
<1>2. pad_cur' = pad_cur
    BY DEF pad_cur
<1>3. /\ states \in [Rows -> RowStates] /\ enabled \in BOOLEAN
      /\ \A q, r \in Rows : states[q] # "NONE" /\ states[r] # "NONE" => q = r
      /\ enabled <=> \A r \in Rows : states[r] = "NONE"
      /\ ~enabled => inner
      /\ \A r \in Rows : states[r] = "ACTION" => pad_cur = pad_pressed_raw
      /\ \A r \in Rows : states[r] = "LISTENING" => binds[r] # <<>>
      /\ \A r \in Rows : states[r] \in {"ACTION", "LISTENING"} =>
           \A c \in Commands : bind_component_state[c] = {}
    BY DEF RowsReady
<1>4. CASE inner
    <2>1. /\ row_state' = [r \in Rows |-> StateAfter(states[r])]
          /\ binds' = [c \in Commands |-> IF c \in Rows THEN BindAfter(states[c], binds[c])
                                          ELSE binds[c]]
          /\ input_enabled' = (enabled \/ \E r \in Rows : Unbinds(states[r]) \/ Saved(states[r]))
        BY <1>4 DEF UpdateRows
    <2>2. ASSUME NEW r \in Rows
          PROVE  /\ row_state'[r] = StateAfter(states[r])
                 /\ binds'[r] = BindAfter(states[r], binds[r])
                 /\ states[r] \in RowStates
        BY <1>1, <1>3, <2>1
    <2>3. row_state' \in [Rows -> RowStates] /\ input_enabled' \in BOOLEAN
        BY <1>3, <2>1, StatesOfARow
    <2>4. \A r \in Rows : IsBind(BindAfter(states[r], binds[r]))
        BY <1>1, <1>3, BindOfARow
    <2>5. \A c \in Commands : IsBind(binds'[c]) /\ binds'[c] \in Seq(Buttons)
        <3>1. \A c \in Commands : IsBind(binds'[c])
            BY <1>1, <2>1, <2>4
        <3> QED BY <3>1 DEF IsBind
    <2>6. binds' \in [Commands -> Seq(Buttons)]
        BY <2>1, <2>5
    <2>7. \A r \in Rows : /\ row_state'[r] # "NONE" => states[r] # "NONE"
                          /\ row_state'[r] = "NONE" => \/ states[r] = "NONE"
                                                       \/ Unbinds(states[r]) \/ Saved(states[r])
                          /\ Unbinds(states[r]) \/ Saved(states[r]) => /\ row_state'[r] = "NONE"
                                                                       /\ states[r] # "NONE"
        BY <2>2, StatesOfARow DEF Unbinds, Saved
    <2>8. \A q, r \in Rows : row_state'[q] # "NONE" /\ row_state'[r] # "NONE" => q = r
        BY <1>3, <2>7
    <2>9. input_enabled' <=> \A r \in Rows : row_state'[r] = "NONE"
        <3>1. CASE enabled
            BY <1>3, <2>1, <2>7, <3>1
        <3>2. CASE ~enabled
            BY <1>3, <2>1, <2>7, <3>2
        <3> QED BY <1>3, <3>1, <3>2
    <2>10. \A r \in Rows : row_state'[r] = "ACTION" => pad_cur' = {}
        BY <1>2, <2>2, StatesOfARow
    <2>11. \A r \in Rows : row_state'[r] = "LISTENING" => binds'[r] # <<>>
        BY <1>1, <1>3, <2>2, StatesOfARow, BindOfARow
    <2>12. BindsEntered'
        <3> SUFFICES ASSUME NEW c \in Commands, binds'[c] # <<>> PROVE Entered(c)'
            BY DEF BindsEntered
        <3>1. CASE binds'[c] = binds[c]
            BY <3>1 DEF BindsEntered, Entered
        <3>2. CASE binds'[c] # binds[c]
            <4>1. c \in Rows
                BY <2>1, <3>2
            <4>2. states[c] \in {"ACTION", "LISTENING"}
                BY <1>1, <1>3, <2>2, <3>2, <4>1, BindOfARow
            <4>3. bind_component_state'[c] = {}
                BY <1>3, <4>1, <4>2
            <4>4. DOMAIN binds'[c] # {}
                <5>1. ASSUME NEW b \in Seq(Buttons), b # <<>> PROVE DOMAIN b # {}
                    <6>1. Len(b) \in Nat \ {0} /\ DOMAIN b = 1..Len(b)
                        BY <5>1, EmptySeq
                    <6>2. 1 \in 1..Len(b)
                        BY <6>1
                    <6> QED BY <6>1, <6>2
                <5> QED BY <2>5, <5>1
            <4> QED BY <4>3, <4>4 DEF Entered
        <3> QED BY <3>1, <3>2
    <2> QED BY <2>1, <2>3, <2>5, <2>6, <2>8, <2>9, <2>10, <2>11, <2>12 DEF RowsKept
<1>5. CASE ~inner
    <2>1. row_state' = states /\ input_enabled' = enabled /\ binds' = binds
        BY <1>5 DEF UpdateRows
    <2>2. enabled /\ \A r \in Rows : states[r] = "NONE"
        BY <1>3, <1>5
    <2>3. BindsEntered'
        BY <2>1 DEF BindsEntered, Entered
    <2> QED BY <1>1, <1>3, <2>1, <2>2, <2>3 DEF RowsKept
<1> QED BY <1>4, <1>5

(* MenuInput in the terms of its parts: the cursor's item, and the rows    *)
(* and the input it leaves for the update.                                 *)
LEMMA MenuInputParts ==
    ASSUME InputInv, pc = "menu", MenuInput
    PROVE  \E states, enabled :
             /\ RowsReady(states, enabled, shown') /\ UpdateRows(states, enabled, shown')
             /\ ~enabled => shown'
             /\ shown' \in BOOLEAN /\ selected' \in Rows \cup {"elsewhere"}
<1>1. PICK item \in IF input_pressed \cap DPad # {} THEN Rows \cup {"elsewhere"} ELSE {selected} :
        LET activates == BUTTON_L \in input_pressed
            begins    == activates /\ shown /\ item \in Rows /\ row_state[item] = "NONE"
        IN  /\ selected' = item
            /\ shown' \in IF activates /\ (item \notin Rows \/ ~shown)
                          THEN BOOLEAN ELSE {shown}
            /\ IF begins
               THEN UpdateRows([row_state EXCEPT ![item] = "BEGIN"], FALSE, shown')
               ELSE UpdateRows(row_state, input_enabled, shown')
    BY DEF MenuInput
<1> DEFINE activates == BUTTON_L \in input_pressed
           begins == activates /\ shown /\ item \in Rows /\ row_state[item] = "NONE"
           begun == [row_state EXCEPT ![item] = "BEGIN"]
<1>2. /\ row_state \in [Rows -> RowStates] /\ input_enabled \in BOOLEAN /\ shown \in BOOLEAN
      /\ selected \in Rows \cup {"elsewhere"}
    BY DEF InputInv, TypeOK
<1>3. /\ \A q, r \in Rows : row_state[q] # "NONE" /\ row_state[r] # "NONE" => q = r
      /\ input_enabled <=> \A r \in Rows : row_state[r] = "NONE"
      /\ ~input_enabled => shown
    BY <1>2 DEF InputInv, RecordingOwnsInput
<1>4. item \in Rows \cup {"elsewhere"} /\ shown' \in BOOLEAN
    BY <1>1, <1>2
<1>5. activates => input_enabled
    BY DEF input_pressed
<1>6. /\ selected' = item
      /\ shown' \in IF activates /\ (item \notin Rows \/ ~shown) THEN BOOLEAN ELSE {shown}
      /\ begins => UpdateRows(begun, FALSE, shown')
      /\ ~begins => UpdateRows(row_state, input_enabled, shown')
    BY <1>1
<1> HIDE DEF activates
<1>7. CASE begins
    <2>1. input_enabled /\ shown /\ item \in Rows
        BY <1>5, <1>7
    <2>2. shown' = TRUE
        BY <1>6, <2>1
    <2>3. /\ begun \in [Rows -> RowStates] /\ begun[item] = "BEGIN"
          /\ \A r \in Rows : r # item => begun[r] = "NONE"
        BY <1>2, <1>3, <2>1 DEF RowStates
    <2>4. RowsReady(begun, FALSE, shown')
        <3> HIDE DEF begun
        <3>1. \A r \in Rows : begun[r] \in {"BEGIN", "NONE"}
            BY <2>3
        <3>2. ~(\A r \in Rows : begun[r] = "NONE")
            BY <2>1, <2>3
        <3> QED BY <2>2, <2>3, <3>1, <3>2 DEF RowsReady
    <2> QED BY <1>4, <1>6, <1>7, <2>2, <2>4
<1>8. CASE ~begins
    <2>1. ~input_enabled => shown'
        BY <1>3, <1>5, <1>6
    <2>2. /\ \A r \in Rows : row_state[r] = "ACTION" => pad_cur = pad_pressed_raw
          /\ \A r \in Rows : row_state[r] = "LISTENING" => binds[r] # <<>>
          /\ ~input_enabled => \A c \in Commands : bind_component_state[c] = {}
        BY DEF InputInv, RowsWait
    <2>3. \A r \in Rows : row_state[r] \in {"ACTION", "LISTENING"} => ~input_enabled
        BY <1>3
    <2>4. RowsReady(row_state, input_enabled, shown')
        BY <1>2, <1>3, <2>1, <2>2, <2>3 DEF RowsReady
    <2> QED BY <1>4, <1>6, <1>8, <2>1, <2>4
<1> QED BY <1>7, <1>8

LEMMA MenuStepKeeps ==
    ASSUME InputInv, HandleMenu
    PROVE  InputInv'
<1>1. TypeOK /\ BindsEntered
    BY DEF InputInv
<1>2. /\ row_state \in [Rows -> RowStates] /\ input_enabled \in BOOLEAN /\ shown \in BOOLEAN
      /\ menu_active \in BOOLEAN /\ pad_reserved \subseteq Buttons
      /\ selected \in Rows \cup {"elsewhere"} /\ MenuButtons \subseteq Buttons
    BY InputAssumption DEF InputInv, TypeOK
<1>3. /\ pc = "menu" /\ pc' = "input" /\ bind_pressed_raw' = {}
      /\ UNCHANGED <<button_time, bind_component_state, bind_held>>
    BY DEF HandleMenu
<1>4. /\ \A q, r \in Rows : row_state[q] # "NONE" /\ row_state[r] # "NONE" => q = r
      /\ input_enabled <=> \A r \in Rows : row_state[r] = "NONE"
      /\ ~input_enabled => menu_active /\ shown /\ bind_pressed_raw = {}
    BY <1>2 DEF InputInv, RecordingOwnsInput, RowsWait
<1>5. /\ \A r \in Rows : row_state[r] = "ACTION" => pad_cur = pad_pressed_raw
      /\ \A r \in Rows : row_state[r] = "LISTENING" => binds[r] # <<>>
      /\ ~input_enabled => \A c \in Commands : bind_component_state[c] = {}
    BY <1>3 DEF InputInv, RowsWait
<1>6. ASSUME NEW inner \in BOOLEAN, ~input_enabled => inner
      PROVE  RowsReady(row_state, input_enabled, inner)
    <2>1. \A r \in Rows : row_state[r] \in {"ACTION", "LISTENING"} => ~input_enabled
        BY <1>4
    <2> QED BY <1>2, <1>4, <1>5, <1>6, <2>1 DEF RowsReady
<1> DEFINE Kept == /\ RowsKept'
                   /\ menu_active' \in BOOLEAN /\ shown' \in BOOLEAN
                   /\ pad_reserved' \subseteq Buttons /\ selected' \in Rows \cup {"elsewhere"}
                   /\ ~input_enabled' => menu_active' /\ shown'
<1>7. ASSUME MenuOpens PROVE Kept
    <2>1. /\ menu_active' = TRUE /\ pad_reserved' = pad_reserved \cup MenuButtons
          /\ shown' = shown /\ selected' = selected /\ ~menu_active
          /\ row_state' = row_state /\ input_enabled' = input_enabled /\ binds' = binds
        BY <1>7 DEF MenuOpens
    <2>2. input_enabled /\ RowsReady(row_state, input_enabled, FALSE)
        BY <1>4, <1>6, <2>1
    <2>3. UpdateRows(row_state, input_enabled, FALSE)
        BY <2>1 DEF UpdateRows
    <2>4. RowsKept'
        BY <1>1, <1>3, <2>2, <2>3, RowsUpdated
    <2> QED BY <1>2, <2>1, <2>2, <2>4
<1>8. ASSUME MenuStaysClosed PROVE Kept
    <2>1. /\ menu_active' = menu_active /\ pad_reserved' = pad_reserved
          /\ shown' = shown /\ selected' = selected /\ ~menu_active
          /\ row_state' = row_state /\ input_enabled' = input_enabled /\ binds' = binds
        BY <1>8 DEF MenuStaysClosed, menuVars
    <2>2. input_enabled /\ RowsReady(row_state, input_enabled, FALSE)
        BY <1>4, <1>6, <2>1
    <2>3. UpdateRows(row_state, input_enabled, FALSE)
        BY <2>1 DEF UpdateRows
    <2>4. RowsKept'
        BY <1>1, <1>3, <2>2, <2>3, RowsUpdated
    <2> QED BY <1>2, <2>1, <2>2, <2>4
<1>9. ASSUME MenuCloses PROVE Kept
    <2>1. /\ menu_active' = FALSE /\ shown' = shown /\ selected' = selected
          /\ pad_reserved' = (pad_reserved \ MenuButtons) \cup (MenuButtons \ pad_reserved)
          /\ "TOGGLE_MENU" \in bind_pressed_raw
          /\ UpdateRows(row_state, input_enabled, shown)
        BY <1>9 DEF MenuCloses
    <2>2. input_enabled /\ RowsReady(row_state, input_enabled, shown)
        BY <1>2, <1>4, <1>6, <2>1
    <2>3. RowsKept' /\ input_enabled'
        BY <1>1, <1>3, <2>1, <2>2, RowsUpdated
    <2> QED BY <1>2, <2>1, <2>3
<1>10. ASSUME MenuReturns PROVE Kept
    <2>1. /\ menu_active' = menu_active /\ shown' = FALSE /\ selected' = selected
          /\ pad_reserved' = pad_reserved /\ "RETURN" \in bind_pressed_raw
          /\ UpdateRows(row_state, input_enabled, FALSE)
        BY <1>10 DEF MenuReturns
    <2>2. input_enabled /\ RowsReady(row_state, input_enabled, FALSE)
        BY <1>4, <1>6, <2>1
    <2>3. RowsKept' /\ input_enabled'
        BY <1>1, <1>3, <2>1, <2>2, RowsUpdated
    <2> QED BY <1>2, <2>1, <2>3
<1>11. ASSUME MenuInput PROVE Kept
    <2>1. PICK states, enabled :
             /\ RowsReady(states, enabled, shown') /\ UpdateRows(states, enabled, shown')
             /\ ~enabled => shown'
             /\ shown' \in BOOLEAN /\ selected' \in Rows \cup {"elsewhere"}
        BY <1>3, <1>11, MenuInputParts
    <2>2. menu_active /\ menu_active' = menu_active /\ pad_reserved' = pad_reserved
        BY <1>11 DEF MenuInput
    <2>3. RowsKept' /\ (enabled => input_enabled')
        BY <1>1, <1>3, <2>1, RowsUpdated
    <2> QED BY <1>2, <2>1, <2>2, <2>3
<1>12. Kept
    BY <1>7, <1>8, <1>9, <1>10, <1>11 DEF HandleMenu
<1>13. TypeOK'
    <2>1. /\ button_time' \in [Buttons -> 0..INPUT_REPEAT]
          /\ bind_component_state' \in [Commands -> SUBSET (1..BIND_MAX)]
          /\ bind_held' \subseteq Commands
        BY <1>1, <1>3 DEF TypeOK
    <2> QED BY <1>3, <1>12, <2>1 DEF TypeOK, RowsKept
<1>14. RecordingOwnsInput'
    <2>1. DOMAIN row_state' = Rows
        BY <1>12 DEF RowsKept
    <2> QED BY <1>12, <2>1 DEF RecordingOwnsInput, RowsKept
<1>15. RowsWait'
    BY <1>3, <1>12 DEF RowsWait, RowsKept
<1>16. BindsEntered' /\ StartsAsEntered'
    BY <1>3, <1>12 DEF RowsKept, StartsAsEntered
<1> QED BY <1>13, <1>14, <1>15, <1>16 DEF InputInv

LEMMA InputInitially == Init => InputInv
<1> SUFFICES ASSUME Init PROVE InputInv
    OBVIOUS
<1>1. /\ INPUT_REPEAT \in Nat /\ DefaultBinds \in [Commands -> Seq(Buttons)]
      /\ \A c \in Commands : IsBind(DefaultBinds[c])
    BY InputAssumption
<1>2. /\ pc = "input" /\ button_time = [b \in Buttons |-> 0]
      /\ pad_reserved = {} /\ input_enabled = TRUE
      /\ bind_component_state = [c \in Commands |-> {}]
      /\ bind_held = {} /\ bind_pressed_raw = {}
      /\ binds = DefaultBinds /\ row_state = [r \in Rows |-> "NONE"]
      /\ menu_active = FALSE /\ shown = FALSE /\ selected = "elsewhere"
    BY DEF Init
<1>3. TypeOK
    <2>1. button_time \in [Buttons -> 0..INPUT_REPEAT]
        <3>1. 0 \in 0..INPUT_REPEAT
            BY <1>1
        <3> QED BY <1>2, <3>1
    <2>2. /\ bind_component_state \in [Commands -> SUBSET (1..BIND_MAX)]
          /\ binds \in [Commands -> Seq(Buttons)] /\ \A c \in Commands : IsBind(binds[c])
        BY <1>1, <1>2
    <2>3. row_state \in [Rows -> RowStates] /\ pc \in {"input", "menu"}
        BY <1>2 DEF RowStates
    <2> QED BY <1>2, <2>1, <2>2, <2>3 DEF TypeOK
<1>4. RecordingOwnsInput
    BY <1>2 DEF RecordingOwnsInput
<1>5. RowsWait
    BY <1>2 DEF RowsWait
<1>6. ASSUME NEW c \in Commands, binds[c] # <<>> PROVE Entered(c)
    <2>1. binds[c] \in Seq(Buttons)
        BY <1>1, <1>2
    <2>2. DOMAIN binds[c] # {}
        BY <1>6, <2>1, NonemptyDomain
    <2>3. bind_component_state[c] = {}
        BY <1>2
    <2> QED BY <2>2, <2>3 DEF Entered
<1>7. StartsAsEntered
    BY <1>2 DEF StartsAsEntered
<1> QED BY <1>3, <1>4, <1>5, <1>6, <1>7 DEF InputInv, BindsEntered

LEMMA InputStep == InputInv /\ [Next]_vars => InputInv'
<1> SUFFICES ASSUME InputInv, [Next]_vars PROVE InputInv'
    OBVIOUS
<1>1. ASSUME NEW pad \in SUBSET Buttons, InputUpdate(pad) PROVE InputInv'
    BY <1>1, InputUpdateKeeps
<1>2. CASE HandleMenu
    BY <1>2, MenuStepKeeps
<1>3. CASE UNCHANGED vars
    BY <1>3 DEF vars, inputVars, menuVars, InputInv, TypeOK, RecordingOwnsInput, RowsWait,
                BindsEntered, Entered, StartsAsEntered, pad_cur, pad_pressed_raw
<1> QED BY <1>1, <1>2, <1>3 DEF Next

LEMMA InputInvariant == Spec => []InputInv
<1>1. Init => InputInv
    BY InputInitially
<1>2. InputInv /\ [Next]_vars => InputInv'
    BY InputStep
<1> QED BY <1>1, <1>2, PTL DEF Spec

(* The variables keep their types: every binding has at most BIND_MAX      *)
(* components and names a button once, and the components that are down    *)
(* are numbered within it.                                                 *)
THEOREM InputTypes == Spec => []TypeOK
<1>1. InputInv => TypeOK
    BY DEF InputInv
<1> QED BY <1>1, InputInvariant, PTL

(* A bound command starts only in a frame in which one of its buttons goes *)
(* down, with all of them down, in the order of its binding: for any       *)
(* bindings, rows and number of frames until a button repeats.             *)
THEOREM BindsStartAsEntered == Spec => []StartsAsEntered
<1>1. InputInv => StartsAsEntered
    BY DEF InputInv
<1> QED BY <1>1, InputInvariant, PTL

(* While a row records, input is disabled, for one row, and the commands   *)
(* menu stays on screen, so that the row's update can enable it again.     *)
THEOREM RecordingKeepsMenu == Spec => []RecordingOwnsInput
<1>1. InputInv => RecordingOwnsInput
    BY DEF InputInv
<1> QED BY <1>1, InputInvariant, PTL

LEMMA ListeningRowGrows ==
    ASSUME InputInv, HandleMenu, NEW r \in Rows, row_state[r] = "LISTENING"
    PROVE  /\ Len(binds[r]) <= Len(binds'[r])
           /\ SubSeq(binds'[r], 1, Len(binds[r])) = binds[r]
<1>1. /\ binds \in [Commands -> Seq(Buttons)] /\ \A c \in Commands : IsBind(binds[c])
      /\ Rows \subseteq Commands /\ row_state \in [Rows -> RowStates]
    BY InputAssumption DEF InputInv, TypeOK
<1>2. ~input_enabled /\ menu_active /\ shown
    BY <1>1 DEF InputInv, RecordingOwnsInput
<1>3. bind_pressed_raw = {} /\ input_pressed = {} /\ binds[r] # <<>>
    BY <1>2 DEF InputInv, RowsWait, input_pressed
<1>4. MenuInput
    BY <1>2, <1>3 DEF HandleMenu, MenuOpens, MenuStaysClosed, MenuCloses, MenuReturns
<1>5. UpdateRows(row_state, input_enabled, shown')
    BY <1>3, <1>4 DEF MenuInput
<1>6. binds'[r] = binds[r] \/ binds'[r] = BindAfter(row_state[r], binds[r])
    BY <1>1, <1>5 DEF UpdateRows
<1>7. Len(binds[r]) <= Len(binds[r]) /\ SubSeq(binds[r], 1, Len(binds[r])) = binds[r]
    <2>1. binds[r] \in Seq(Buttons)
        BY <1>1
    <2> HIDE DEF InputInv
    <2> QED BY <2>1
<1>8. /\ Len(binds[r]) <= Len(BindAfter(row_state[r], binds[r]))
      /\ SubSeq(BindAfter(row_state[r], binds[r]), 1, Len(binds[r])) = binds[r]
    BY <1>1, <1>3, BindOfARow
<1> QED BY <1>6, <1>7, <1>8

(* What a listening row has recorded stays the beginning of its binding    *)
(* until the row saves it, whatever is pressed or let go meanwhile.        *)
THEOREM ListeningKeepsWhatItHas == Spec => ListeningOnlyAdds
<1> DEFINE Adds == \A r \in DOMAIN row_state : row_state[r] = "LISTENING" =>
                     /\ binds[r] # <<>>
                     /\ Len(binds[r]) <= Len(binds'[r])
                     /\ SubSeq(binds'[r], 1, Len(binds[r])) = binds[r]
<1>1. ASSUME InputInv, [Next]_vars PROVE [Adds]_vars
    <2>1. /\ DOMAIN row_state = Rows /\ \A r \in Rows : binds[r] \in Seq(Buttons)
          /\ \A r \in Rows : row_state[r] = "LISTENING" => binds[r] # <<>>
        BY <1>1, InputAssumption DEF InputInv, TypeOK, RowsWait
    <2>2. CASE HandleMenu
        BY <1>1, <2>1, <2>2, ListeningRowGrows
    <2>3. ASSUME NEW pad \in SUBSET Buttons, InputUpdate(pad) PROVE Adds
        <3>1. binds' = binds
            BY <2>3 DEF InputUpdate, menuVars
        <3>2. \A r \in Rows : Len(binds[r]) <= Len(binds[r]) /\ SubSeq(binds[r], 1, Len(binds[r])) = binds[r]
            <4> SUFFICES ASSUME NEW r \in Rows
                         PROVE  Len(binds[r]) <= Len(binds[r]) /\ SubSeq(binds[r], 1, Len(binds[r])) = binds[r]
                OBVIOUS
            <4>1. binds[r] \in Seq(Buttons)
                BY <2>1
            <4> QED BY <4>1
        <3> QED BY <2>1, <3>1, <3>2
    <2> QED BY <1>1, <2>2, <2>3 DEF Next
<1>2. Spec => [][Adds]_vars
    BY <1>1, InputInvariant, PTL DEF Spec
<1> QED BY <1>2 DEF ListeningOnlyAdds

=============================================================================
