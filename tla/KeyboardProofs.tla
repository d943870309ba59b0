--------------------------- MODULE KeyboardProofs ---------------------------
(***************************************************************************)
(* Proofs about module Keyboard, for every set of keys and every capacity  *)
(* of the queue: the driver's modifiers follow the keyboard's, and every   *)
(* byte yields the character of its key.  The invariant, KbInv, follows    *)
(* the bytes through the queue: what decoding one does to the modifiers    *)
(* takes those recorded with it to those recorded with the next.           *)
(***************************************************************************)
EXTENDS Keyboard, TLAPS, SequenceTheorems

Mods == [l_shift : {0, 1}, r_shift : {0, 1}, caps : {0, 1}]

Entry == [code : 0 .. 255, before : Mods, key : KeySet \cup {NoKey}]

\* The modifiers once byte x has been decoded under those it was sent with.
After(x) == ModifiersAfter(x.before, Event(x.code))

\* A set of at most one character, 0 standing for none.
Only(c) == IF c = 0 THEN {} ELSE {c}

\* The characters key k yields under the modifiers on.
Yields(k, on) == IF Departs(k, on) THEN Legend(TakenFor(k), ShiftLocked(on)) ELSE Legend(k, on)

\* Decoding x under the modifiers it was sent with yields the character of its key.
Decodes(x) == Only(CharOf(x.before, Event(x.code))) = Yields(x.key, x.before)

\* The modifiers recorded with the n-th byte of q, on those of the keyboard now.
Before(q, on, n) == IF n <= Len(q) THEN q[n].before ELSE on

\* k leads through the bytes of q to on.
Leads(q, k, on) ==
  /\ k = Before(q, on, 1)
  /\ \A n \in 1 .. Len(q) : Before(q, on, n + 1) = After(q[n]) /\ Decodes(q[n])

KbTypes ==
  /\ kstate \in Mods
  /\ held \subseteq KeySet
  /\ capsOn \in {0, 1}
  /\ queue \in Seq(Entry)

KbInv ==
  /\ KbTypes
  /\ Leads(queue, kstate, OnKeyboard)
  /\ CharsAsTyped

-----------------------------------------------------------------------------
(* The key table. *)

\* No scan code is in the table twice, none of a modifier is in it, and no key has
\* the character 0.
LEMMA KeyTableEntry ==
  ASSUME NEW t \in KeyTable
  PROVE  /\ t[1] \in 1 .. 57 /\ t[1] \notin {l_shift, r_shift, caps_lock, 41, 55}
         /\ t[2] \in 1 .. 255 /\ t[3] \in 1 .. 255
         /\ \A u \in KeyTable : u[1] = t[1] => u = t
<1>1. t \in LetterTable => t[1] \in 16 .. 50 /\ t[1] \notin {26, 27, 28, 39, 40, 41, 42, 43}
  BY DEF LetterTable
<1>2. t[1] \in 1 .. 57 /\ t[1] \notin {42, 54, 58, 41, 55}
  BY DEF KeyTable, LetterTable, OtherTable
<1>3. t[2] \in 1 .. 255 /\ t[3] \in 1 .. 255
  BY DEF KeyTable, LetterTable, OtherTable
<1>4. ASSUME NEW u \in KeyTable, u[1] = t[1] PROVE u = t
  BY <1>4 DEF KeyTable, LetterTable, OtherTable
<1> QED
  BY <1>2, <1>3, <1>4 DEF l_shift, r_shift, caps_lock

\* The letters of the table are those of the layout ...
LEMMA LettersAgree ==
  /\ \A t \in LetterTable : <<t[1], t[2]>> \in LetterKeys /\ t[3] = t[2] - 32
  /\ \A u \in LetterKeys : <<u[1], u[2], u[2] - 32>> \in LetterTable
<1>1. \A t \in LetterTable : <<t[1], t[2]>> \in LetterKeys /\ t[3] = t[2] - 32
  BY DEF LetterTable, LetterKeys
<1>2. \A u \in LetterKeys : <<u[1], u[2], u[2] - 32>> \in LetterTable
  BY DEF LetterTable, LetterKeys
<1> QED
  BY <1>1, <1>2

\* ... and the other keys too, but for that of ` and ~ and the number block.
LEMMA OthersAgree ==
  /\ \A t \in OtherTable : t[1] # 1 => t \in OtherKeys
  /\ \A u \in OtherKeys : u[1] \notin {41, 55, 74, 78} => u \in OtherTable
  /\ \A u \in OtherKeys : u[1] = 41 <=> u = <<41, 96, 126>>
  /\ \A u \in OtherKeys : u[1] \notin {0, 1} /\ u \in Int \X Int \X Int
  /\ \A t \in OtherTable : t[1] = 1 <=> t = <<1, 96, 126>>
<1>1. \A t \in OtherTable : t[1] # 1 => t \in OtherKeys
  BY DEF OtherTable, OtherKeys
<1>2. \A u \in OtherKeys : u[1] \notin {41, 55, 74, 78} => u \in OtherTable
  BY DEF OtherTable, OtherKeys
<1>3. \A u \in OtherKeys : u[1] = 41 <=> u = <<41, 96, 126>>
  BY DEF OtherKeys
<1>4. \A u \in OtherKeys : u[1] \notin {0, 1} /\ u \in Int \X Int \X Int
  BY DEF OtherKeys
<1>5. \A t \in OtherTable : t[1] = 1 <=> t = <<1, 96, 126>>
  BY DEF OtherTable
<1> QED
  BY <1>1, <1>2, <1>3, <1>4, <1>5

-----------------------------------------------------------------------------
(* The queue. *)

\* A byte put at the end under the keyboard's modifiers leads to what it makes of them.
LEMMA LeadsAppend ==
  ASSUME NEW q \in Seq(Entry), NEW k, NEW on, NEW x \in Entry,
         Leads(q, k, on), x.before = on, Decodes(x)
  PROVE  Append(q, x) \in Seq(Entry) /\ Leads(Append(q, x), k, After(x))
<1> DEFINE a == Append(q, x)
<1>1. a \in Seq(Entry) /\ Len(a) = Len(q) + 1 /\ Len(q) \in Nat
  OBVIOUS
<1>2. a[Len(q) + 1] = x /\ \A n \in 1 .. Len(q) : a[n] = q[n]
  OBVIOUS
<1> HIDE DEF a
<1>3. Before(a, After(x), Len(q) + 2) = After(x)
  BY <1>1 DEF Before
<1>4. \A n \in 1 .. Len(q) + 1 : Before(a, After(x), n) = Before(q, on, n)
  BY <1>1, <1>2 DEF Before
<1>5. ASSUME NEW n \in 1 .. Len(a)
      PROVE  Before(a, After(x), n + 1) = After(a[n]) /\ Decodes(a[n])
  <2>1. CASE n \in 1 .. Len(q)
    <3>1. Before(a, After(x), n + 1) = Before(q, on, n + 1)
      BY <1>1, <1>4, <2>1
    <3> QED
      BY <1>2, <2>1, <3>1 DEF Leads
  <2>2. CASE n = Len(q) + 1
    BY <1>1, <1>2, <1>3, <2>2
  <2> QED
    BY <1>1, <2>1, <2>2
<1>6. k = Before(a, After(x), 1)
  BY <1>1, <1>4 DEF Leads
<1> QED
  BY <1>1, <1>5, <1>6 DEF Leads, a

\* Taking a byte off leaves the modifiers that decoding it gives.
LEMMA LeadsTail ==
  ASSUME NEW q \in Seq(Entry), NEW k, NEW on, q # <<>>, Leads(q, k, on)
  PROVE  /\ Head(q) \in Entry /\ Tail(q) \in Seq(Entry)
         /\ k = Head(q).before /\ Decodes(Head(q))
         /\ Leads(Tail(q), After(Head(q)), on)
<1> DEFINE a == Tail(q)
<1>1. a \in Seq(Entry) /\ Len(a) = Len(q) - 1 /\ Len(q) \in Nat \ {0}
  OBVIOUS
<1>2. Head(q) = q[1] /\ q[1] \in Entry /\ \A n \in 1 .. Len(q) - 1 : a[n] = q[n + 1]
  OBVIOUS
<1> HIDE DEF a
<1>3. \A n \in 1 .. Len(q) : Before(a, on, n) = Before(q, on, n + 1)
  BY <1>1, <1>2 DEF Before
<1>4. ASSUME NEW n \in 1 .. Len(a)
      PROVE  Before(a, on, n + 1) = After(a[n]) /\ Decodes(a[n])
  <2>1. n + 1 \in 1 .. Len(q) /\ n \in 1 .. Len(q) - 1
    BY <1>1
  <2>2. Before(q, on, (n + 1) + 1) = After(q[n + 1]) /\ Decodes(q[n + 1])
    BY <2>1 DEF Leads
  <2> QED
    BY <1>2, <1>3, <2>1, <2>2
<1>5. 1 \in 1 .. Len(q)
  BY <1>1
<1>6. After(q[1]) = Before(a, on, 1) /\ Decodes(q[1])
  BY <1>3, <1>5 DEF Leads
<1>7. k = q[1].before
  BY <1>5 DEF Leads, Before
<1> QED
  BY <1>1, <1>2, <1>4, <1>6, <1>7 DEF Leads, a

-----------------------------------------------------------------------------
(* The bytes of a key. *)

\* The key and the direction Event reads off the codes keys send.
LEMMA EventOfCode ==
  /\ \A c \in 1 .. 88 : Event(c) = [is_down |-> 1, key |-> c]
  /\ \A c \in 1 .. 63 : Event(c + 128) = [is_down |-> 0, key |-> c]
  /\ \A c \in 64 .. 88 : Event(c + 128) = [is_down |-> 1, key |-> c + 128]
  /\ Event(E0) = [is_down |-> 1, key |-> E0]
<1>1. \A c \in 1 .. 88 : c \div 64 # 2
  OBVIOUS
<1>2. \A c \in 1 .. 63 : (c + 128) \div 64 = 2 /\ (c + 128) % 64 = c
  OBVIOUS
<1>3. \A c \in 64 .. 88 : (c + 128) \div 64 # 2
  OBVIOUS
<1>4. 224 \div 64 # 2
  OBVIOUS
<1> QED
  BY <1>1, <1>2, <1>3, <1>4 DEF Event, E0

\* A key above 88 has neither a character nor a part in the modifiers.
LEMMA NoSuchKey ==
  ASSUME NEW m, NEW c \in 89 .. 255
  PROVE  /\ CharOf(m, [is_down |-> 1, key |-> c]) = 0
         /\ ModifiersAfter(m, [is_down |-> 1, key |-> c]) = m
<1>1. ~ \E t \in KeyTable : t[1] = c
  BY KeyTableEntry
<1> QED
  BY <1>1 DEF CharOf, keycode_to_char, ModifiersAfter, l_shift, r_shift, caps_lock

\* The keyboard's modifiers are bits.
LEMMA OnKeyboardType ==
  ASSUME capsOn \in {0, 1}
  PROVE  OnKeyboard \in Mods
  BY DEF OnKeyboard, Mods

\* What the layout says of the key the driver takes k for, with shift for caps lock, is
\* what the driver's table says of k's scan code.
LEMMA LegendIsTable ==
  ASSUME NEW k, NEW on, k[2] \in 1 .. 88
  PROVE  Legend(TakenFor(k), ShiftLocked(on)) =
           {IF is_shifted(on) THEN t[3] ELSE t[2] : t \in {u \in KeyTable : u[1] = k[2]}}
<1>1. PICK c \in 1 .. 88, j \in Nat, up \in BOOLEAN :
        /\ c = k[2] /\ (up <=> is_shifted(on))
        /\ TakenFor(k) = <<0, j>>
        /\ j = IF c = 1 THEN 41 ELSE IF c \in {41, 55, 74, 78} THEN 0 ELSE c
  <2>1. is_shifted(on) \in BOOLEAN
    BY DEF is_shifted
  <2>2. k[2] = 1 => TakenFor(k) = <<0, 41>>
    BY DEF TakenFor
  <2>3. k[2] \in {41, 55, 74, 78} => TakenFor(k) = <<0, 0>>
    BY DEF TakenFor, NoKey
  <2>4. k[2] \notin {1, 41, 55, 74, 78} => TakenFor(k) = <<0, k[2]>>
    BY DEF TakenFor
  <2>5. PICK c \in 1 .. 88, up \in BOOLEAN : c = k[2] /\ up = is_shifted(on)
    BY <2>1
  <2>6. PICK j \in Nat : j = IF c = 1 THEN 41 ELSE IF c \in {41, 55, 74, 78} THEN 0 ELSE c
    OBVIOUS
  <2>7. TakenFor(k) = <<0, j>>
    <3>1. CASE c = 1
      BY <2>2, <2>5, <2>6, <3>1
    <3>2. CASE c \in {41, 55, 74, 78}
      BY <2>3, <2>5, <2>6, <3>2
    <3>3. CASE c \notin {1, 41, 55, 74, 78}
      BY <2>4, <2>5, <2>6, <3>3
    <3> QED
      BY <3>1, <3>2, <3>3
  <2> QED
    BY <2>5, <2>6, <2>7, Zenon
<1>2. PICK A : A = {IF up THEN t[2] - 32 ELSE t[2] : t \in {u \in LetterKeys : u[1] = j}}
  BY Zenon
<1>3. PICK B : B = {IF up THEN t[3] ELSE t[2] : t \in {u \in OtherKeys : u[1] = j}}
  BY Zenon
<1>4. Legend(TakenFor(k), ShiftLocked(on)) = A \cup B
  <2>1. /\ (ShiftLocked(on).l_shift = 1 \/ ShiftLocked(on).r_shift = 1) <=> up
        /\ ~(ShiftLocked(on).caps = 1)
    BY <1>1 DEF ShiftLocked
  <2>2. ~(TakenFor(k)[1] = E0) /\ TakenFor(k)[2] = j
    BY <1>1 DEF E0
  <2> QED
    BY <1>2, <1>3, <2>1, <2>2 DEF Legend
<1>5. PICK C : C = {IF is_shifted(on) THEN t[3] ELSE t[2] : t \in {u \in KeyTable : u[1] = k[2]}}
  BY Zenon
<1>6. \A x : x \in C <=> \E t \in KeyTable : t[1] = c /\ x = IF up THEN t[3] ELSE t[2]
  BY <1>1, <1>5
<1>7. \A x : x \in A <=> \E u \in LetterKeys : u[1] = j /\ x = IF up THEN u[2] - 32 ELSE u[2]
  BY <1>2
<1>8. \A x : x \in B <=> \E u \in OtherKeys : u[1] = j /\ x = IF up THEN u[3] ELSE u[2]
  BY <1>3
<1>9. ASSUME NEW t \in LetterTable, t[1] = c
      PROVE  (IF up THEN t[3] ELSE t[2]) \in A
  <2>1. j = c
    <3>1. t[1] \notin {1, 41, 55, 74, 78}
      BY DEF LetterTable
    <3> QED
      BY <1>1, <1>9, <3>1
  <2>2. PICK u \in LetterKeys : u[1] = t[1] /\ u[2] = t[2] /\ t[3] = t[2] - 32
    BY LettersAgree
  <2> QED
    BY <1>7, <1>9, <2>1, <2>2
<1>10. ASSUME NEW t \in OtherTable, t[1] = c
       PROVE  (IF up THEN t[3] ELSE t[2]) \in B
  <2>1. CASE c = 1
    <3>1. t = <<1, 96, 126>> /\ j = 41
      BY <1>1, <1>10, <2>1, OthersAgree
    <3>2. <<41, 96, 126>> \in OtherKeys
      BY DEF OtherKeys
    <3> QED
      BY <1>8, <3>1, <3>2
  <2>2. CASE c # 1
    <3>1. t \in OtherKeys
      BY <1>10, <2>2, OthersAgree
    <3>2. c \notin {41, 55, 74, 78}
      BY <1>10, KeyTableEntry DEF KeyTable
    <3>3. j = c
      BY <1>1, <2>2, <3>2
    <3> QED
      BY <1>8, <1>10, <3>1, <3>3
  <2> QED
    BY <2>1, <2>2
<1>11. ASSUME NEW u \in LetterKeys, u[1] = j
       PROVE  (IF up THEN u[2] - 32 ELSE u[2]) \in C
  <2>1. PICK t \in LetterTable : t[1] = u[1] /\ t[2] = u[2] /\ t[3] = u[2] - 32
    BY LettersAgree
  <2>2. t[1] \notin {0, 1, 41, 55, 74, 78}
    BY DEF LetterTable
  <2>3. c = j
    BY <1>1, <1>11, <2>1, <2>2
  <2>4. t \in KeyTable
    BY DEF KeyTable
  <2> QED
    BY <1>6, <1>11, <2>1, <2>3, <2>4
<1>12. ASSUME NEW u \in OtherKeys, u[1] = j
       PROVE  (IF up THEN u[3] ELSE u[2]) \in C
  <2>1. CASE j = 41
    <3>1. u = <<41, 96, 126>> /\ c = 1
      BY <1>1, <1>12, <2>1, OthersAgree
    <3>2. <<1, 96, 126>> \in KeyTable
      BY DEF KeyTable, OtherTable
    <3> QED
      BY <1>6, <3>1, <3>2
  <2>2. CASE j # 41
    <3>1. j \notin {0, 1}
      BY <1>12, OthersAgree
    <3>2. c = j /\ j \notin {41, 55, 74, 78}
      BY <1>1, <2>2, <3>1
    <3>3. u \in KeyTable
      BY <1>12, <3>2, OthersAgree DEF KeyTable
    <3> QED
      BY <1>6, <1>12, <3>2, <3>3
  <2> QED
    BY <2>1, <2>2
<1>13. C = A \cup B
  <2>1. ASSUME NEW x \in C PROVE x \in A \cup B
    BY <1>6, <1>9, <1>10, <2>1 DEF KeyTable
  <2>2. ASSUME NEW x \in A \cup B PROVE x \in C
    BY <1>7, <1>8, <1>11, <1>12, <2>2
  <2> QED
    BY <2>1, <2>2
<1> QED
  BY <1>4, <1>5, <1>13

\* Where the driver does not depart from the layout, it takes the key for what it is.
LEMMA TakenRight ==
  ASSUME NEW k, NEW on \in Mods, k[2] \in 1 .. 88, k[1] \in {0, E0}, ~Departs(k, on)
  PROVE  Legend(TakenFor(k), ShiftLocked(on)) = Legend(k, on)
<1>1. PICK up \in BOOLEAN :
        /\ up <=> on.l_shift = 1 \/ on.r_shift = 1
        /\ up <=> ShiftLocked(on).l_shift = 1 \/ ShiftLocked(on).r_shift = 1
        /\ ~(on.caps = 1) /\ ~(ShiftLocked(on).caps = 1)
  <2>1. ~(on.caps = 1)
    BY DEF Departs
  <2>2. is_shifted(on) <=> (on.l_shift = 1 \/ on.r_shift = 1)
    BY <2>1 DEF is_shifted
  <2>3. PICK up \in BOOLEAN : up <=> on.l_shift = 1 \/ on.r_shift = 1
    BY Zenon
  <2>4. /\ up <=> ShiftLocked(on).l_shift = 1 \/ ShiftLocked(on).r_shift = 1
        /\ ~(ShiftLocked(on).caps = 1)
    BY <2>2, <2>3 DEF ShiftLocked
  <2> QED
    BY <2>1, <2>3, <2>4, Zenon
<1>2. CASE k[1] = 0
  <2>1. TakenFor(k) = <<0, k[2]>>
    BY <1>2 DEF Departs, TakenFor
  <2>2. TakenFor(k)[1] # E0 /\ TakenFor(k)[2] = k[2] /\ k[1] # E0
    BY <1>2, <2>1 DEF E0
  <2> QED
    BY <1>1, <2>2 DEF Legend
<1>3. CASE k[1] = E0
  <2>1. k[2] = 28 /\ Legend(k, on) = {10}
    <3>1. k[2] = 28
      BY <1>3 DEF Departs
    <3> QED
      BY <1>3, <3>1 DEF Legend
  <2>2. \A t \in KeyTable : t[1] = 28 <=> t = <<28, 10, 10>>
    BY DEF KeyTable, LetterTable, OtherTable
  <2>3. <<28, 10, 10>> \in KeyTable
    BY DEF KeyTable, OtherTable
  <2>4. {u \in KeyTable : u[1] = k[2]} = {<<28, 10, 10>>}
    BY <2>1, <2>2, <2>3
  <2>5. {IF is_shifted(on) THEN t[3] ELSE t[2] : t \in {<<28, 10, 10>>}} = {10}
    OBVIOUS
  <2> QED
    BY <2>1, <2>4, <2>5, LegendIsTable
<1> QED
  BY <1>2, <1>3

\* The driver's character of a key is the one it should yield.
LEMMA LegendIsChar ==
  ASSUME NEW k, NEW on \in Mods, k[2] \in 1 .. 88, k[1] \in {0, E0}
  PROVE  Only(CharOf(on, [is_down |-> 1, key |-> k[2]])) = Yields(k, on)
<1>1. PICK c \in 1 .. 88 : c = k[2]
  BY Zenon
<1>2. PICK L : L = {IF is_shifted(on) THEN t[3] ELSE t[2] : t \in {u \in KeyTable : u[1] = c}}
  BY Zenon
<1>3. Yields(k, on) = L
  <2>1. Legend(TakenFor(k), ShiftLocked(on)) = L
    BY <1>1, <1>2, LegendIsTable
  <2>2. CASE Departs(k, on)
    BY <2>1, <2>2, Zenon DEF Yields
  <2>3. CASE ~Departs(k, on)
    <3>1. Legend(TakenFor(k), ShiftLocked(on)) = Legend(k, on)
      BY <2>3, TakenRight
    <3> QED
      BY <2>1, <2>3, <3>1, Zenon DEF Yields
  <2> QED
    BY <2>2, <2>3
<1>4. CASE \E t \in KeyTable : t[1] = c
  <2>1. PICK t \in KeyTable : t[1] = c
    BY <1>4
  <2>2. \A u \in KeyTable : u[1] = c => u = t
    BY <2>1, KeyTableEntry
  <2>3. t[2] \in 1 .. 255 /\ t[3] \in 1 .. 255 /\ c \notin {l_shift, r_shift, caps_lock}
    BY <2>1, KeyTableEntry
  <2>4. {u \in KeyTable : u[1] = c} = {t}
    BY <2>1, <2>2
  <2>5. L = {IF is_shifted(on) THEN t[3] ELSE t[2]}
    BY <1>2, <2>4
  <2>6. (CHOOSE u \in KeyTable : u[1] = c) = t
    BY <2>1, <2>2
  <2>7. keycode_to_char(on, c) = IF is_shifted(on) THEN t[3] ELSE t[2]
    BY <1>4, <2>6, Zenon DEF keycode_to_char
  <2>8. CharOf(on, [is_down |-> 1, key |-> c]) = IF is_shifted(on) THEN t[3] ELSE t[2]
    BY <2>3, <2>7 DEF CharOf
  <2> QED
    BY <1>1, <1>3, <2>3, <2>5, <2>8 DEF Only
<1>5. CASE ~ \E t \in KeyTable : t[1] = c
  <2>1. L = {}
    BY <1>2, <1>5
  <2>2. CharOf(on, [is_down |-> 1, key |-> c]) = 0
    BY <1>5 DEF CharOf, keycode_to_char
  <2> QED
    BY <1>1, <1>3, <2>1, <2>2 DEF Only
<1> QED
  BY <1>4, <1>5

\* What presses nothing should yield nothing.
LEMMA NothingPressed ==
  ASSUME NEW on
  PROVE  Yields(NoKey, on) = {}
<1>1. PICK a, b : a = on /\ b = ShiftLocked(on)
  BY Zenon
<1>2. \A t \in LetterKeys : t[1] # 0
  BY DEF LetterKeys
<1>3. \A t \in OtherKeys : t[1] # 0
  BY DEF OtherKeys
<1>4. NoKey[1] # E0 /\ NoKey[2] = 0 /\ TakenFor(NoKey) = NoKey
  BY DEF NoKey, E0, TakenFor
<1>5. {u \in LetterKeys : u[1] = NoKey[2]} = {} /\ {u \in OtherKeys : u[1] = NoKey[2]} = {}
  BY <1>2, <1>3, <1>4
<1>6. \A m : Legend(NoKey, m) = {}
  BY <1>4, <1>5 DEF Legend
<1> QED
  BY <1>4, <1>6, Zenon DEF Yields

\* A key is a prefix and a scan code; those of the modifiers have no prefix.
LEMMA KeyShape ==
  ASSUME NEW k \in KeySet, KeyboardAssumption
  PROVE  /\ k[2] \in 1 .. 88 /\ k = <<k[1], k[2]>> /\ k[1] \in {0, E0}
         /\ k[2] \in {42, 54, 58} => k[1] = 0
<1>1. CASE k \in {0} \X Keys
  <2>1. k = <<k[1], k[2]>> /\ k[1] = 0 /\ k[2] \in Keys
    BY <1>1
  <2> QED
    BY <2>1 DEF KeyboardAssumption
<1>2. CASE k \in {E0} \X ExtendedKeys
  <2>1. k = <<k[1], k[2]>> /\ k[1] = E0 /\ k[2] \in ExtendedKeys
    BY <1>2
  <2> QED
    BY <2>1 DEF KeyboardAssumption
<1> QED
  BY <1>1, <1>2 DEF KeySet

\* The byte of a press decodes to its key's legend and moves the modifiers as the
\* press did.
LEMMA PressByte ==
  ASSUME KbTypes, NEW k \in KeySet, Press(k), KeyboardAssumption
  PROVE  LET x == [code |-> k[2], before |-> OnKeyboard, key |-> k]
         IN  x \in Entry /\ Decodes(x) /\ After(x) = OnKeyboard'
<1> DEFINE x == [code |-> k[2], before |-> OnKeyboard, key |-> k]
<1>1. k[2] \in 1 .. 88 /\ k = <<k[1], k[2]>> /\ k[1] \in {0, E0}
      /\ (k[2] \in {42, 54, 58} => k[1] = 0)
  BY KeyShape
<1>2. Event(x.code) = [is_down |-> 1, key |-> k[2]]
  BY <1>1, EventOfCode
<1>3. Only(CharOf(OnKeyboard, [is_down |-> 1, key |-> k[2]])) = Yields(k, OnKeyboard)
  BY <1>1, LegendIsChar, OnKeyboardType DEF KbTypes
<1>4. x \in Entry
  BY <1>1, OnKeyboardType DEF Entry, KbTypes
<1>5. Decodes(x)
  BY <1>2, <1>3 DEF Decodes
<1>6. held' = held \cup {k} /\ capsOn' = IF k[2] = 58 THEN 1 - capsOn ELSE capsOn
  BY DEF Press, caps_lock
<1>7. After(x) = OnKeyboard'
  <2>1. After(x) = ModifiersAfter(OnKeyboard, [is_down |-> 1, key |-> k[2]])
    BY <1>2 DEF After
  <2>2. CASE k[2] = 42
    BY <1>1, <1>6, <2>1, <2>2 DEF ModifiersAfter, OnKeyboard, l_shift, r_shift, caps_lock
  <2>3. CASE k[2] = 54
    BY <1>1, <1>6, <2>1, <2>3 DEF ModifiersAfter, OnKeyboard, l_shift, r_shift, caps_lock
  <2>4. CASE k[2] = 58
    BY <1>1, <1>6, <2>1, <2>4 DEF ModifiersAfter, OnKeyboard, l_shift, r_shift, caps_lock
  <2>5. CASE k[2] \notin {42, 54, 58}
    BY <1>1, <1>6, <2>1, <2>5 DEF ModifiersAfter, OnKeyboard, l_shift, r_shift, caps_lock
  <2> QED
    BY <2>2, <2>3, <2>4, <2>5
<1> QED
  BY <1>4, <1>5, <1>7

\* The byte of a release decodes to no character and moves the modifiers as the
\* release did.
LEMMA ReleaseByte ==
  ASSUME KbTypes, NEW k \in KeySet, Release(k), KeyboardAssumption
  PROVE  LET x == [code |-> k[2] + 128, before |-> OnKeyboard, key |-> NoKey]
         IN  x \in Entry /\ Decodes(x) /\ After(x) = OnKeyboard'
<1> DEFINE x == [code |-> k[2] + 128, before |-> OnKeyboard, key |-> NoKey]
<1>1. k[2] \in 1 .. 88 /\ k = <<k[1], k[2]>> /\ k[1] \in {0, E0}
      /\ (k[2] \in {42, 54, 58} => k[1] = 0)
  BY KeyShape
<1>2. held' = held \ {k} /\ capsOn' = capsOn
  BY DEF Release
<1>3. x \in Entry
  <2>1. k[2] + 128 \in 0 .. 255
    BY <1>1
  <2> QED
    BY <2>1, OnKeyboardType DEF Entry, KbTypes
<1>4. CASE k[2] \in 64 .. 88
  <2>1. Event(x.code) = [is_down |-> 1, key |-> k[2] + 128]
    BY <1>4, EventOfCode
  <2>2. k[2] + 128 \in 89 .. 255
    BY <1>4
  <2>3. CharOf(OnKeyboard, Event(x.code)) = 0 /\ After(x) = OnKeyboard
    BY <2>1, <2>2, NoSuchKey, SMTT(40) DEF After
  <2>4. OnKeyboard' = OnKeyboard
    BY <1>1, <1>2, <1>4 DEF OnKeyboard, l_shift, r_shift
  <2> QED
    BY <1>3, <2>3, <2>4, NothingPressed DEF Decodes, Only
<1>5. CASE k[2] \in 1 .. 63
  <2>1. Event(x.code) = [is_down |-> 0, key |-> k[2]]
    BY <1>5, EventOfCode
  <2>2. CharOf(OnKeyboard, Event(x.code)) = 0
    BY <2>1 DEF CharOf
  <2>3. After(x) = ModifiersAfter(OnKeyboard, [is_down |-> 0, key |-> k[2]])
    BY <2>1 DEF After
  <2>4. After(x) = OnKeyboard'
    <3>1. CASE k[2] = 42
      BY <1>1, <1>2, <2>3, <3>1 DEF ModifiersAfter, OnKeyboard, l_shift, r_shift, caps_lock
    <3>2. CASE k[2] = 54
      BY <1>1, <1>2, <2>3, <3>2 DEF ModifiersAfter, OnKeyboard, l_shift, r_shift, caps_lock
    <3>3. CASE k[2] \notin {42, 54}
      BY <1>1, <1>2, <2>3, <3>3 DEF ModifiersAfter, OnKeyboard, l_shift, r_shift, caps_lock
    <3> QED
      BY <3>1, <3>2, <3>3
  <2> QED
    BY <1>3, <2>2, <2>4, NothingPressed DEF Decodes, Only
<1> QED
  BY <1>1, <1>4, <1>5

\* Queueing a key's bytes keeps the queue leading to the keyboard's modifiers.
LEMMA SendKeeps ==
  ASSUME KbTypes, Leads(queue, kstate, OnKeyboard), NEW k \in KeySet, NEW c, NEW pressed, NEW on,
         LET x == [code |-> c, before |-> OnKeyboard, key |-> pressed]
         IN  x \in Entry /\ Decodes(x) /\ After(x) = on,
         Send(k, c, pressed)
  PROVE  queue' \in Seq(Entry) /\ Leads(queue', kstate, on) /\ UNCHANGED <<kstate, handed>>
<1> DEFINE x == [code |-> c, before |-> OnKeyboard, key |-> pressed]
           p == [code |-> E0, before |-> OnKeyboard, key |-> NoKey]
<1>1. queue \in Seq(Entry)
  BY DEF KbTypes
<1>2. UNCHANGED <<kstate, handed>>
  BY DEF Send
<1>3. p \in Entry
  BY OnKeyboardType DEF Entry, KbTypes, E0
<1>4. Event(p.code) = [is_down |-> 1, key |-> E0]
  BY EventOfCode
<1>5. Decodes(p) /\ After(p) = OnKeyboard
  <2>1. E0 \in 89 .. 255
    BY DEF E0
  <2>2. CharOf(OnKeyboard, Event(p.code)) = 0
    BY <1>4, <2>1, NoSuchKey
  <2>3. Decodes(p)
    BY <2>2, NothingPressed DEF Decodes, Only
  <2>4. After(p) = OnKeyboard
    BY <1>4, <2>1, NoSuchKey DEF After
  <2> QED
    BY <2>3, <2>4
<1>6. x \in Entry /\ Decodes(x) /\ After(x) = on /\ x.before = OnKeyboard /\ p.before = OnKeyboard
  OBVIOUS
<1>7. k[1] \in {0, E0}
  BY DEF KeySet
<1>8. queue' = (IF k[1] = 0 THEN queue
                ELSE Append(queue, [code |-> k[1], before |-> OnKeyboard, key |-> NoKey])) \o <<x>>
  BY DEF Send
<1>9. k[1] = E0 => [code |-> k[1], before |-> OnKeyboard, key |-> NoKey] = p
  OBVIOUS
<1> HIDE DEF x, p
<1>10. CASE k[1] = 0
  <2>1. queue' = Append(queue, x)
    BY <1>1, <1>6, <1>8, <1>10, AppendIsConcat
  <2> QED
    BY <1>1, <1>2, <1>6, <2>1, LeadsAppend
<1>11. CASE k[1] = E0
  <2>1. Append(queue, p) \in Seq(Entry) /\ Leads(Append(queue, p), kstate, OnKeyboard)
    BY <1>1, <1>3, <1>5, <1>6, LeadsAppend
  <2>2. queue' = Append(Append(queue, p), x)
    <3>1. k[1] # 0
      BY <1>11 DEF E0
    <3> QED
      BY <1>6, <1>8, <1>9, <1>11, <2>1, <3>1, AppendIsConcat
  <2> QED
    BY <1>2, <1>6, <2>1, <2>2, LeadsAppend
<1> QED
  BY <1>7, <1>10, <1>11

-----------------------------------------------------------------------------
(* The invariant. *)

\* It holds from KbInit on, whatever is typed and whenever it is read.
LEMMA KbInvInductive ==
  KbSpec => []KbInv
<1> USE KeyboardAssumption
<1>1. KbInit => KbInv
  <2> SUFFICES ASSUME KbInit PROVE KbInv
    OBVIOUS
  <2>1. KbTypes /\ Leads(queue, kstate, OnKeyboard)
    BY DEF KbInit, KbTypes, Mods, Leads, Before, OnKeyboard
  <2>2. CharsAsTyped
    BY NothingPressed, Zenon DEF KbInit, CharsAsTyped, Yields
  <2> QED
    BY <2>1, <2>2 DEF KbInv
<1>2. KbInv /\ [KbNext]_kbvars => KbInv'
  <2> SUFFICES ASSUME KbInv, [KbNext]_kbvars PROVE KbInv'
    OBVIOUS
  <2> USE DEF KbInv
  <2>1. ASSUME handle_keypress PROVE KbInv'
    <3> DEFINE x == Head(queue)
    <3>1. queue \in Seq(Entry) /\ queue # <<>>
      BY <2>1 DEF handle_keypress, KbTypes
    <3>2. /\ x \in Entry /\ Tail(queue) \in Seq(Entry)
          /\ kstate = x.before /\ Decodes(x)
          /\ Leads(Tail(queue), After(x), OnKeyboard)
      BY <3>1, LeadsTail
    <3>3. /\ kstate' = After(x)
          /\ handed' = [char |-> CharOf(x.before, Event(x.code)), key |-> x.key, on |-> x.before]
          /\ queue' = Tail(queue) /\ held' = held /\ capsOn' = capsOn
      BY <2>1, <3>2 DEF handle_keypress, After
    <3> HIDE DEF x
    <3>4. After(x) \in Mods
      BY <3>2 DEF After, ModifiersAfter, Event, Entry, Mods
    <3>5. OnKeyboard' = OnKeyboard
      BY <3>3 DEF OnKeyboard
    <3>6. CharsAsTyped'
      BY <3>2, <3>3 DEF CharsAsTyped, Decodes, Only, Yields
    <3>7. Leads(queue, kstate, OnKeyboard)'
      BY <3>2, <3>3, <3>5
    <3>8. KbTypes'
      BY <3>2, <3>3, <3>4 DEF KbTypes
    <3> QED
      BY <3>6, <3>7, <3>8
  <2>2. ASSUME NEW k \in KeySet, Press(k) PROVE KbInv'
    <3>1. Send(k, k[2], k)
      BY <2>2 DEF Press
    <3>2. queue' \in Seq(Entry) /\ Leads(queue', kstate, OnKeyboard') /\ UNCHANGED <<kstate, handed>>
      BY <2>2, <3>1, PressByte, SendKeeps
    <3>3. held' \subseteq KeySet /\ capsOn' \in {0, 1}
      BY <2>2 DEF Press, KbTypes
    <3> QED
      BY <3>2, <3>3 DEF KbTypes, CharsAsTyped
  <2>3. ASSUME NEW k \in KeySet, Release(k) PROVE KbInv'
    <3>1. Send(k, k[2] + 128, NoKey)
      BY <2>3 DEF Release
    <3>2. queue' \in Seq(Entry) /\ Leads(queue', kstate, OnKeyboard') /\ UNCHANGED <<kstate, handed>>
      BY <2>3, <3>1, ReleaseByte, SendKeeps
    <3>3. held' \subseteq KeySet /\ capsOn' \in {0, 1}
      BY <2>3 DEF Release, KbTypes
    <3> QED
      BY <3>2, <3>3 DEF KbTypes, CharsAsTyped
  <2>4. CASE UNCHANGED kbvars
    BY <2>4 DEF kbvars, KbTypes, OnKeyboard, CharsAsTyped
  <2> QED
    BY <2>1, <2>2, <2>3, <2>4 DEF KbNext
<1> QED
  BY <1>1, <1>2, PTL DEF KbSpec

\* The decoder never loses track of shift and caps lock (handle_keypress,
\* kernel/drivers/ps2/ps2.c): between any two interrupts its modifiers are
\* the ones the next byte was sent under.
THEOREM ModifiersAreTheKeyboards == KbSpec => []ModifiersFollow
<1>1. KbInv => ModifiersFollow
  <2> SUFFICES ASSUME KbInv PROVE ModifiersFollow
    OBVIOUS
  <2>1. queue \in Seq(Entry) /\ kstate = Before(queue, OnKeyboard, 1)
    BY DEF KbInv, KbTypes, Leads
  <2>2. CASE queue = <<>>
    BY <2>1, <2>2 DEF ModifiersFollow, Before
  <2>3. CASE queue # <<>>
    BY <2>1, <2>3 DEF ModifiersFollow, Before
  <2> QED
    BY <2>2, <2>3
<1> QED
  BY <1>1, KbInvInductive, PTL

\* What the driver passes on for a byte (keycode_to_char) is the character the US
\* layout gives the key that was pressed, under the modifiers it was pressed with, and
\* nothing for any other byte, but for the departures CharsAsTyped names: Esc, the key
\* of ` and ~, the number block, the extended block and caps lock.
THEOREM CharsAreTheOnesTyped == KbSpec => []CharsAsTyped
<1>1. KbInv => CharsAsTyped
  BY DEF KbInv
<1> QED
  BY <1>1, KbInvInductive, PTL
=============================================================================
