------------------------------ MODULE Keyboard ------------------------------
(***************************************************************************)
(* The scan-code decoder of the PS/2 driver, fed by a keyboard.  Keys are  *)
(* pressed, repeat while they are held, and are released; each event puts  *)
(* the scan code, after an E0 for the keys of the extended block, into the *)
(* keyboard's queue, and every interrupt hands the driver one byte.  What  *)
(* the driver does with a character is irq_ps2 of module Kernel.           *)
(***************************************************************************)
EXTENDS Integers, Sequences

CONSTANTS
  Keys,          \* scan codes of the keys on the keyboard
  ExtendedKeys,  \* scan codes of those sent after an E0
  QUEUE_BYTES    \* capacity of the keyboard's queue (16)

ASSUME KeyboardAssumption ==
  /\ Keys \subseteq 1 .. 88 /\ ExtendedKeys \subseteq 1 .. 88
  /\ ExtendedKeys \cap {42, 54, 58} = {}
  /\ QUEUE_BYTES \in Nat /\ QUEUE_BYTES >= 2

VARIABLES
  kstate,   \* the driver's modifiers
  held,     \* keys that are down: <<prefix, scan code>>, prefix 0 or E0
  capsOn,   \* make codes of caps lock sent so far, modulo 2
  queue,    \* bytes in the keyboard, each with the key it presses and the modifiers
            \* there were before
  handed    \* the last byte: its character, the key it presses and those modifiers

kbvars == <<kstate, held, capsOn, queue, handed>>

l_shift == 42
r_shift == 54
caps_lock == 58
E0 == 224

-----------------------------------------------------------------------------
(* The driver. *)

is_shifted(m) == m.caps = 1 \/ m.r_shift = 1 \/ m.l_shift = 1

\* Mutation: two neighbouring keys are exchanged.
LetterTable_swapped ==
  {<<31, 97, 65>>, <<48, 98, 66>>, <<46, 99, 67>>, <<32, 100, 68>>, <<18, 101, 69>>,
   <<33, 102, 70>>, <<34, 103, 71>>, <<35, 104, 72>>, <<23, 105, 73>>, <<36, 106, 74>>,
   <<37, 107, 75>>, <<38, 108, 76>>, <<50, 109, 77>>, <<49, 110, 78>>, <<24, 111, 79>>,
   <<25, 112, 80>>, <<16, 113, 81>>, <<19, 114, 82>>, <<30, 115, 83>>, <<20, 116, 84>>,
   <<22, 117, 85>>, <<47, 118, 86>>, <<17, 119, 87>>, <<45, 120, 88>>, <<21, 121, 89>>,
   <<44, 122, 90>>}

\* The keys the driver knows: scan code, character without and with shift.
LetterTable ==
  {<<30, 97, 65>>, <<48, 98, 66>>, <<46, 99, 67>>, <<32, 100, 68>>, <<18, 101, 69>>,
   <<33, 102, 70>>, <<34, 103, 71>>, <<35, 104, 72>>, <<23, 105, 73>>, <<36, 106, 74>>,
   <<37, 107, 75>>, <<38, 108, 76>>, <<50, 109, 77>>, <<49, 110, 78>>, <<24, 111, 79>>,
   <<25, 112, 80>>, <<16, 113, 81>>, <<19, 114, 82>>, <<31, 115, 83>>, <<20, 116, 84>>,
   <<22, 117, 85>>, <<47, 118, 86>>, <<17, 119, 87>>, <<45, 120, 88>>, <<21, 121, 89>>,
   <<44, 122, 90>>}

OtherTable ==
  {<<57, 32, 32>>, <<51, 44, 60>>, <<52, 46, 62>>, <<28, 10, 10>>, <<14, 8, 8>>,
   <<1, 96, 126>>, <<2, 49, 33>>, <<3, 50, 64>>, <<4, 51, 35>>, <<5, 52, 36>>,
   <<6, 53, 37>>, <<7, 54, 94>>, <<8, 55, 38>>, <<9, 56, 42>>, <<10, 57, 40>>,
   <<11, 48, 41>>, <<12, 45, 95>>, <<13, 61, 43>>, <<15, 9, 9>>, <<26, 91, 123>>,
   <<27, 93, 125>>, <<39, 59, 58>>, <<40, 39, 34>>, <<43, 92, 124>>, <<53, 47, 63>>}

KeyTable == LetterTable \cup OtherTable

\* 0 for a key that has no character.
keycode_to_char(m, key) ==
  IF \E t \in KeyTable : t[1] = key
  THEN LET t == CHOOSE t \in KeyTable : t[1] = key
       IN  IF is_shifted(m) THEN t[3] ELSE t[2]
  ELSE 0

\* Mutation: the two high bits are dropped from every code.
EventMasked(char_code) == [is_down |-> IF char_code < 128 THEN 1 ELSE 0, key |-> char_code % 64]

\* A release is recognised by its two high bits, so that of a key above 63 is
\* taken for the press of a key there is none of.
Event(char_code) ==
  IF char_code \div 64 = 2
  THEN [is_down |-> 0, key |-> char_code % 64]
  ELSE [is_down |-> 1, key |-> char_code]

\* Mutation: caps lock is turned off by releasing it.
ModifiersHeldCaps(m, e) ==
  CASE e.key = l_shift   -> [m EXCEPT !.l_shift = e.is_down]
    [] e.key = r_shift   -> [m EXCEPT !.r_shift = e.is_down]
    [] e.key = caps_lock -> [m EXCEPT !.caps = e.is_down]
    [] OTHER             -> m

ModifiersAfter(m, e) ==
  CASE e.key = l_shift   -> [m EXCEPT !.l_shift = e.is_down]
    [] e.key = r_shift   -> [m EXCEPT !.r_shift = e.is_down]
    [] e.key = caps_lock -> IF e.is_down = 1 THEN [m EXCEPT !.caps = 1 - m.caps] ELSE m
    [] OTHER             -> m

\* The character handle_keypress passes on, 0 for none.
CharOf(m, e) ==
  IF e.key \in {l_shift, r_shift, caps_lock} \/ e.is_down = 0 THEN 0
  ELSE keycode_to_char(m, e.key)

\* kb_handler: the interrupt for the next byte.
handle_keypress ==
  /\ queue # <<>>
  /\ LET e == Event(Head(queue).code)
     IN  /\ kstate' = ModifiersAfter(kstate, e)
         /\ handed' = [char |-> CharOf(kstate, e), key |-> Head(queue).key, on |-> Head(queue).before]
  /\ queue' = Tail(queue)
  /\ UNCHANGED <<held, capsOn>>

-----------------------------------------------------------------------------
(* The keyboard. *)

\* The modifiers as they are on the keyboard: which shift keys are down and
\* whether caps lock is on.
OnKeyboard == [l_shift |-> IF <<0, l_shift>> \in held THEN 1 ELSE 0,
               r_shift |-> IF <<0, r_shift>> \in held THEN 1 ELSE 0,
               caps    |-> capsOn]

\* The US layout, row by row from the top, as the keys are printed: the letters ...
LetterKeys ==
  {<<16, 113>>, <<17, 119>>, <<18, 101>>, <<19, 114>>, <<20, 116>>, <<21, 121>>,
   <<22, 117>>, <<23, 105>>, <<24, 111>>, <<25, 112>>,
   <<30, 97>>, <<31, 115>>, <<32, 100>>, <<33, 102>>, <<34, 103>>, <<35, 104>>,
   <<36, 106>>, <<37, 107>>, <<38, 108>>,
   <<44, 122>>, <<45, 120>>, <<46, 99>>, <<47, 118>>, <<48, 98>>, <<49, 110>>, <<50, 109>>}

\* ... and the other keys of the main block, and the *, - and + of the number block.
OtherKeys ==
  {<<41, 96, 126>>, <<2, 49, 33>>, <<3, 50, 64>>, <<4, 51, 35>>, <<5, 52, 36>>,
   <<6, 53, 37>>, <<7, 54, 94>>, <<8, 55, 38>>, <<9, 56, 42>>, <<10, 57, 40>>,
   <<11, 48, 41>>, <<12, 45, 95>>, <<13, 61, 43>>, <<14, 8, 8>>,
   <<15, 9, 9>>, <<26, 91, 123>>, <<27, 93, 125>>, <<43, 92, 124>>,
   <<39, 59, 58>>, <<40, 39, 34>>, <<28, 10, 10>>,
   <<51, 44, 60>>, <<52, 46, 62>>, <<53, 47, 63>>, <<57, 32, 32>>,
   <<55, 42, 42>>, <<74, 45, 45>>, <<78, 43, 43>>}

\* What key k stands for under the modifiers on: caps lock changes letters only, and
\* back while shift is held.  Of the extended block, Enter and / have a character.
Legend(k, on) ==
  LET shift == on.l_shift = 1 \/ on.r_shift = 1
      caps  == on.caps = 1
  IN  IF k[1] = E0 THEN (IF k[2] = 28 THEN {10} ELSE IF k[2] = 53 THEN {47} ELSE {})
      ELSE      {IF (shift /\ ~caps) \/ (caps /\ ~shift) THEN t[2] - 32 ELSE t[2] :
                 t \in {u \in LetterKeys : u[1] = k[2]}}
           \cup {IF shift THEN t[3] ELSE t[2] : t \in {u \in OtherKeys : u[1] = k[2]}}

\* What a byte that presses nothing, a release or a prefix, is recorded with.
NoKey == <<0, 0>>

\* Queue an event of key k: the E0 of an extended key, then the code.
Send(k, code, pressed) ==
  /\ Len(queue) + 2 <= QUEUE_BYTES
  /\ queue' = (IF k[1] = 0 THEN queue
               ELSE Append(queue, [code |-> k[1], before |-> OnKeyboard, key |-> NoKey]))
              \o <<[code |-> code, before |-> OnKeyboard, key |-> pressed]>>
  /\ UNCHANGED <<kstate, handed>>

KeySet == ({0} \X Keys) \cup ({E0} \X ExtendedKeys)

\* A key goes down, or repeats.
Press(k) ==
  /\ held' = held \cup {k}
  /\ capsOn' = IF k[2] = caps_lock THEN 1 - capsOn ELSE capsOn
  /\ Send(k, k[2], k)

Release(k) ==
  /\ k \in held
  /\ held' = held \ {k}
  /\ UNCHANGED capsOn
  /\ Send(k, k[2] + 128, NoKey)

KbInit ==
  /\ kstate = [l_shift |-> 0, r_shift |-> 0, caps |-> 0]
  /\ held = {}
  /\ capsOn = 0
  /\ queue = <<>>
  /\ handed = [char |-> 0, key |-> NoKey, on |-> OnKeyboard]

KbNext ==
  \/ handle_keypress
  \/ \E k \in KeySet : Press(k) \/ Release(k)

KbSpec == KbInit /\ [][KbNext]_kbvars

-----------------------------------------------------------------------------
(* Properties. *)

\* However presses, repeats, releases and interrupts interleave, the driver's
\* modifiers are those the keyboard had when it sent the next byte to be read:
\* no shift key gets stuck, and no key of the extended block moves one.
ModifiersFollow ==
  kstate = IF queue = <<>> THEN OnKeyboard ELSE Head(queue).before

\* Where the driver departs from the layout: it takes scan code 1, which is Esc, for
\* the key of ` and ~ (ps2.c:6) and knows neither that key's own code nor the number
\* block; it does not look at the prefix E0; and to it caps lock is one more shift key
\* (is_shifted, ps2.c:77).
Departs(k, on) ==
  \/ k[1] = 0 /\ k[2] \in {1, 41, 55, 74, 78}
  \/ k[1] = E0 /\ k[2] # 28
  \/ on.caps = 1

\* The key the driver takes k for, and the modifiers it takes those on the keyboard for.
TakenFor(k) ==
  IF k[2] = 1 THEN <<0, 41>> ELSE IF k[2] \in {41, 55, 74, 78} THEN NoKey ELSE <<0, k[2]>>

ShiftLocked(on) ==
  [l_shift |-> IF is_shifted(on) THEN 1 ELSE 0, r_shift |-> 0, caps |-> 0]

\* However late it is read, a byte that presses a key yields the character the US
\* layout gives that key under the modifiers it was pressed with, and any other byte
\* yields none; where the driver departs from the layout, it yields that of the key
\* and the modifiers it takes them for (keycode_to_char, handle_keypress).
CharsAsTyped ==
  LET k == handed.key  on == handed.on
  IN  (IF handed.char = 0 THEN {} ELSE {handed.char}) =
        IF Departs(k, on) THEN Legend(TakenFor(k), ShiftLocked(on)) ELSE Legend(k, on)
=============================================================================
