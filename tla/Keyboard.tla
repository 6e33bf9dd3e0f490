------------------------------ MODULE Keyboard ------------------------------
(***************************************************************************)
(* The keyboard driver, pintos/src/devices/kbd.c: scancodes to characters. *)
(* A scancode is a number, with 0xe0 * 256 added for the prefixed ones, a  *)
(* character its code.                                                     *)
(***************************************************************************)
EXTENDS Integers, Sequences, FiniteSets

CONSTANTS
  PhysicalKeys,    \* the scancodes of the keys on the keyboard
  NoChar

VARIABLES
  mods,      \* left_shift, right_shift, left_alt, right_alt, left_ctrl, right_ctrl
  caps_lock,
  typed,     \* the character of the last interrupt, NoChar if it made none
  down,      \* the keys that are physically held down (history)
  last,      \* the scancode of the last interrupt, and whether a release (history)
  rebooted

kbdVars == <<mods, caps_lock, typed, down, last, rebooted>>

\* first_scancode and chars of the entries of the three keymaps.
invariant_keymap ==
  <<[first |-> 1, chars |-> <<27>>], [first |-> 14, chars |-> <<8>>],
    [first |-> 15, chars |-> <<9, 81, 87, 69, 82, 84, 89, 85, 73, 79, 80>>],
    [first |-> 28, chars |-> <<13>>],
    [first |-> 30, chars |-> <<65, 83, 68, 70, 71, 72, 74, 75, 76>>],
    [first |-> 44, chars |-> <<90, 88, 67, 86, 66, 78, 77>>],
    [first |-> 55, chars |-> <<42>>], [first |-> 57, chars |-> <<32>>],
    [first |-> 83, chars |-> <<127>>]>>

unshifted_keymap ==
  <<[first |-> 2, chars |-> <<49, 50, 51, 52, 53, 54, 55, 56, 57, 48, 45, 61>>],
    [first |-> 26, chars |-> <<91, 93>>], [first |-> 39, chars |-> <<59, 39, 96>>],
    [first |-> 43, chars |-> <<92>>], [first |-> 51, chars |-> <<44, 46, 47>>]>>

shifted_keymap ==
  <<[first |-> 2, chars |-> <<33, 64, 35, 36, 37, 94, 38, 42, 40, 41, 95, 43>>],
    [first |-> 26, chars |-> <<123, 125>>], [first |-> 39, chars |-> <<58, 34, 126>>],
    [first |-> 43, chars |-> <<124>>], [first |-> 51, chars |-> <<60, 62, 63>>]>>

Prefix == 224 * 256

\* The table of shift keys at the end of keyboard_interrupt.
shift_keys ==
  [left_shift |-> 42, right_shift |-> 54, left_alt |-> 56, right_alt |-> Prefix + 56,
   left_ctrl |-> 29, right_ctrl |-> Prefix + 29]

\* The character for a scancode, NoChar if the keymap has none.
map_key(k, code) ==
  LET hits == {i \in DOMAIN k : code >= k[i].first /\ code < k[i].first + Len(k[i].chars)}
  IN  IF hits = {} THEN NoChar
      ELSE LET e == k[CHOOSE i \in hits : \A j \in hits : i <= j]
           IN  e.chars[code - e.first + 1]

tolower(c) == IF c \in 65 .. 90 THEN c + 32 ELSE c

KbdInit ==
  /\ mods = [m \in DOMAIN shift_keys |-> FALSE]
  /\ caps_lock = FALSE
  /\ typed = NoChar
  /\ down = {}
  /\ last = [code |-> 0, release |-> FALSE]
  /\ rebooted = FALSE

shift == mods.left_shift \/ mods.right_shift

alt == mods.left_alt \/ mods.right_alt

ctrl == mods.left_ctrl \/ mods.right_ctrl

Mapped(code) ==
  IF map_key(invariant_keymap, code) # NoChar THEN map_key(invariant_keymap, code)
  ELSE map_key(IF shift THEN shifted_keymap ELSE unshifted_keymap, code)

\* Ctrl overrides Shift, and Alt sets the high bit.
Modified(c) ==
  LET plain == IF ctrl /\ c \in 64 .. 95 THEN c - 64
               ELSE IF shift = caps_lock THEN tolower(c) ELSE c
  IN  IF alt THEN plain + 128 ELSE plain

\* A seeded fault: a release counts as a press.
ShiftKey_ignores_release(code, release) ==
  mods' = [m \in DOMAIN mods |-> mods[m] \/ (shift_keys[m] = code /\ ~release)]

ShiftKey(code, release) ==
  mods' = [m \in DOMAIN mods |-> IF shift_keys[m] = code THEN ~release ELSE mods[m]]

\* One interrupt: a key goes down or up.  room is ~input_full ().
keyboard_interrupt(code, release, room) ==
  LET c == Mapped(code)
  IN  /\ ~rebooted
      /\ release => code \in down
      /\ down' = IF release THEN down \ {code} ELSE down \cup {code}
      /\ last' = [code |-> code, release |-> release]
      /\ IF code = 58
           THEN /\ caps_lock' = IF release THEN caps_lock ELSE ~caps_lock
                /\ typed' = NoChar
                /\ UNCHANGED <<mods, rebooted>>
           ELSE IF c # NoChar
             THEN /\ rebooted' = (~release /\ c = 127 /\ ctrl /\ alt)
                  /\ typed' = IF release \/ ~room \/ rebooted' THEN NoChar ELSE Modified(c)
                  /\ UNCHANGED <<mods, caps_lock>>
             ELSE /\ ShiftKey(code, release)
                  /\ typed' = NoChar
                  /\ UNCHANGED <<caps_lock, rebooted>>

KbdNext ==
  \E code \in PhysicalKeys, release, room \in BOOLEAN : keyboard_interrupt(code, release, room)

-----------------------------------------------------------------------------
(* Properties. *)

(* The driver's idea of Shift, Alt and Ctrl is what the fingers hold, for   *)
(* any sequence of presses and releases of both sides and of prefixed keys, *)
(* and no key map entry hides a shift key.                                  *)
ModifiersTracked ==
  \A m \in DOMAIN mods : mods[m] <=> shift_keys[m] \in down

Held(m) == shift_keys[m] \in down

(* A letter key gives a control character with Ctrl, otherwise upper case   *)
(* exactly when one of Shift and Caps Lock is on, and Alt adds the high     *)
(* bit, judged by the keys held and not by the driver's own variables.      *)
LettersAsHeld ==
  typed # NoChar /\ last.code \in 30 .. 38 =>
    LET letter == invariant_keymap[5].chars[last.code - 29]
        upper == (Held("left_shift") \/ Held("right_shift")) # caps_lock
        base == IF Held("left_ctrl") \/ Held("right_ctrl") THEN letter - 64
                ELSE IF upper THEN letter ELSE letter + 32
    IN  typed = base + (IF Held("left_alt") \/ Held("right_alt") THEN 128 ELSE 0)
=============================================================================
