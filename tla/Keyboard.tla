------------------------------ MODULE Keyboard ------------------------------
(***************************************************************************)
(* The keyboard driver, kernel/keyboard.c. Keys send scan codes, some of   *)
(* them two bytes long, and each byte is an interrupt; the handler keeps   *)
(* what it must remember from one byte to the next in global variables.    *)
(*                                                                         *)
(* The handler runs with interrupts off and is one action. The keyboard    *)
(* and its controller are the environment: keys go down, repeat and come   *)
(* up in any order, and their bytes wait in the controller until they are  *)
(* read from KBD_BUF_PORT.                                                 *)
(*                                                                         *)
(* The names of the specification and its parts begin with the module's:   *)
(* TerminalProofs extends this module and Console together.                *)
(***************************************************************************)
EXTENDS Naturals, Sequences, SequencesExt

CONSTANTS
    Keys,         \* the keys somebody uses: pairs of a prefix (or 0) and a scan code
    MaxBytes,     \* how many bytes the controller holds
    MaxTyped      \* bound: characters typed; the code has none (k_index)

\* Scan codes
L_SHIFT_PRESSED    == 42
R_SHIFT_PRESSED    == 54
ALT_PRESSED        == 56
CTRL_PRESSED       == 29
CAPS_LOCK_PRESSED  == 58
EXTEND_CODE_PREFIX == 224
EXTEND_CODE_FLUSH  == 0
Released(code)     == code + 128

\* keymap has two characters for each scan code up to LastMapped: <<c, 0>> and
\* <<c, 1>>. Those of the keys in CHAR_INVISIBLE are no characters.
LastMapped     == 58
CHAR_INVISIBLE == {0, L_SHIFT_PRESSED, R_SHIFT_PRESSED, ALT_PRESSED, CTRL_PRESSED, CAPS_LOCK_PRESSED}
Letters        == (16 .. 25) \union (30 .. 38) \union (44 .. 50)

\* No key has the scan code 96: it would send the prefix when it comes up, which
\* is why scan code set 1 leaves it out.
ASSUME KeyboardAssumption ==
    /\ Keys \subseteq {0, EXTEND_CODE_PREFIX} \X (1 .. 127)
    /\ \A key \in Keys : key[1] = 0 => Released(key[2]) # EXTEND_CODE_PREFIX
    /\ MaxBytes \in Nat /\ MaxTyped \in Nat

VARIABLES
    extend_flag, crtl_status, shift_status, alt_status, caps_lock_status,
    keyboard_output_buffer,   \* what was written to it, k_index characters
    port,                     \* bytes in the controller
    held,                     \* the keys that are down
    shift, caps, typed        \* history: what the key strokes so far mean

driver == <<extend_flag, crtl_status, shift_status, alt_status, caps_lock_status,
            keyboard_output_buffer>>
keyboard_vars == <<driver, port, held, shift, caps, typed>>

\* init_keyboard: the port is emptied.
KeyboardInit ==
    /\ extend_flag = EXTEND_CODE_FLUSH
    /\ crtl_status = FALSE /\ shift_status = FALSE /\ alt_status = FALSE
    /\ caps_lock_status = FALSE /\ keyboard_output_buffer = << >>
    /\ port = << >> /\ held = {}
    /\ shift = FALSE /\ caps = FALSE /\ typed = << >>

----------------------------------------------------------------------------
(* The environment                                                         *)

Sends(key, code) == port' = port \o IF key[1] = 0 THEN <<code>> ELSE <<key[1], code>>

\* What a key stroke means: the character keys type, letters by shift and caps
\* lock and others by shift alone; keys with a prefix type nothing.
IsShift(key)     == key[1] = 0 /\ key[2] \in {L_SHIFT_PRESSED, R_SHIFT_PRESSED}
IsCapsLock(key)  == key[1] = 0 /\ key[2] = CAPS_LOCK_PRESSED
IsCharacter(key) == key[1] = 0 /\ key[2] <= LastMapped /\ key[2] \notin CHAR_INVISIBLE

Column(isLetter, isShift, isCaps) ==
    IF isShift # (isLetter /\ isCaps) THEN 1 ELSE 0

\* A key goes down, or is held and repeats.
Press(key) ==
    /\ Len(port) + 2 <= MaxBytes /\ (IsCharacter(key) => Len(typed) < MaxTyped)
    /\ Sends(key, key[2]) /\ held' = held \union {key}
    /\ shift' = (shift \/ IsShift(key))
    /\ caps' = (caps # IsCapsLock(key))
    /\ typed' = IF IsCharacter(key)
                   THEN Append(typed, <<key[2], Column(key[2] \in Letters, shift, caps)>>) ELSE typed
    /\ UNCHANGED driver

Release(key) ==
    /\ Len(port) + 2 <= MaxBytes /\ key \in held
    /\ Sends(key, Released(key[2])) /\ held' = held \ {key}
    /\ shift' = (shift /\ ~IsShift(key))
    /\ UNCHANGED <<driver, caps, typed>>

----------------------------------------------------------------------------
(* keyboard_input_handler: where its switches set a key's status           *)

\* The status after a scan code that may be that of a key, pressed or released
Status(old, codes, scancode) ==
    IF scancode \in codes THEN TRUE
    ELSE IF scancode \in {Released(c) : c \in codes} THEN FALSE
    ELSE old

\* A bug to be caught: the prefix is not remembered.
FlagNot == EXTEND_CODE_FLUSH

Flag == EXTEND_CODE_PREFIX

\* A byte after the prefix
Extended(scancode) ==
    /\ extend_flag = EXTEND_CODE_PREFIX /\ extend_flag' = EXTEND_CODE_FLUSH
    /\ crtl_status' = Status(crtl_status, {CTRL_PRESSED}, scancode)
    /\ alt_status' = Status(alt_status, {ALT_PRESSED}, scancode)
    /\ UNCHANGED <<shift_status, caps_lock_status, keyboard_output_buffer>>

Prefix(scancode) ==
    /\ extend_flag # EXTEND_CODE_PREFIX /\ scancode = EXTEND_CODE_PREFIX
    /\ extend_flag' = Flag
    /\ UNCHANGED <<crtl_status, shift_status, alt_status, caps_lock_status, keyboard_output_buffer>>

Modifiers == {L_SHIFT_PRESSED, R_SHIFT_PRESSED, ALT_PRESSED, CTRL_PRESSED}

\* A bug to be caught: the right shift key is forgotten when it comes up.
ShiftStatusLeft(scancode) ==
    scancode = R_SHIFT_PRESSED \/ Status(shift_status, {L_SHIFT_PRESSED}, scancode)

ShiftStatus(scancode) == Status(shift_status, {L_SHIFT_PRESSED, R_SHIFT_PRESSED}, scancode)

Modifier(scancode) ==
    /\ extend_flag # EXTEND_CODE_PREFIX
    /\ scancode \in Modifiers \union {Released(c) : c \in Modifiers} \union {CAPS_LOCK_PRESSED}
    /\ crtl_status' = Status(crtl_status, {CTRL_PRESSED}, scancode)
    /\ alt_status' = Status(alt_status, {ALT_PRESSED}, scancode)
    /\ shift_status' = ShiftStatus(scancode)
    /\ caps_lock_status' = (caps_lock_status # (scancode = CAPS_LOCK_PRESSED))
    /\ UNCHANGED <<extend_flag, keyboard_output_buffer>>

\* The default of the switch: a character, or a code that is not mapped
Character(scancode) ==
    /\ extend_flag # EXTEND_CODE_PREFIX /\ scancode # EXTEND_CODE_PREFIX
    /\ scancode \notin Modifiers \union {Released(c) : c \in Modifiers} \union {CAPS_LOCK_PRESSED}
    /\ keyboard_output_buffer' =
          IF scancode <= LastMapped /\ scancode \notin CHAR_INVISIBLE
             THEN LET offset == IF scancode \in Letters THEN shift_status # caps_lock_status ELSE shift_status
                  IN  Append(keyboard_output_buffer, <<scancode, IF offset THEN 1 ELSE 0>>)
             ELSE keyboard_output_buffer
    /\ UNCHANGED <<extend_flag, crtl_status, shift_status, alt_status, caps_lock_status>>

keyboard_input_handler ==
    /\ port # << >> /\ port' = Tail(port)
    /\ LET scancode == Head(port)
       IN  Extended(scancode) \/ Prefix(scancode) \/ Modifier(scancode) \/ Character(scancode)
    /\ UNCHANGED <<held, shift, caps, typed>>

----------------------------------------------------------------------------
KeyboardNext == keyboard_input_handler \/ \E key \in Keys : Press(key) \/ Release(key)

KeyboardSpec == KeyboardInit /\ [][KeyboardNext]_keyboard_vars

----------------------------------------------------------------------------
(* Types; after the prefix there is another byte to come.                  *)
KeyboardTypeOK ==
    /\ extend_flag \in {EXTEND_CODE_FLUSH, EXTEND_CODE_PREFIX}
    /\ extend_flag = EXTEND_CODE_PREFIX => port # << >>
    /\ {crtl_status, shift_status, alt_status, caps_lock_status} \subseteq BOOLEAN
    /\ Len(port) <= MaxBytes /\ held \subseteq Keys

(* The output buffer holds the characters that were typed, in their order  *)
(* and with the shift and caps lock of the moment each was typed, however  *)
(* late its bytes are read: always a beginning of what was typed, and all  *)
(* of it when no byte waits (keyboard_input_handler).                      *)
BufferIsWhatWasTyped ==
    /\ IsPrefix(keyboard_output_buffer, typed)
    /\ port = << >> => keyboard_output_buffer = typed

(* No modifier sticks: with no byte waiting, ctrl, shift and alt count as  *)
(* pressed only while a ctrl, shift or alt key is down, in whatever order  *)
(* the left and the right one went down and up; and the driver waits for   *)
(* the rest of a scan code only while it is to come (KeyboardTypeOK).      *)
(* (keyboard_input_handler)                                                *)
NoStuckModifier ==
    /\ KeyboardTypeOK
    /\ port = << >> =>
        /\ crtl_status  => \E key \in held : key[2] = CTRL_PRESSED
        /\ alt_status   => \E key \in held : key[2] = ALT_PRESSED
        /\ shift_status => \E key \in held : IsShift(key)
============================================================================
