----------------------------- MODULE MCKeyboard -----------------------------
(***************************************************************************)
(* An instance of Keyboard for TLC: two character keys, the enter key of   *)
(* the keypad and the modifiers.                                           *)
(***************************************************************************)
EXTENDS Keyboard

A == <<0, 30>>
One == <<0, 2>>
KeypadEnter == <<EXTEND_CODE_PREFIX, 28>>

MCKeys ==
    {A, One, KeypadEnter, <<0, CAPS_LOCK_PRESSED>>, <<0, L_SHIFT_PRESSED>>, <<0, R_SHIFT_PRESSED>>}
        \union {0, EXTEND_CODE_PREFIX} \X {CTRL_PRESSED}
        \union {<<EXTEND_CODE_PREFIX, ALT_PRESSED>>}
============================================================================
