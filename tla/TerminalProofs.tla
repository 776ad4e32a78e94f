--------------------------- MODULE TerminalProofs ---------------------------
(***************************************************************************)
(* Proofs about the two ends of the terminal.                              *)
(*                                                                         *)
(* Keyboard, for any set of keys and any number of bytes and characters:   *)
(* the output buffer is what was typed, and no modifier sticks. The        *)
(* inductive invariant runs the handler ahead of time: there is a run of   *)
(* it over the bytes that wait in the controller, from the driver's state  *)
(* now, that ends where the key strokes so far should lead. A key stroke   *)
(* makes the run longer at its end, the handler shorter at its beginning.  *)
(*                                                                         *)
(* Console, for any threads, formats, screen, font and int: a text is      *)
(* never mixed with another, the screen is the end of all that was         *)
(* written, printf returns how many characters it wrote and, undisturbed,  *)
(* wrote what its format means. Each of the four has its inductive         *)
(* invariant, InTurn, Windowed, Lengths and Precise, on top of Shaped,     *)
(* which says where io_lock and the threads' variables are; a lemma for    *)
(* each action says what it does to the variables of its thread, and the   *)
(* invariants are proved over these few kinds of moves.                    *)
(***************************************************************************)
EXTENDS Keyboard, Console, FiniteSetTheorems, SequenceTheorems, WellFoundedInduction, TLAPS

----------------------------------------------------------------------------
(* Keyboard                                                                *)

Characters == Nat \X {0, 1}

\* A state of the driver
Driver == [flag : {EXTEND_CODE_FLUSH, EXTEND_CODE_PREFIX}, ctrl : BOOLEAN, shift : BOOLEAN,
           alt : BOOLEAN, caps : BOOLEAN, buf : Seq(Characters)]

Now == [flag |-> extend_flag, ctrl |-> crtl_status, shift |-> shift_status,
        alt |-> alt_status, caps |-> caps_lock_status, buf |-> keyboard_output_buffer]

ModifierCodes == Modifiers \union {Released(c) : c \in Modifiers} \union {CAPS_LOCK_PRESSED}

\* What a byte that is no prefix and no modifier writes to the buffer
Written(d, c) ==
  IF c <= LastMapped /\ c \notin CHAR_INVISIBLE
     THEN Append(d.buf, <<c, IF (IF c \in Letters THEN d.shift # d.caps ELSE d.shift) THEN 1 ELSE 0>>)
     ELSE d.buf

\* The driver's state after byte c
After(d, c) ==
  IF d.flag = EXTEND_CODE_PREFIX
     THEN [d EXCEPT !.flag = EXTEND_CODE_FLUSH, !.ctrl = Status(@, {CTRL_PRESSED}, c),
                    !.alt = Status(@, {ALT_PRESSED}, c)]
  ELSE IF c = EXTEND_CODE_PREFIX THEN [d EXCEPT !.flag = EXTEND_CODE_PREFIX]
  ELSE IF c \in ModifierCodes
     THEN [d EXCEPT !.ctrl = Status(@, {CTRL_PRESSED}, c), !.alt = Status(@, {ALT_PRESSED}, c),
                    !.shift = Status(@, {L_SHIFT_PRESSED, R_SHIFT_PRESSED}, c),
                    !.caps = (@ # (c = CAPS_LOCK_PRESSED))]
  ELSE [d EXCEPT !.buf = Written(d, c)]

\* s is a beginning of t.
Begins(s, t) == Len(s) <= Len(t) /\ \A i \in 1 .. Len(s) : s[i] = t[i]

\* The handler goes from d to e over the bytes of b, and the buffer is a
\* beginning of t all the way.
IsRun(run, d, b, e, t) ==
  /\ run \in [0 .. Len(b) -> Driver]
  /\ run[0] = d /\ run[Len(b)] = e
  /\ \A i \in 1 .. Len(b) : run[i] = After(run[i - 1], b[i])
  /\ \A i \in 0 .. Len(b) : Begins(run[i].buf, t)

Runs(d, b, e, t) == \E run : IsRun(run, d, b, e, t)

Typed ==
  /\ Now \in Driver
  /\ port \in Seq(Nat) /\ Len(port) <= MaxBytes /\ held \subseteq Keys
  /\ shift \in BOOLEAN /\ caps \in BOOLEAN /\ typed \in Seq(Characters)

\* What the key strokes so far mean, once all their bytes are read
IsMeant(e) ==
  /\ e.flag = EXTEND_CODE_FLUSH /\ e.buf = typed /\ e.shift = shift /\ e.caps = caps
  /\ e.ctrl  => \E key \in held : key[2] = CTRL_PRESSED
  /\ e.alt   => \E key \in held : key[2] = ALT_PRESSED
  /\ e.shift => \E key \in held : IsShift(key)

IInv == Typed /\ \E e \in Driver : IsMeant(e) /\ Runs(Now, port, e, typed)

----------------------------------------------------------------------------
(* Beginnings of sequences                                                 *)

\* Begins says the same as IsPrefix.
LEMMA BeginsIsPrefix ==
  ASSUME NEW s \in Seq(Characters), NEW t \in Seq(Characters), Begins(s, t)
  PROVE  IsPrefix(s, t)
<1>1. SubSeq(t, 1, Len(s)) \in Seq(Characters) /\ Len(SubSeq(t, 1, Len(s))) = Len(s)
  BY DEF Begins
<1>2. \A i \in 1 .. Len(s) : SubSeq(s, 1, Len(s))[i] = s[i] /\ SubSeq(t, 1, Len(s))[i] = t[i]
  BY DEF Begins
<1>3. SubSeq(s, 1, Len(s)) = s
  BY <1>2
<1> QED BY <1>1, <1>2, <1>3 DEF IsPrefix, Begins

\* A beginning stays one when the sequence grows.
LEMMA BeginsLonger ==
  ASSUME NEW s \in Seq(Characters), NEW t \in Seq(Characters), NEW x \in Characters
  PROVE  Begins(s, t) => Begins(s, Append(t, x))
BY DEF Begins

\* A sequence begins itself.
LEMMA BeginsSelf ==
  ASSUME NEW s \in Seq(Characters)
  PROVE  Begins(s, s)
BY DEF Begins

----------------------------------------------------------------------------
(* The handler                                                             *)

\* The scan codes of keyboard.h
LEMMA Codes ==
  /\ EXTEND_CODE_FLUSH = 0 /\ EXTEND_CODE_PREFIX = 224 /\ L_SHIFT_PRESSED = 42
  /\ R_SHIFT_PRESSED = 54 /\ ALT_PRESSED = 56 /\ CTRL_PRESSED = 29 /\ CAPS_LOCK_PRESSED = 58
  /\ LastMapped = 58 /\ CHAR_INVISIBLE = {0, 42, 54, 56, 29, 58}
  /\ ModifierCodes = {42, 54, 56, 29, 170, 182, 184, 157, 58}
<1>1. {Released(c) : c \in {42, 54, 56, 29}} = {170, 182, 184, 157}
  BY DEF Released
<1> QED BY <1>1 DEF EXTEND_CODE_FLUSH, EXTEND_CODE_PREFIX, L_SHIFT_PRESSED, R_SHIFT_PRESSED, ALT_PRESSED,
           CTRL_PRESSED, CAPS_LOCK_PRESSED, LastMapped, CHAR_INVISIBLE, ModifierCodes, Modifiers

\* A status is a truth value.
LEMMA StatusType ==
  ASSUME NEW old \in BOOLEAN, NEW codes, NEW c
  PROVE  Status(old, codes, c) \in BOOLEAN
BY DEF Status

\* A byte takes the driver from a state to a state.
LEMMA AfterType ==
  ASSUME NEW d \in Driver, NEW c \in Nat
  PROVE  After(d, c) \in Driver
<1>1. Written(d, c) \in Seq(Characters)
  BY DEF Written, Driver, Characters
<1>2. \A codes : Status(d.ctrl, codes, c) \in BOOLEAN /\ Status(d.alt, codes, c) \in BOOLEAN
                   /\ Status(d.shift, codes, c) \in BOOLEAN
  BY StatusType DEF Driver
<1>3. (d.caps # (c = CAPS_LOCK_PRESSED)) \in BOOLEAN
  OBVIOUS
<1> QED BY <1>1, <1>2, <1>3 DEF After, Driver

----------------------------------------------------------------------------
(* Runs                                                                    *)

\* Over no bytes the handler stays where it is.
LEMMA RunsNone ==
  ASSUME NEW d \in Driver, NEW t, Begins(d.buf, t)
  PROVE  Runs(d, << >>, d, t)
<1> DEFINE run == [i \in 0 .. 0 |-> d]
<1>1. IsRun(run, d, << >>, d, t)
  BY DEF IsRun
<1> QED BY <1>1 DEF Runs

\* One more byte, after which the buffer is still a beginning of what was typed
LEMMA RunsAppend ==
  ASSUME NEW d, NEW b \in Seq(Nat), NEW e \in Driver, NEW t \in Seq(Characters), Runs(d, b, e, t),
         NEW c \in Nat, NEW u \in Seq(Characters), u = t \/ \E x \in Characters : u = Append(t, x),
         Begins(After(e, c).buf, u)
  PROVE  Runs(d, Append(b, c), After(e, c), u)
<1>1. PICK run : IsRun(run, d, b, e, t)
  BY DEF Runs
<1> DEFINE n == Len(b)
           bb == Append(b, c)
           new == [i \in 0 .. n + 1 |-> IF i = n + 1 THEN After(e, c) ELSE run[i]]
<1>2. n \in Nat /\ Len(bb) = n + 1 /\ bb[n + 1] = c /\ \A i \in 1 .. n : bb[i] = b[i]
  OBVIOUS
<1>3. /\ run \in [0 .. n -> Driver] /\ run[0] = d /\ run[n] = e
      /\ \A i \in 1 .. n : run[i] = After(run[i - 1], b[i])
      /\ \A i \in 0 .. n : Begins(run[i].buf, t)
  BY <1>1 DEF IsRun
<1> HIDE DEF n, bb
<1>4. new \in [0 .. n + 1 -> Driver]
  BY <1>2, <1>3, AfterType
<1>5. new[0] = d /\ new[n + 1] = After(e, c)
  BY <1>2, <1>3
<1>6. ASSUME NEW i \in 1 .. n + 1
      PROVE  new[i] = After(new[i - 1], bb[i])
  <2>1. CASE i = n + 1
    BY <1>2, <1>3, <2>1
  <2>2. CASE i # n + 1
    <3>1. i \in 1 .. n /\ i - 1 \in 0 .. n /\ i - 1 # n + 1
      BY <1>2, <2>2
    <3> QED BY <1>2, <1>3, <3>1
  <2> QED BY <2>1, <2>2
<1>7. ASSUME NEW i \in 0 .. n + 1
      PROVE  Begins(new[i].buf, u)
  <2>1. CASE i = n + 1
    BY <1>5, <2>1
  <2>2. CASE i # n + 1
    <3>1. i \in 0 .. n /\ new[i] = run[i] /\ run[i].buf \in Seq(Characters)
      BY <1>2, <1>3, <2>2 DEF Driver
    <3> QED BY <1>3, <3>1, BeginsLonger
  <2> QED BY <2>1, <2>2
<1>8. IsRun(new, d, bb, After(e, c), u)
  BY <1>2, <1>4, <1>5, <1>6, <1>7 DEF IsRun
<1> QED BY <1>8 DEF Runs, bb

\* The handler reads the first byte.
LEMMA RunsTail ==
  ASSUME NEW d, NEW b \in Seq(Nat), b # << >>, NEW e, NEW t, Runs(d, b, e, t)
  PROVE  Runs(After(d, Head(b)), Tail(b), e, t)
<1>1. PICK run : IsRun(run, d, b, e, t)
  BY DEF Runs
<1> DEFINE n == Len(b)
           bb == Tail(b)
           new == [i \in 0 .. n - 1 |-> run[i + 1]]
<1>2. n \in Nat \ {0} /\ Len(bb) = n - 1 /\ Head(b) = b[1] /\ \A i \in 1 .. n - 1 : bb[i] = b[i + 1]
  OBVIOUS
<1>3. /\ run \in [0 .. n -> Driver] /\ run[0] = d /\ run[n] = e
      /\ \A i \in 1 .. n : run[i] = After(run[i - 1], b[i])
      /\ \A i \in 0 .. n : Begins(run[i].buf, t)
  BY <1>1 DEF IsRun
<1> HIDE DEF n, bb
<1>4. new \in [0 .. n - 1 -> Driver]
  BY <1>2, <1>3
<1>5. new[0] = After(d, Head(b)) /\ new[n - 1] = e
  BY <1>2, <1>3
<1>6. ASSUME NEW i \in 1 .. n - 1
      PROVE  new[i] = After(new[i - 1], bb[i])
  <2>1. /\ new[i] = run[i + 1] /\ new[i - 1] = run[i] /\ bb[i] = b[i + 1]
        /\ i + 1 \in 1 .. n /\ (i + 1) - 1 = i
    BY <1>2
  <2> QED BY <1>3, <2>1
<1>7. \A i \in 0 .. n - 1 : Begins(new[i].buf, t)
  BY <1>2, <1>3
<1>8. IsRun(new, After(d, Head(b)), bb, e, t)
  BY <1>2, <1>4, <1>5, <1>6, <1>7 DEF IsRun
<1> QED BY <1>8 DEF Runs, bb

----------------------------------------------------------------------------
(* What the bytes of a key stroke do                                       *)

\* The status of a modifier after it was pressed or released, or another key
LEMMA StatusFacts ==
  ASSUME NEW old \in BOOLEAN, NEW c \in 1 .. 127, NEW codes \in SUBSET (1 .. 127)
  PROVE  /\ Status(old, codes, c) = (old \/ c \in codes)
         /\ Status(old, codes, Released(c)) = (old /\ c \notin codes)
<1>1. c \notin {Released(k) : k \in codes} /\ Released(c) \notin codes
  BY DEF Released
<1>2. Released(c) \in {Released(k) : k \in codes} <=> c \in codes
  BY DEF Released
<1> QED BY <1>1, <1>2 DEF Status

\* A byte of its own
LEMMA PlainByte ==
  ASSUME NEW e \in Driver, e.flag = EXTEND_CODE_FLUSH, NEW c \in Nat, c # EXTEND_CODE_PREFIX
  PROVE  /\ After(e, c).flag = EXTEND_CODE_FLUSH /\ After(e, c).buf = Written(e, c)
         /\ After(e, c).ctrl = Status(e.ctrl, {CTRL_PRESSED}, c)
         /\ After(e, c).alt = Status(e.alt, {ALT_PRESSED}, c)
         /\ After(e, c).shift = Status(e.shift, {L_SHIFT_PRESSED, R_SHIFT_PRESSED}, c)
         /\ After(e, c).caps = (e.caps # (c = CAPS_LOCK_PRESSED))
<1>1. CASE c \in ModifierCodes
  <2>1. Written(e, c) = e.buf
    BY <1>1, Codes DEF Written
  <2>2. After(e, c) = [e EXCEPT !.ctrl = Status(@, {CTRL_PRESSED}, c), !.alt = Status(@, {ALT_PRESSED}, c),
                                !.shift = Status(@, {L_SHIFT_PRESSED, R_SHIFT_PRESSED}, c),
                                !.caps = (@ # (c = CAPS_LOCK_PRESSED))]
    BY <1>1, Codes DEF After
  <2> QED BY <2>1, <2>2 DEF Driver
<1>2. CASE c \notin ModifierCodes
  <2>1. /\ c # CAPS_LOCK_PRESSED
        /\ \A codes \in {{CTRL_PRESSED}, {ALT_PRESSED}, {L_SHIFT_PRESSED, R_SHIFT_PRESSED}} :
              c \notin codes /\ c \notin {Released(k) : k \in codes}
    BY <1>2 DEF ModifierCodes, Modifiers
  <2>2. \A old : /\ Status(old, {CTRL_PRESSED}, c) = old /\ Status(old, {ALT_PRESSED}, c) = old
                 /\ Status(old, {L_SHIFT_PRESSED, R_SHIFT_PRESSED}, c) = old
    BY <2>1 DEF Status
  <2>3. After(e, c) = [e EXCEPT !.buf = Written(e, c)]
    BY <1>2, Codes DEF After
  <2>4. e.caps = (e.caps # (c = CAPS_LOCK_PRESSED))
    BY <2>1 DEF Driver
  <2> QED BY <2>2, <2>3, <2>4 DEF Driver
<1> QED BY <1>1, <1>2

\* A byte behind the prefix
LEMMA PrefixedByte ==
  ASSUME NEW e \in Driver, e.flag = EXTEND_CODE_FLUSH, NEW c \in Nat
  PROVE  /\ After(e, EXTEND_CODE_PREFIX).buf = e.buf
         /\ LET a == After(After(e, EXTEND_CODE_PREFIX), c)
            IN  /\ a.flag = EXTEND_CODE_FLUSH /\ a.buf = e.buf
                /\ a.ctrl = Status(e.ctrl, {CTRL_PRESSED}, c)
                /\ a.alt = Status(e.alt, {ALT_PRESSED}, c)
                /\ a.shift = e.shift /\ a.caps = e.caps
<1> DEFINE d == After(e, EXTEND_CODE_PREFIX)
<1>1. d = [e EXCEPT !.flag = EXTEND_CODE_PREFIX]
  BY Codes DEF After
<1>2. /\ d \in Driver /\ d.flag = EXTEND_CODE_PREFIX /\ d.buf = e.buf /\ d.ctrl = e.ctrl
      /\ d.alt = e.alt /\ d.shift = e.shift /\ d.caps = e.caps
  BY <1>1 DEF Driver
<1>3. After(d, c) = [d EXCEPT !.flag = EXTEND_CODE_FLUSH, !.ctrl = Status(@, {CTRL_PRESSED}, c),
                              !.alt = Status(@, {ALT_PRESSED}, c)]
  BY <1>2 DEF After
<1> HIDE DEF d
<1>4. LET a == After(d, c)
      IN  /\ a.flag = EXTEND_CODE_FLUSH /\ a.buf = e.buf
          /\ a.ctrl = Status(e.ctrl, {CTRL_PRESSED}, c)
          /\ a.alt = Status(e.alt, {ALT_PRESSED}, c)
          /\ a.shift = e.shift /\ a.caps = e.caps
  BY <1>2, <1>3 DEF Driver
<1> QED BY <1>2, <1>4 DEF d

----------------------------------------------------------------------------
(* The invariant is inductive                                              *)

\* The driver starts with nothing pressed and nothing typed.
LEMMA InitIInv ==
  ASSUME KeyboardInit
  PROVE  IInv
<1>1. typed = << >> /\ port = << >> /\ << >> \in Seq(Characters) /\ << >> \in Seq(Nat)
  BY DEF KeyboardInit
<1>2. /\ extend_flag \in {EXTEND_CODE_FLUSH, EXTEND_CODE_PREFIX} /\ crtl_status \in BOOLEAN
      /\ shift_status \in BOOLEAN /\ alt_status \in BOOLEAN /\ caps_lock_status \in BOOLEAN
      /\ keyboard_output_buffer \in Seq(Characters)
  BY <1>1 DEF KeyboardInit
<1>3. Now \in Driver /\ Now.buf = << >>
  BY <1>2 DEF KeyboardInit, Now, Driver
<1>4. shift \in BOOLEAN /\ caps \in BOOLEAN /\ held \subseteq Keys
  BY DEF KeyboardInit
<1>41. Len(port) <= MaxBytes
  BY <1>1, KeyboardAssumption
<1>42. Typed
  BY <1>1, <1>3, <1>4, <1>41 DEF Typed
<1>5. IsMeant(Now)
  BY DEF KeyboardInit, Now, IsMeant
<1>6. Runs(Now, port, Now, typed)
  BY <1>1, <1>3, RunsNone, BeginsSelf
<1> QED BY <1>3, <1>42, <1>5, <1>6 DEF IInv

\* The handler takes the first byte and does what After says.
LEMMA HandlerIsAfter ==
  ASSUME Typed, keyboard_input_handler
  PROVE  Now' = After(Now, Head(port))
<1> DEFINE c == Head(port)
<1>1. /\ Now \in Driver /\ Now.flag = extend_flag /\ Now.ctrl = crtl_status /\ Now.shift = shift_status
      /\ Now.alt = alt_status /\ Now.caps = caps_lock_status /\ Now.buf = keyboard_output_buffer
  BY DEF Typed, Now
<1>2. Extended(c) \/ Prefix(c) \/ Modifier(c) \/ Character(c)
  BY DEF keyboard_input_handler
<1>3. c \in Nat
  BY DEF keyboard_input_handler, Typed
<1>4. Now' = [flag |-> extend_flag', ctrl |-> crtl_status', shift |-> shift_status',
              alt |-> alt_status', caps |-> caps_lock_status', buf |-> keyboard_output_buffer']
  BY DEF Now
<1> HIDE DEF c
<1> SUFFICES Now' = After(Now, c)
  BY DEF c
<1>5. CASE Extended(c)
  <2>1. After(Now, c) = [Now EXCEPT !.flag = EXTEND_CODE_FLUSH, !.ctrl = Status(@, {CTRL_PRESSED}, c),
                                    !.alt = Status(@, {ALT_PRESSED}, c)]
    BY <1>1, <1>5 DEF Extended, After
  <2> QED BY <1>1, <1>4, <1>5, <2>1 DEF Extended, Now
<1>6. CASE Prefix(c)
  <2>1. After(Now, c) = [Now EXCEPT !.flag = EXTEND_CODE_PREFIX]
    BY <1>1, <1>6 DEF Prefix, After
  <2> QED BY <1>1, <1>4, <1>6, <2>1 DEF Prefix, Flag, Now
<1>7. CASE Modifier(c)
  <2>1. c # EXTEND_CODE_PREFIX /\ c \in ModifierCodes
    BY <1>7, Codes DEF Modifier, ModifierCodes
  <2>2. After(Now, c) = [Now EXCEPT !.ctrl = Status(@, {CTRL_PRESSED}, c), !.alt = Status(@, {ALT_PRESSED}, c),
                                    !.shift = Status(@, {L_SHIFT_PRESSED, R_SHIFT_PRESSED}, c),
                                    !.caps = (@ # (c = CAPS_LOCK_PRESSED))]
    BY <1>1, <1>7, <2>1 DEF Modifier, After
  <2> QED BY <1>1, <1>4, <1>7, <2>2, ZenonT(30) DEF Modifier, ShiftStatus, Now
<1>8. CASE Character(c)
  <2>1. keyboard_output_buffer' = Written(Now, c)
    BY <1>1, <1>8 DEF Character, Written
  <2>2. After(Now, c) = [Now EXCEPT !.buf = Written(Now, c)]
    BY <1>1, <1>8 DEF Character, After, ModifierCodes
  <2> HIDE DEF After
  <2> QED BY <1>1, <1>4, <1>8, <2>1, <2>2 DEF Character, Now
<1> QED BY <1>2, <1>5, <1>6, <1>7, <1>8

\* The handler reads a byte: the run loses its first step.
LEMMA HandlerStep ==
  ASSUME IInv, keyboard_input_handler
  PROVE  IInv'
<1>1. PICK e \in Driver : IsMeant(e) /\ Runs(Now, port, e, typed)
  BY DEF IInv
<1>2. /\ port # << >> /\ port' = Tail(port) /\ UNCHANGED <<held, shift, caps, typed>>
  BY DEF keyboard_input_handler
<1>3. /\ port \in Seq(Nat) /\ Head(port) \in Nat /\ Tail(port) \in Seq(Nat)
      /\ Len(Tail(port)) <= MaxBytes
  BY <1>2, KeyboardAssumption DEF IInv, Typed
<1>4. Now' = After(Now, Head(port))
  BY HandlerIsAfter DEF IInv
<1>5. Typed'
  BY <1>2, <1>3, <1>4, AfterType DEF IInv, Typed
<1>6. Runs(Now', port', e, typed)
  BY <1>1, <1>2, <1>3, <1>4, RunsTail
<1>7. IsMeant(e)' /\ Runs(Now, port, e, typed)'
  BY <1>1, <1>2, <1>6 DEF IsMeant, Runs, IsRun
<1> QED BY <1>5, <1>7 DEF IInv

\* State a is what byte or bytes c of a key make of e.
Struck(a, e, key, c) ==
  /\ a.flag = EXTEND_CODE_FLUSH
  /\ a.ctrl = Status(e.ctrl, {CTRL_PRESSED}, c)
  /\ a.alt = Status(e.alt, {ALT_PRESSED}, c)
  /\ a.buf = IF key[1] = 0 THEN Written(e, c) ELSE e.buf
  /\ a.shift = IF key[1] = 0 THEN Status(e.shift, {L_SHIFT_PRESSED, R_SHIFT_PRESSED}, c) ELSE e.shift
  /\ a.caps = IF key[1] = 0 THEN (e.caps # (c = CAPS_LOCK_PRESSED)) ELSE e.caps

\* The bytes of a key stroke lengthen the run; it ends in a state that differs
\* from the end of the old one as the key says.
LEMMA Stroke ==
  ASSUME Typed, NEW e \in Driver, IsMeant(e), Runs(Now, port, e, typed),
         NEW key \in Keys, NEW c \in {key[2], Released(key[2])}, Sends(key, c),
         NEW u \in Seq(Characters), u = typed \/ \E x \in Characters : u = Append(typed, x),
         key[1] = 0 => Begins(Written(e, c), u)
  PROVE  /\ port' \in Seq(Nat) /\ Len(port') <= Len(port) + 2
         /\ \E a \in Driver : Runs(Now, port', a, u) /\ Struck(a, e, key, c)
<1>1. /\ key[1] \in {0, EXTEND_CODE_PREFIX} /\ key[2] \in 1 .. 127 /\ c \in Nat
      /\ key[1] = 0 => c # EXTEND_CODE_PREFIX
  <2>1. key \in {0, EXTEND_CODE_PREFIX} \X (1 .. 127)
    BY KeyboardAssumption
  <2>2. key[1] \in {0, EXTEND_CODE_PREFIX} /\ key[2] \in 1 .. 127
    BY <2>1
  <2>3. \A n \in 1 .. 127 : n \in Nat /\ n # 224 /\ Released(n) \in Nat
    BY DEF Released
  <2>4. CASE c = key[2]
    BY <2>2, <2>3, <2>4, Codes
  <2>5. CASE c = Released(key[2])
    BY <2>2, <2>3, <2>5, KeyboardAssumption
  <2> QED BY <2>2, <2>4, <2>5
<1>2. e.flag = EXTEND_CODE_FLUSH /\ e.buf = typed /\ port \in Seq(Nat) /\ typed \in Seq(Characters)
  BY DEF IsMeant, Typed
<1>3. CASE key[1] = 0
  <2>1. port' = Append(port, c)
    BY <1>2, <1>3 DEF Sends
  <2>2. After(e, c).buf = Written(e, c) /\ After(e, c) \in Driver
    BY <1>1, <1>2, <1>3, PlainByte, AfterType
  <2>3. Runs(Now, port', After(e, c), u)
    BY <1>1, <1>2, <1>3, <2>1, <2>2, RunsAppend
  <2>4. /\ After(e, c).flag = EXTEND_CODE_FLUSH
        /\ After(e, c).ctrl = Status(e.ctrl, {CTRL_PRESSED}, c)
        /\ After(e, c).alt = Status(e.alt, {ALT_PRESSED}, c)
        /\ After(e, c).shift = Status(e.shift, {L_SHIFT_PRESSED, R_SHIFT_PRESSED}, c)
        /\ After(e, c).caps = (e.caps # (c = CAPS_LOCK_PRESSED))
    BY <1>1, <1>2, <1>3, PlainByte
  <2>5. port' \in Seq(Nat) /\ Len(port') <= Len(port) + 2
    BY <1>1, <1>2, <2>1
  <2>6. Runs(Now, port', After(e, c), u) /\ Struck(After(e, c), e, key, c)
    BY <1>3, <2>2, <2>3, <2>4 DEF Struck
  <2> QED BY <2>2, <2>5, <2>6
<1>4. CASE key[1] # 0
  <2> DEFINE d == After(e, EXTEND_CODE_PREFIX)
             p == Append(port, EXTEND_CODE_PREFIX)
  <2>1. EXTEND_CODE_PREFIX \in Nat /\ key[1] = EXTEND_CODE_PREFIX
    BY <1>1, <1>4, Codes
  <2>2. p \in Seq(Nat) /\ port' = Append(p, c) /\ Len(Append(p, c)) = Len(port) + 2
    BY <1>1, <1>2, <1>4, <2>1 DEF Sends
  <2>3. /\ d \in Driver /\ d.buf = typed
        /\ After(d, c) \in Driver /\ After(d, c).buf = typed
    BY <1>1, <1>2, <2>1, AfterType, PrefixedByte
  <2>4. Begins(typed, typed) /\ Begins(typed, u)
    BY <1>2, BeginsSelf, BeginsLonger
  <2>5. Runs(Now, p, d, typed)
    BY <1>2, <2>1, <2>3, <2>4, RunsAppend
  <2>6. Runs(Now, Append(p, c), After(d, c), u)
    <3> HIDE DEF p, d
    <3> QED BY <1>1, <1>2, <2>2, <2>3, <2>4, <2>5, RunsAppend
  <2>7. /\ After(d, c).flag = EXTEND_CODE_FLUSH
        /\ After(d, c).ctrl = Status(e.ctrl, {CTRL_PRESSED}, c)
        /\ After(d, c).alt = Status(e.alt, {ALT_PRESSED}, c)
        /\ After(d, c).shift = e.shift /\ After(d, c).caps = e.caps
    BY <1>1, <1>2, PrefixedByte
  <2> HIDE DEF p, d
  <2>8. Runs(Now, port', After(d, c), u) /\ Struck(After(d, c), e, key, c)
    BY <1>2, <1>4, <2>2, <2>3, <2>6, <2>7 DEF Struck
  <2>9. port' \in Seq(Nat) /\ Len(port') <= Len(port) + 2
    BY <1>1, <1>2, <2>2
  <2> QED BY <2>3, <2>8, <2>9
<1> QED BY <1>3, <1>4

\* The driver does not change when a key is struck.
LEMMA NowSame ==
  ASSUME UNCHANGED driver
  PROVE  Now' = Now
BY DEF driver, Now

\* A key goes down: the run grows by its bytes.
LEMMA PressStep ==
  ASSUME IInv, NEW key \in Keys, Press(key)
  PROVE  IInv'
<1> DEFINE c == key[2]
<1>1. PICK e \in Driver : IsMeant(e) /\ Runs(Now, port, e, typed)
  BY DEF IInv
<1>2. /\ c \in 1 .. 127 /\ c \in Nat /\ key[1] \in {0, EXTEND_CODE_PREFIX}
  BY KeyboardAssumption
<1>3. /\ Now \in Driver /\ port \in Seq(Nat) /\ typed \in Seq(Characters) /\ shift \in BOOLEAN
      /\ caps \in BOOLEAN /\ held \subseteq Keys /\ Typed
  BY DEF IInv, Typed
<1>4. e.buf = typed /\ e.shift = shift /\ e.caps = caps
  BY <1>1 DEF IsMeant
<1>5. \A b \in BOOLEAN : <<c, IF b THEN 1 ELSE 0>> \in Characters
  BY <1>2 DEF Characters
<1>6. Column(c \in Letters, shift, caps)
        = IF (IF c \in Letters THEN e.shift # e.caps ELSE e.shift) THEN 1 ELSE 0
  BY <1>3, <1>4 DEF Column
<1>7. /\ typed' \in Seq(Characters)
      /\ typed' = typed \/ \E x \in Characters : typed' = Append(typed, x)
      /\ key[1] = 0 => typed' = Written(e, c)
      /\ key[1] # 0 => typed' = typed
  <2>1. CASE IsCharacter(key)
    <3>1. typed' = Append(typed, <<c, Column(c \in Letters, shift, caps)>>)
      BY <2>1 DEF Press
    <3>2. <<c, Column(c \in Letters, shift, caps)>> \in Characters
      BY <1>2 DEF Column, Characters
    <3>3. Written(e, c) = typed' /\ key[1] = 0
      BY <2>1, <3>1, <1>4, <1>6 DEF IsCharacter, Written
    <3> QED BY <1>3, <3>1, <3>2, <3>3
  <2>2. CASE ~IsCharacter(key)
    <3>1. typed' = typed
      BY <2>2 DEF Press
    <3>2. key[1] = 0 => Written(e, c) = typed
      BY <2>2, <1>4 DEF IsCharacter, Written
    <3> QED BY <1>3, <3>1, <3>2
  <2> QED BY <2>1, <2>2
<1>8. key[1] = 0 => Begins(Written(e, c), typed')
  BY <1>7, BeginsSelf
<1>9. /\ Sends(key, c) /\ held' = held \union {key} /\ Len(port) + 2 <= MaxBytes
      /\ shift' = (shift \/ IsShift(key)) /\ caps' = (caps # IsCapsLock(key)) /\ Now' = Now
  BY NowSame DEF Press
<1>10. c \in {key[2], Released(key[2])}
  OBVIOUS
<1> HIDE DEF c
<1>11. /\ port' \in Seq(Nat) /\ Len(port') <= Len(port) + 2
       /\ \E a \in Driver : Runs(Now, port', a, typed') /\ Struck(a, e, key, c)
  BY <1>1, <1>3, <1>7, <1>8, <1>9, <1>10, Stroke
<1>12. PICK a \in Driver : Runs(Now, port', a, typed') /\ Struck(a, e, key, c)
  BY <1>11
<1>13. Typed'
  <2>1. Len(port') <= MaxBytes
    BY <1>3, <1>9, <1>11, KeyboardAssumption
  <2>2. held' \subseteq Keys
    BY <1>3, <1>9
  <2>3. shift' \in BOOLEAN /\ caps' \in BOOLEAN
    BY <1>9
  <2>4. Now' \in Driver
    BY <1>3, <1>9
  <2> QED BY <1>7, <1>11, <2>1, <2>2, <2>3, <2>4 DEF Typed
<1>14. IsMeant(a)'
  <2>1. e.ctrl \in BOOLEAN /\ e.alt \in BOOLEAN /\ e.shift \in BOOLEAN
    BY DEF Driver
  <2>2. /\ Status(e.ctrl, {CTRL_PRESSED}, c) = (e.ctrl \/ c = CTRL_PRESSED)
        /\ Status(e.alt, {ALT_PRESSED}, c) = (e.alt \/ c = ALT_PRESSED)
        /\ Status(e.shift, {L_SHIFT_PRESSED, R_SHIFT_PRESSED}, c)
              = (e.shift \/ c \in {L_SHIFT_PRESSED, R_SHIFT_PRESSED})
    <3>1. \A codes \in SUBSET (1 .. 127) :
             /\ Status(e.ctrl, codes, c) = (e.ctrl \/ c \in codes)
             /\ Status(e.alt, codes, c) = (e.alt \/ c \in codes)
             /\ Status(e.shift, codes, c) = (e.shift \/ c \in codes)
      BY <1>2, <2>1, StatusFacts, SMTT(30)
    <3>2. {{CTRL_PRESSED}, {ALT_PRESSED}, {L_SHIFT_PRESSED, R_SHIFT_PRESSED}} \subseteq SUBSET (1 .. 127)
      BY Codes
    <3> QED BY <3>1, <3>2
  <2>3. a.flag = EXTEND_CODE_FLUSH /\ a.buf = typed'
    BY <1>4, <1>7, <1>12 DEF Struck
  <2>4. a.shift = shift'
    <3>1. a.shift = IF key[1] = 0 THEN (shift \/ c \in {L_SHIFT_PRESSED, R_SHIFT_PRESSED}) ELSE shift
      BY <1>4, <1>12, <2>2 DEF Struck
    <3>2. CASE key[1] = 0
      BY <1>9, <3>1, <3>2 DEF IsShift, c
    <3>3. CASE key[1] # 0
      BY <1>3, <1>9, <3>1, <3>3 DEF IsShift
    <3> QED BY <3>2, <3>3
  <2>5. a.caps = caps'
    <3>1. a.caps = IF key[1] = 0 THEN (caps # (c = CAPS_LOCK_PRESSED)) ELSE caps
      BY <1>4, <1>12 DEF Struck
    <3>2. CASE key[1] = 0
      BY <1>9, <3>1, <3>2 DEF IsCapsLock, c
    <3>3. CASE key[1] # 0
      BY <1>3, <1>9, <3>1, <3>3 DEF IsCapsLock
    <3> QED BY <3>2, <3>3
  <2>6. a.ctrl => \E k \in held' : k[2] = CTRL_PRESSED
    BY <1>1, <1>9, <1>12, <2>2 DEF Struck, IsMeant, c
  <2>7. a.alt => \E k \in held' : k[2] = ALT_PRESSED
    BY <1>1, <1>9, <1>12, <2>2 DEF Struck, IsMeant, c
  <2>8. a.shift => \E k \in held' : IsShift(k)
    BY <1>1, <1>4, <1>9, <2>4 DEF IsMeant
  <2> QED BY <2>3, <2>4, <2>5, <2>6, <2>7, <2>8 DEF IsMeant
<1>15. Runs(Now, port, a, typed)'
  BY <1>9, <1>12 DEF Runs, IsRun
<1> QED BY <1>13, <1>14, <1>15 DEF IInv

\* A key comes up: the run grows by its bytes.
LEMMA ReleaseStep ==
  ASSUME IInv, NEW key \in Keys, Release(key)
  PROVE  IInv'
<1> DEFINE c == Released(key[2])
<1>1. PICK e \in Driver : IsMeant(e) /\ Runs(Now, port, e, typed)
  BY DEF IInv
<1>2. /\ key[2] \in 1 .. 127 /\ key[1] \in {0, EXTEND_CODE_PREFIX}
  BY KeyboardAssumption
<1>3. /\ Now \in Driver /\ port \in Seq(Nat) /\ typed \in Seq(Characters) /\ shift \in BOOLEAN
      /\ caps \in BOOLEAN /\ held \subseteq Keys /\ Typed
  BY DEF IInv, Typed
<1>4. e.buf = typed /\ e.shift = shift /\ e.caps = caps
  BY <1>1 DEF IsMeant
<1>5. c \in Nat /\ c > 128
  <2>1. \A n \in 1 .. 127 : Released(n) \in Nat /\ Released(n) > 128
    BY DEF Released
  <2> QED BY <1>2, <2>1
<1>6. c \in {key[2], Released(key[2])}
  OBVIOUS
<1>7. /\ Sends(key, c) /\ held' = held \ {key} /\ Len(port) + 2 <= MaxBytes
      /\ shift' = (shift /\ ~IsShift(key)) /\ caps' = caps /\ typed' = typed /\ Now' = Now
  BY NowSame DEF Release
<1>8. /\ Status(e.ctrl, {CTRL_PRESSED}, c) = (e.ctrl /\ key[2] # CTRL_PRESSED)
      /\ Status(e.alt, {ALT_PRESSED}, c) = (e.alt /\ key[2] # ALT_PRESSED)
      /\ Status(e.shift, {L_SHIFT_PRESSED, R_SHIFT_PRESSED}, c)
            = (e.shift /\ key[2] \notin {L_SHIFT_PRESSED, R_SHIFT_PRESSED})
  <2>1. e.ctrl \in BOOLEAN /\ e.alt \in BOOLEAN /\ e.shift \in BOOLEAN
    BY DEF Driver
  <2>2. \A codes \in SUBSET (1 .. 127) :
           /\ Status(e.ctrl, codes, c) = (e.ctrl /\ key[2] \notin codes)
           /\ Status(e.alt, codes, c) = (e.alt /\ key[2] \notin codes)
           /\ Status(e.shift, codes, c) = (e.shift /\ key[2] \notin codes)
    BY <1>2, <2>1, StatusFacts, SMTT(30)
  <2>3. {{CTRL_PRESSED}, {ALT_PRESSED}, {L_SHIFT_PRESSED, R_SHIFT_PRESSED}} \subseteq SUBSET (1 .. 127)
    BY Codes
  <2> QED BY <2>2, <2>3
<1> HIDE DEF c
<1>9. Written(e, c) = typed /\ c # CAPS_LOCK_PRESSED
  BY <1>4, <1>5, Codes DEF Written
<1>10. Begins(Written(e, c), typed)
  BY <1>3, <1>9, BeginsSelf
<1>11. /\ port' \in Seq(Nat) /\ Len(port') <= Len(port) + 2
       /\ \E a \in Driver : Runs(Now, port', a, typed) /\ Struck(a, e, key, c)
  BY <1>1, <1>3, <1>6, <1>7, <1>10, Stroke
<1>12. PICK a \in Driver : Runs(Now, port', a, typed) /\ Struck(a, e, key, c)
  BY <1>11
<1>13. Typed'
  <2>1. Len(port') <= MaxBytes
    BY <1>3, <1>7, <1>11, KeyboardAssumption
  <2>2. held' \subseteq Keys
    BY <1>3, <1>7
  <2>3. shift' \in BOOLEAN /\ caps' \in BOOLEAN
    BY <1>3, <1>7
  <2>4. Now' \in Driver /\ typed' \in Seq(Characters)
    BY <1>3, <1>7
  <2> QED BY <1>11, <2>1, <2>2, <2>3, <2>4 DEF Typed
<1>14. IsMeant(a)'
  <2>1. a.flag = EXTEND_CODE_FLUSH /\ a.buf = typed'
    BY <1>4, <1>7, <1>9, <1>12 DEF Struck
  <2>2. a.shift = shift'
    <3>1. a.shift = IF key[1] = 0 THEN (shift /\ key[2] \notin {L_SHIFT_PRESSED, R_SHIFT_PRESSED})
                                  ELSE shift
      BY <1>4, <1>8, <1>12 DEF Struck
    <3>2. CASE key[1] = 0
      BY <1>7, <3>1, <3>2 DEF IsShift
    <3>3. CASE key[1] # 0
      BY <1>3, <1>7, <3>1, <3>3 DEF IsShift
    <3> QED BY <3>2, <3>3
  <2>3. a.caps = caps'
    <3>1. caps = (caps # (c = CAPS_LOCK_PRESSED))
      BY <1>3, <1>9
    <3>2. a.caps = caps
      BY <1>4, <1>12, <3>1 DEF Struck
    <3> QED BY <1>7, <3>2
  <2>4. a.ctrl => \E k \in held' : k[2] = CTRL_PRESSED
    BY <1>1, <1>7, <1>8, <1>12 DEF Struck, IsMeant
  <2>5. a.alt => \E k \in held' : k[2] = ALT_PRESSED
    BY <1>1, <1>7, <1>8, <1>12 DEF Struck, IsMeant
  <2>6. a.shift => \E k \in held' : IsShift(k)
    BY <1>1, <1>4, <1>7, <2>2 DEF IsMeant
  <2> QED BY <2>1, <2>2, <2>3, <2>4, <2>5, <2>6 DEF IsMeant
<1>15. Runs(Now, port, a, typed)'
  BY <1>7, <1>12 DEF Runs, IsRun
<1> QED BY <1>13, <1>14, <1>15 DEF IInv

\* Every step keeps the invariant.
LEMMA NextIInv ==
  ASSUME IInv, [KeyboardNext]_keyboard_vars
  PROVE  IInv'
<1>1. CASE KeyboardNext
  BY <1>1, HandlerStep, PressStep, ReleaseStep DEF KeyboardNext
<1>2. CASE UNCHANGED keyboard_vars
  <2>1. /\ Now' = Now /\ port' = port /\ held' = held /\ shift' = shift /\ caps' = caps /\ typed' = typed
    BY <1>2, NowSame DEF keyboard_vars
  <2> QED BY <2>1 DEF IInv, Typed, IsMeant, Runs, IsRun
<1> QED BY <1>1, <1>2

(* There is always a run of the handler over the waiting bytes that ends   *)
(* where the key strokes so far should lead (keyboard_input_handler).      *)
THEOREM Invariance == KeyboardSpec => []IInv
BY InitIInv, NextIInv, PTL DEF KeyboardSpec

----------------------------------------------------------------------------
(* What the invariant shows                                                *)

\* With no byte waiting the driver is where the key strokes lead.
LEMMA Settled ==
  ASSUME IInv, port = << >>
  PROVE  IsMeant(Now)
<1>1. PICK e \in Driver : IsMeant(e) /\ Runs(Now, port, e, typed)
  BY DEF IInv
<1>2. Now = e
  BY <1>1 DEF Runs, IsRun
<1> QED BY <1>1, <1>2

\* The invariant implies that the buffer is what was typed ...
LEMMA BufferFacts ==
  ASSUME IInv
  PROVE  BufferIsWhatWasTyped
<1>1. PICK e \in Driver : IsMeant(e) /\ Runs(Now, port, e, typed)
  BY DEF IInv
<1>2. PICK run : IsRun(run, Now, port, e, typed)
  BY <1>1 DEF Runs
<1>3. Len(port) \in Nat /\ Now.buf = keyboard_output_buffer /\ Now.buf \in Seq(Characters) /\ typed \in Seq(Characters)
  BY DEF IInv, Typed, Now, Driver
<1>4. Begins(Now.buf, typed)
  BY <1>2, <1>3 DEF IsRun
<1>5. IsPrefix(keyboard_output_buffer, typed)
  BY <1>3, <1>4, BeginsIsPrefix
<1>6. port = << >> => keyboard_output_buffer = typed
  BY <1>3, Settled DEF IsMeant
<1> QED BY <1>5, <1>6 DEF BufferIsWhatWasTyped

\* ... and that a modifier is on only for a key that is held.
LEMMA ModifierFacts ==
  ASSUME IInv
  PROVE  NoStuckModifier
<1>1. /\ Now \in Driver /\ Now.flag = extend_flag /\ Now.ctrl = crtl_status /\ Now.shift = shift_status
      /\ Now.alt = alt_status /\ Now.caps = caps_lock_status
  BY DEF IInv, Typed, Now
<1>2. port = << >> => IsMeant(Now)
  BY Settled
<1>3. extend_flag = EXTEND_CODE_PREFIX => port # << >>
  BY <1>1, <1>2, Codes DEF IsMeant
<1>4. /\ extend_flag \in {EXTEND_CODE_FLUSH, EXTEND_CODE_PREFIX}
      /\ {crtl_status, shift_status, alt_status, caps_lock_status} \subseteq BOOLEAN
  BY <1>1 DEF Driver
<1>5. KeyboardTypeOK
  BY <1>3, <1>4 DEF KeyboardTypeOK, IInv, Typed
<1> QED BY <1>1, <1>2, <1>5 DEF NoStuckModifier, IsMeant

(* However late the bytes of the key strokes are read, the output buffer   *)
(* holds a beginning of what was typed, with the shift and caps lock of    *)
(* the moment, and all of it once the controller is empty                  *)
(* (keyboard_input_handler).                                               *)
THEOREM TypingIsKept == KeyboardSpec => []BufferIsWhatWasTyped
BY Invariance, BufferFacts, PTL

(* The driver's variables have their types, a prefix is remembered only    *)
(* while its second byte is to come, and with no byte waiting ctrl, shift  *)
(* and alt count as pressed only while such a key is down                  *)
(* (keyboard_input_handler).                                               *)
THEOREM ModifiersFollowKeys == KeyboardSpec => []NoStuckModifier
BY Invariance, ModifierFacts, PTL

----------------------------------------------------------------------------
(* Console: the state of the threads                                      *)

\* The variables of a thread ...
Fields == {"pc", "calls", "format", "ret", "todo", "written", "maxrem", "str", "text", "texts",
           "then", "piece", "k", "n"}

\* ... and their values
ThreadOK(L) ==
    /\ DOMAIN L = Fields
    /\ L.pc \in {"idle", "format", "str", "set", "digits", "pad", "sign", "print", "putchar"}
    /\ L.calls \in Nat /\ L.format \in Seq(Pieces) /\ L.ret \in Int /\ L.todo \in Seq(Pieces)
    /\ L.written \in Ints /\ L.maxrem \in 0 .. WordSize - 1 /\ L.str \in Seq(Chars)
    /\ L.text \in Seq(Chars) /\ L.texts \in Nat /\ L.then \in {"format", "str"}
    /\ L.piece \in Pieces \union {NoPiece} /\ L.k \in 1 .. 4 /\ L.n \in Nat

\* A thread in the middle of a hex conversion has its piece; one that is idle
\* has written nothing of its next call.
WellFormed(L) ==
    /\ ThreadOK(L)
    /\ L.pc \in {"set", "digits", "pad", "sign"} => L.piece \in Pieces /\ L.piece.kind = "x"
    /\ IF L.pc = "set" THEN L.k <= Len(Settings(L.piece)) ELSE L.k = 1
    /\ L.pc = "idle" => L.texts = 0 /\ L.written = 0

Globals == {"flag", "digits_max", "complement", "sign"}

Entries == [thread : Threads, call : Nat, text : Nat, char : Chars]

\* The variables have their types, and io_lock belongs to the thread in print.
Shaped ==
    /\ charX \in 0 .. Cols - 1 /\ charY \in 0 .. Rows - 1
    /\ DOMAIN vbe_buffer = Lines /\ DOMAIN vram = Lines
    /\ DOMAIN hex = Globals /\ hex.flag \in {"x", "X"} /\ hex.digits_max \in {0, HexWidth}
    /\ hex.complement \in {" ", "0"} /\ hex.sign \in {" ", "#"}
    /\ DOMAIN th = Threads /\ \A t \in Threads : WellFormed(th[t])
    /\ owners = {t \in Threads : th[t].pc = "putchar"}
    /\ \A t, u \in owners : t = u
    /\ paper \in Seq(Entries) /\ muddled \subseteq Threads

\* Thread t comes to have the variables N, the others keep theirs.
Changed(t, N) == DOMAIN th' = Threads /\ th'[t] = N /\ \A u \in Threads \ {t} : th'[u] = th[u]

----------------------------------------------------------------------------
(* What a step does to the variables L of its thread: N                    *)

Kept(L, N) == N.calls = L.calls /\ N.format = L.format

\* printf fails ...
Fails(L, N) == Kept(L, N) /\ N.pc = "idle" /\ N.ret = -1

\* ... or is at its end.
Ends(L, N) == Kept(L, N) /\ L.pc = "format" /\ N.pc = "idle" /\ N.ret = L.written

\* The next piece of the format is taken: what is left of INT_MAX is computed.
Takes(L, N) ==
    /\ L.todo # <<>> /\ N.todo = Tail(L.todo) /\ N.maxrem = (INT_MAX - L.written) % WordSize

\* A text that fits is to be printed.
Starts(L, N) ==
    /\ Kept(L, N) /\ N.pc = "print" /\ N.texts = L.texts + 1 /\ N.written = L.written
    /\ N.str = L.str /\ Len(N.text) <= N.maxrem
    /\ \/ L.pc = "format" /\ Takes(L, N) /\ (N.then = "str" => Head(L.todo).kind = "c")
       \/ /\ L.pc = "str" /\ N.todo = L.todo /\ N.maxrem = L.maxrem /\ N.text = L.str
          /\ N.then = "format"

\* A conversion goes on.
Computes(L, N) ==
    /\ Kept(L, N) /\ N.pc \in {"str", "set", "digits", "pad", "sign"}
    /\ N.texts = L.texts /\ N.written = L.written
    /\ \/ L.pc = "format" /\ Takes(L, N)
       \/ /\ L.pc \in {"set", "digits", "pad", "sign"} /\ N.todo = L.todo /\ N.maxrem = L.maxrem

\* What it does in particular: it takes a piece of the format,
Took(L, N) ==
    /\ L.pc = "format" /\ L.todo # <<>> /\ hex' = hex
    /\ LET p == Head(L.todo)
       IN  \/ p.kind \in {"text", "c"} /\ N.pc = "print" /\ N.text = p.text
           \/ /\ p.kind \in {"text", "c"} /\ N.pc = "idle" /\ N.ret = -1
              /\ ~ (Len(p.text) <= (INT_MAX - L.written) % WordSize)
           \/ p.kind \in {"s", "other"} /\ N.pc = "str" /\ N.str = p.text
           \/ p.kind = "d" /\ N.pc = "str" /\ N.str = int2string(p.n)
           \/ p.kind = "x" /\ N.pc = "set" /\ N.piece = p /\ N.k = 1

\* goes on to print what was converted,
TookStr(L, N) ==
    /\ L.pc = "str" /\ hex' = hex
    /\ \/ N.pc = "print" /\ N.text = L.str
       \/ N.pc = "idle" /\ N.ret = -1 /\ ~ (Len(L.str) <= L.maxrem)

\* returns,
Finished(L, N) ==
    L.pc = "format" /\ L.todo = <<>> /\ hex' = hex /\ N.pc = "idle" /\ N.ret = L.written

\* sets a global,
SetOne(t, L, N) ==
    /\ L.pc = "set" /\ N.piece = L.piece
    /\ hex' = [hex EXCEPT ![Settings(L.piece)[L.k][1]] = Settings(L.piece)[L.k][2]]
    /\ IF L.k < Len(Settings(L.piece)) THEN N.pc = "set" /\ N.k = L.k + 1
                                       ELSE N.pc = "digits" /\ N.n = L.piece.n /\ N.str = <<>>
    /\ \A u \in Threads \ {t} : (InHex(u) /\ hex' # hex) => u \in muddled'

\* or converts a digit, fills up, writes the sign.
AddedDigit(L, N) ==
    /\ L.pc = "digits" /\ hex' = hex /\ N.piece = L.piece
    /\ N.str = <<(IF hex.flag = "x" THEN Digits ELSE Upper)[(L.n % 16) + 1]>> \o L.str
    /\ N.n = L.n \div 16 /\ N.pc = IF L.n \div 16 = 0 THEN "pad" ELSE "digits"

FilledUp(L, N) ==
    /\ L.pc = "pad" /\ hex' = hex /\ N.piece = L.piece
    /\ IF Len(L.str) < hex.digits_max THEN N.pc = "pad" /\ N.str = <<hex.complement>> \o L.str
                                      ELSE N.pc = "sign" /\ N.str = L.str

Signed0x(L, N) ==
    /\ L.pc = "sign" /\ hex' = hex /\ N.pc = "str"
    /\ N.str = IF hex.sign = "#" THEN <<"0", "x">> \o L.str ELSE L.str

Does(t, L, N) ==
    \/ Took(L, N) \/ TookStr(L, N) \/ Finished(L, N) \/ SetOne(t, L, N)
    \/ AddedDigit(L, N) \/ FilledUp(L, N) \/ Signed0x(L, N)

\* A step of printf outside print
Quiet(t, L, N) ==
    /\ WellFormed(N) /\ (Fails(L, N) \/ Ends(L, N) \/ Starts(L, N) \/ Computes(L, N))
    /\ Does(t, L, N)
    /\ L.pc \notin {"idle", "print", "putchar"}
    /\ (L.pc = "format" /\ L.todo # <<>> /\ L.str # <<>> /\ Head(L.todo).kind = "c") => t \in muddled'
    /\ muddled \subseteq muddled' /\ muddled' \subseteq Threads
    /\ UNCHANGED <<term, vram, owners, paper>>

----------------------------------------------------------------------------
(* Arithmetic                                                              *)

\* There is one quotient and one remainder.
LEMMA Quotient ==
  ASSUME NEW n \in Nat \ {0}, NEW q \in Int, NEW r \in 0 .. n - 1, NEW x \in Int, x = n * q + r
  PROVE  x % n = r /\ x \div n = q
<1> DEFINE d == x \div n
           m == x % n
<1>1. d \in Int /\ m \in 0 .. n - 1 /\ x = n * d + m
  OBVIOUS
<1> HIDE DEF d, m
<1>2. n * (q - d) = m - r
  BY <1>1
<1>3. \A k \in Int : k >= 1 => n * k >= n
  OBVIOUS
<1>4. ~(q - d >= 1)
  BY <1>1, <1>2, <1>3
<1>5. ~(d - q >= 1)
  <2>1. n * (d - q) = r - m
    BY <1>1, <1>2
  <2> QED BY <1>1, <1>3, <2>1
<1>6. q = d
  BY <1>1, <1>4, <1>5
<1>7. m = r
  BY <1>1, <1>6
<1> QED BY <1>6, <1>7 DEF m, d

\* Division with remainder
LEMMA Divided ==
  ASSUME NEW n \in Nat \ {0}, NEW x \in Int
  PROVE  x \div n \in Int /\ x % n \in 0 .. n - 1 /\ x = n * (x \div n) + (x % n)
<1>1. x \div n \in Int
  OBVIOUS
<1>2. x % n \in 0 .. n - 1
  OBVIOUS
<1>3. x = n * (x \div n) + (x % n)
  OBVIOUS
<1> QED BY <1>1, <1>2, <1>3

\* One divisor further
LEMMA Further ==
  ASSUME NEW n \in Nat \ {0}, NEW x \in Int
  PROVE  (x + n) \div n = (x \div n) + 1 /\ (x + n) % n = x % n
<1>1. ASSUME NEW d \in Int, NEW m \in 0 .. n - 1, x = n * d + m
      PROVE  (x + n) \div n = d + 1 /\ (x + n) % n = m
  <2>1. x + n \in Int /\ d + 1 \in Int
    OBVIOUS
  <2>2. x + n = n * (d + 1) + m
    BY <1>1
  <2> QED BY <2>1, <2>2, Quotient
<1> QED BY <1>1, Divided

\* One further
LEMMA Successor ==
  ASSUME NEW n \in Nat \ {0}, NEW d \in Int, NEW m \in 0 .. n - 1, NEW x \in Int, x = n * d + m
  PROVE  (x + 1) % n = (m + 1) % n
<1>0. x + 1 \in Int /\ m + 1 \in Int /\ d + 1 \in Int /\ 0 \in 0 .. n - 1
  OBVIOUS
<1>1. CASE m + 1 < n
  <2>1. m + 1 \in 0 .. n - 1
    BY <1>1
  <2>2. x + 1 = n * d + (m + 1)
    OBVIOUS
  <2>3. m + 1 = n * 0 + (m + 1)
    OBVIOUS
  <2>4. (x + 1) % n = m + 1
    BY <1>0, <2>1, <2>2, Quotient
  <2>5. (m + 1) % n = m + 1
    BY <1>0, <2>1, <2>3, Quotient
  <2> QED BY <2>4, <2>5
<1>2. CASE m + 1 = n
  <2>1. n * (d + 1) = n * d + n
    OBVIOUS
  <2>2. x + 1 = n * (d + 1) + 0
    BY <1>2, <2>1
  <2>3. m + 1 = n * 1 + 0
    BY <1>2
  <2>4. (x + 1) % n = 0
    BY <1>0, <2>2, Quotient
  <2>5. (m + 1) % n = 0
    BY <1>0, <2>3, Quotient
  <2> QED BY <2>4, <2>5
<1> QED BY <1>1, <1>2

\* The constants, for arithmetic
LEMMA Constants ==
  /\ FontHeight \in Nat \ {0} /\ Yres \in Nat /\ Yres >= FontHeight
  /\ Cols \in Nat \ {0} /\ INT_MAX \in Nat /\ WordSize \in Nat \ {0} /\ WordSize = 2 * INT_MAX + 2
BY ConsoleAssumption

\* What fits an int is not wrapped, and wrapping once more or less is the same.
LEMMA IntFacts ==
  ASSUME NEW c \in Int
  PROVE  /\ int(c) \in Ints
         /\ c \in Ints => int(c) = c
         /\ int(int(c) + 1) = int(c + 1)
<1> PICK H \in Nat \ {0}, W \in Nat \ {0} : H = INT_MAX + 1 /\ W = WordSize /\ W = 2 * H
  BY Constants
<1>1. \A n \in Int : int(n) = ((n + H) % W) - H
  BY Constants DEF int
<1>2. Ints = -H .. H - 1
  BY Constants DEF Ints
<1>3. ASSUME NEW n \in Int
      PROVE  int(n) \in Ints
  <2> PICK z \in Int : z = n + H
    OBVIOUS
  <2>1. z % W \in 0 .. W - 1
    BY Divided
  <2>2. int(n) = (z % W) - H
    BY <1>1
  <2> PICK y \in 0 .. W - 1 : y = z % W
    BY <2>1
  <2>3. int(n) = y - H /\ y - H \in -H .. H - 1
    BY <2>2
  <2> QED BY <1>2, <2>3
<1>4. ASSUME NEW n \in Ints
      PROVE  int(n) = n
  <2> PICK x \in 0 .. W - 1 : x = n + H
    BY <1>2
  <2>1. x = W * 0 + x
    OBVIOUS
  <2>2. x % W = x
    BY <2>1, Quotient
  <2> QED BY <1>1, <1>2, <2>2
<1>5. int(int(c) + 1) = int(c + 1)
  <2>1. ASSUME NEW z \in Int, NEW d \in Int, NEW m \in 0 .. W - 1, z = W * d + m, z = c + H, m = z % W
        PROVE  int(int(c) + 1) = int(c + 1)
    <3>1. int(c) = m - H
      BY <1>1, <2>1
    <3>a. (m - H) + 1 \in Int /\ ((m - H) + 1) + H = m + 1
      OBVIOUS
    <3>b. c + 1 \in Int /\ (c + 1) + H = z + 1
      BY <2>1
    <3>2. (m - H) + 1 \in Int /\ ((m - H) + 1) + H = m + 1 /\ c + 1 \in Int /\ (c + 1) + H = z + 1
      BY <3>a, <3>b
    <3>3. int((m - H) + 1) = ((m + 1) % W) - H /\ int(c + 1) = ((z + 1) % W) - H
      BY <1>1, <3>2
    <3>4. (z + 1) % W = (m + 1) % W
      BY <2>1, Successor
    <3> QED BY <3>1, <3>3, <3>4
  <2> PICK z \in Int : z = c + H
    OBVIOUS
  <2>2. z \div W \in Int /\ z % W \in 0 .. W - 1 /\ z = W * (z \div W) + (z % W)
    BY Divided
  <2> QED BY <2>1, <2>2
<1> QED BY <1>3, <1>4, <1>5

\* What is left of INT_MAX
LEMMA Remaining ==
  ASSUME NEW c \in 0 .. INT_MAX
  PROVE  (INT_MAX - c) % WordSize = INT_MAX - c
<1> PICK x \in Int : x = INT_MAX - c
  BY Constants
<1>1. x \in 0 .. WordSize - 1 /\ x = WordSize * 0 + x
  BY Constants
<1> QED BY <1>1, Constants, Quotient

----------------------------------------------------------------------------
(* The pieces of a format and their conversions                            *)

\* The variables of a thread that is idle
LEMMA IdleThread ==
  /\ ThreadOK(Idle) /\ Idle.pc = "idle" /\ Idle.calls = 0 /\ Idle.texts = 0 /\ Idle.written = 0
  /\ Idle.k = 1
BY ConsoleAssumption DEF Idle, ThreadOK, Ints, Fields

\* A thread that goes on to print a text
LEMMA PrintsType ==
  ASSUME NEW L, ThreadOK(L), NEW s \in Seq(Chars), NEW then \in {"format", "str"}
  PROVE  /\ ThreadOK(Prints(L, s, then))
         /\ Prints(L, s, then).pc = "print" /\ Prints(L, s, then).text = s
         /\ Prints(L, s, then).texts = L.texts + 1 /\ Prints(L, s, then).then = then
         /\ Prints(L, s, then).calls = L.calls /\ Prints(L, s, then).format = L.format
         /\ Prints(L, s, then).written = L.written /\ Prints(L, s, then).str = L.str
         /\ Prints(L, s, then).maxrem = L.maxrem /\ Prints(L, s, then).todo = L.todo
         /\ Prints(L, s, then).ret = L.ret /\ Prints(L, s, then).k = L.k
BY DEF Prints, ThreadOK, Fields

\* A thread that returns
LEMMA ReturnsType ==
  ASSUME NEW L, ThreadOK(L), NEW v \in Int
  PROVE  /\ ThreadOK(Returns(L, v))
         /\ Returns(L, v).pc = "idle" /\ Returns(L, v).ret = v
         /\ Returns(L, v).calls = L.calls /\ Returns(L, v).format = L.format
         /\ Returns(L, v).texts = 0 /\ Returns(L, v).written = 0 /\ Returns(L, v).k = 1
BY IdleThread DEF Returns, ThreadOK, Fields

\* What a piece is
LEMMA PieceFacts ==
  ASSUME NEW p \in Pieces
  PROVE  /\ p.kind \in {"text", "c", "s", "other", "d", "x"}
         /\ p.kind \in {"text", "c", "s", "other"} => p.text \in Seq(Chars)
         /\ p.kind = "c" => Len(p.text) = 1
         /\ p.kind = "d" => p.n \in Ints
         /\ p.kind = "x" => /\ p.flag \in {"x", "X"} /\ p.width \in {0, HexWidth}
                            /\ p.fill \in {" ", "0"} /\ p.sign \in {" ", "#"} /\ p.n \in Nat
<1>1. CASE p \in [kind : {"text", "s", "other"}, text : Seq(Chars)]
  <2>1. p.kind \in {"text", "s", "other"} /\ p.text \in Seq(Chars)
    BY <1>1
  <2> QED BY <2>1
<1>2. CASE p \in [kind : {"c"}, text : [1 .. 1 -> Chars]]
  <2>1. p.kind = "c" /\ p.text \in [1 .. 1 -> Chars]
    BY <1>2
  <2>2. ASSUME NEW s \in [1 .. 1 -> Chars]
        PROVE  s \in Seq(Chars) /\ Len(s) = 1
    OBVIOUS
  <2> QED BY <2>1, <2>2
<1>3. CASE p \in [kind : {"d"}, n : Ints]
  <2>1. p.kind = "d" /\ p.n \in Ints
    BY <1>3
  <2> QED BY <2>1
<1>4. CASE p \in [kind : {"x"}, flag : {"x", "X"}, width : {0, HexWidth}, fill : {" ", "0"},
                  sign : {" ", "#"}, n : 0 .. WordSize - 1]
  <2>1. p.kind = "x"
    BY <1>4
  <2>2. p.flag \in {"x", "X"} /\ p.width \in {0, HexWidth}
    BY <1>4
  <2>3. p.fill \in {" ", "0"} /\ p.sign \in {" ", "#"}
    BY <1>4
  <2>4. p.n \in 0 .. WordSize - 1
    BY <1>4
  <2>5. p.n \in Nat
    BY <2>4, Constants
  <2> QED BY <2>1, <2>2, <2>3, <2>5
<1> QED BY <1>1, <1>2, <1>3, <1>4 DEF Pieces

\* The naturals are well-ordered.
LEMMA Least ==
  ASSUME NEW S, S \subseteq Nat, S # {}
  PROVE  \E k \in S : \A j \in S : ~ (j < k)
<1>1. PICK k \in S : \A j \in S : ~ (<<j, k>> \in OpToRel(<, Nat))
  BY NatLessThanWellFounded, WFMin
<1> QED BY <1>1 DEF OpToRel

\* A digit is a character.
LEMMA DigitType ==
  ASSUME NEW d \in 0 .. 15
  PROVE  Digits[d + 1] \in Chars /\ Upper[d + 1] \in Chars
<1>1. Digits[d + 1] \in {Digits[i] : i \in 1 .. 16} /\ Upper[d + 1] \in {Upper[i] : i \in 1 .. 16}
  OBVIOUS
<1> QED BY <1>1, FormatsAssumption

\* The decimal digits of a number, given those of the smaller ones
Decimal(w, n) == IF n < 10 THEN <<Digits[n + 1]>> ELSE Append(w[n \div 10], Digits[(n % 10) + 1])

\* The next number's digits
LEMMA DecimalType ==
  ASSUME NEW n \in Nat, NEW w, \A i \in 0 .. n - 1 : w[i] \in Seq(Chars)
  PROVE  /\ Decimal(w, n) \in Seq(Chars)
         /\ n >= 10 => n \div 10 \in 0 .. n - 1
<1>1. CASE n < 10
  <2>1. n \in 0 .. 15
    BY <1>1
  <2>2. Digits[n + 1] \in Chars
    BY <2>1, DigitType
  <2> QED BY <1>1, <2>2 DEF Decimal
<1>2. CASE ~ (n < 10)
  <2>1. n \div 10 \in 0 .. n - 1 /\ n % 10 \in 0 .. 15
    BY <1>2
  <2>2. Digits[(n % 10) + 1] \in Chars /\ w[n \div 10] \in Seq(Chars)
    BY <2>1, DigitType
  <2> QED BY <1>2, <2>1, <2>2 DEF Decimal
<1> QED BY <1>1, <1>2

\* uint2string satisfies the equation that defines it: there is a function that
\* does, built up from zero.
LEMMA DecimalEquation ==
  uint2string = [n \in 0 .. INT_MAX + 1 |-> Decimal(uint2string, n)]
<1> PICK M \in Nat : M = INT_MAX + 1
  BY Constants
<1> DEFINE Upto(k) == \E w : /\ DOMAIN w = 0 .. k
                             /\ \A n \in 0 .. k : w[n] \in Seq(Chars) /\ w[n] = Decimal(w, n)
           Bad == {k \in Nat : ~ Upto(k)}
<1>1. ASSUME NEW k \in Nat, NEW w, \A n \in 0 .. k - 1 : w[n] \in Seq(Chars) /\ w[n] = Decimal(w, n)
      PROVE  Upto(k)
  <2> DEFINE v == [n \in 0 .. k |-> IF n < k THEN w[n] ELSE Decimal(w, k)]
  <2>1. ASSUME NEW n \in 0 .. k
        PROVE  v[n] \in Seq(Chars) /\ v[n] = Decimal(v, n)
    <3>1. v[n] = Decimal(w, n)
      BY <1>1
    <3>2. \A i \in 0 .. n - 1 : v[i] = w[i] /\ w[i] \in Seq(Chars)
      BY <1>1
    <3>a. n \in Nat /\ \A i \in 0 .. n - 1 : w[i] \in Seq(Chars)
      <4> HIDE DEF v
      <4> QED BY <3>2
    <3>3. Decimal(w, n) \in Seq(Chars) /\ (n >= 10 => n \div 10 \in 0 .. n - 1)
      <4> HIDE DEF v
      <4> QED BY <3>a, DecimalType
    <3>4. Decimal(v, n) = Decimal(w, n)
      <4> HIDE DEF v
      <4> QED BY <3>2, <3>3 DEF Decimal
    <3> QED BY <3>1, <3>3, <3>4
  <2>2. DOMAIN v = 0 .. k
    OBVIOUS
  <2> HIDE DEF v
  <2> QED BY <2>1, <2>2
<1>2. Bad = {}
  <2>1. SUFFICES ASSUME Bad # {} PROVE FALSE
    OBVIOUS
  <2>2. PICK k \in Bad : \A j \in Bad : ~ (j < k)
    BY <2>1, Least
  <2>3. k = 0
    <3>1. SUFFICES ASSUME k # 0 PROVE FALSE
      OBVIOUS
    <3>2. k - 1 \in Nat /\ k - 1 < k /\ k \in Nat
      BY <3>1
    <3>3. Upto(k - 1)
      BY <2>2, <3>2
    <3> QED BY <1>1, <3>2, <3>3
  <2>4. Upto(0)
    <3> DEFINE w == <<>>
    <3>1. \A n \in 0 .. 0 - 1 : w[n] \in Seq(Chars) /\ w[n] = Decimal(w, n)
      OBVIOUS
    <3> HIDE DEF w
    <3> QED BY <1>1, <3>1, ZenonT(30)
  <2> QED BY <2>3, <2>4
<1> DEFINE Def(w) == [n \in 0 .. M |-> Decimal(w, n)]
<1>3. PICK w : w = Def(w)
  <2>1. Upto(M)
    BY <1>2
  <2>2. PICK w : /\ DOMAIN w = 0 .. M
                 /\ \A n \in 0 .. M : w[n] \in Seq(Chars) /\ w[n] = Decimal(w, n)
    BY <2>1
  <2> DEFINE v == [n \in 0 .. M |-> w[n]]
  <2>3. \A n \in 0 .. M : v[n] = w[n] /\ w[n] = Decimal(w, n) /\ w[n] \in Seq(Chars)
    BY <2>2
  <2>4. ASSUME NEW n \in 0 .. M
        PROVE  v[n] = Decimal(v, n)
    <3>1. \A i \in 0 .. n - 1 : v[i] = w[i] /\ w[i] \in Seq(Chars)
      BY <2>3
    <3>2. n >= 10 => n \div 10 \in 0 .. n - 1
      BY <3>1, DecimalType
    <3>3. Decimal(v, n) = Decimal(w, n)
      <4> HIDE DEF v
      <4> QED BY <3>1, <3>2 DEF Decimal
    <3> QED BY <2>3, <3>3
  <2>5. v = [n \in 0 .. M |-> v[n]]
    OBVIOUS
  <2> HIDE DEF v
  <2>6. v = Def(v)
    BY <2>4, <2>5
  <2> QED BY <2>6
<1>4. PICK u : u = CHOOSE x : x = Def(x)
  OBVIOUS
<1>5. u = Def(u)
  <2> HIDE DEF Def
  <2> QED BY <1>3, <1>4
<1>6. uint2string = u
  BY <1>4 DEF uint2string, Decimal
<1> QED BY <1>5, <1>6

\* So it gives strings of every number it is given.
LEMMA DecimalStrings ==
  ASSUME NEW n \in 0 .. INT_MAX + 1
  PROVE  uint2string[n] \in Seq(Chars)
<1> PICK u : u = uint2string
  OBVIOUS
<1> PICK M \in Nat : M = INT_MAX + 1
  BY Constants
<1>1. \A i \in 0 .. M : u[i] = Decimal(u, i)
  BY DecimalEquation
<1> DEFINE Bad == {i \in 0 .. M : u[i] \notin Seq(Chars)}
<1>2. Bad = {}
  <2>1. SUFFICES ASSUME Bad # {} PROVE FALSE
    OBVIOUS
  <2>a. Bad \subseteq Nat
    OBVIOUS
  <2>2. PICK k \in Bad : \A j \in Bad : ~ (j < k)
    <3> HIDE DEF Bad
    <3> QED BY <2>1, <2>a, Least
  <2>3. k \in Nat /\ \A i \in 0 .. k - 1 : u[i] \in Seq(Chars)
    BY <2>2
  <2>4. Decimal(u, k) \in Seq(Chars)
    <3> HIDE DEF Bad
    <3> QED BY <2>3, DecimalType
  <2> QED BY <1>1, <2>2, <2>4
<1> QED BY <1>2

\* What %d prints
LEMMA SignedStrings ==
  ASSUME NEW n \in Ints
  PROVE  int2string(n) \in Seq(Chars)
<1>1. CASE n < 0
  <2> PICK m \in 0 .. INT_MAX + 1 : m = (0 - (n + 1)) + 1
    BY <1>1, Constants DEF Ints
  <2>1. uint2string[m] \in Seq(Chars)
    BY DecimalStrings
  <2>2. int2string(n) = <<"-">> \o uint2string[m]
    BY <1>1 DEF int2string
  <2>3. <<"-">> \in Seq(Chars)
    <3>1. "-" \in Chars
      BY FormatsAssumption
    <3> QED BY <3>1
  <2> QED BY <2>1, <2>2, <2>3, ConcatProperties
<1>2. CASE ~ (n < 0)
  <2>1. n \in 0 .. INT_MAX + 1
    BY <1>2, Constants DEF Ints
  <2> QED BY <1>2, <2>1, DecimalStrings DEF int2string
<1> QED BY <1>1, <1>2

----------------------------------------------------------------------------
(* The steps of printf                                                     *)

\* What follows of the globals
GlobalsOK ==
  /\ DOMAIN hex = Globals /\ hex.flag \in {"x", "X"} /\ hex.digits_max \in {0, HexWidth}
  /\ hex.complement \in {" ", "0"} /\ hex.sign \in {" ", "#"}

\* The conversion of a piece
LEMMA ConvertsStep ==
  ASSUME NEW L, ThreadOK(L), NEW p \in Pieces, p.kind \in {"s", "other", "d", "x"}, L.pc = "format",
         L.k = 1
  PROVE  LET N == Converts(L, p)
         IN  /\ WellFormed(N) /\ Kept(L, N) /\ N.pc \in {"str", "set"} /\ N.texts = L.texts
             /\ N.written = L.written /\ N.todo = L.todo /\ N.maxrem = L.maxrem
             /\ \/ p.kind \in {"s", "other"} /\ N.pc = "str" /\ N.str = p.text
                \/ p.kind = "d" /\ N.pc = "str" /\ N.str = int2string(p.n)
                \/ p.kind = "x" /\ N.pc = "set" /\ N.piece = p /\ N.k = 1
<1> PICK N : N = Converts(L, p)
  OBVIOUS
<1>1. CASE p.kind \in {"s", "other"}
  <2>1. N = [L EXCEPT !.pc = "str", !.str = p.text]
    BY <1>1 DEF Converts
  <2>2. p.text \in Seq(Chars)
    BY <1>1, PieceFacts
  <2>3. /\ WellFormed(N) /\ Kept(L, N) /\ N.texts = L.texts /\ N.written = L.written
        /\ N.todo = L.todo /\ N.maxrem = L.maxrem
    BY <2>1, <2>2 DEF ThreadOK, Fields, WellFormed, Kept
  <2>4. N.pc = "str" /\ N.str = p.text
    BY <2>1 DEF ThreadOK, Fields
  <2> QED BY <1>1, <2>3, <2>4
<1>2. CASE p.kind = "d"
  <2>1. N = [L EXCEPT !.pc = "str", !.str = int2string(p.n)]
    BY <1>2 DEF Converts
  <2>2. int2string(p.n) \in Seq(Chars)
    BY <1>2, PieceFacts, SignedStrings
  <2>3. /\ WellFormed(N) /\ Kept(L, N) /\ N.texts = L.texts /\ N.written = L.written
        /\ N.todo = L.todo /\ N.maxrem = L.maxrem
    BY <2>1, <2>2 DEF ThreadOK, Fields, WellFormed, Kept
  <2>4. N.pc = "str" /\ N.str = int2string(p.n)
    BY <2>1 DEF ThreadOK, Fields
  <2> QED BY <1>2, <2>3, <2>4
<1>3. CASE p.kind = "x"
  <2>1. N = [L EXCEPT !.pc = "set", !.piece = p]
    BY <1>3 DEF Converts
  <2>2. 1 <= Len(Settings(p))
    BY DEF Settings
  <2>3. N.pc = "set" /\ N.piece = p /\ N.k = 1
    BY <2>1 DEF ThreadOK, Fields
  <2>4. ThreadOK(N) /\ Kept(L, N) /\ N.texts = L.texts /\ N.written = L.written
        /\ N.todo = L.todo /\ N.maxrem = L.maxrem
    BY <2>1 DEF ThreadOK, Fields, Kept
  <2> QED BY <1>3, <2>2, <2>3, <2>4 DEF WellFormed
<1> QED BY <1>1, <1>2, <1>3

\* What is left of INT_MAX is a size_t.
LEMMA MaxremType ==
  ASSUME NEW w \in Ints
  PROVE  (INT_MAX - w) % WordSize \in 0 .. WordSize - 1
<1> PICK x \in Int : x = INT_MAX - w
  BY Constants DEF Ints
<1> QED BY Constants, Divided

\* The next piece
LEMMA FormatStep ==
  ASSUME Shaped, NEW t \in Threads, Format(t)
  PROVE  \E N : Changed(t, N) /\ Quiet(t, th[t], N) /\ hex' = hex
<1> PICK L : L = th[t]
  OBVIOUS
<1>1. WellFormed(L) /\ ThreadOK(L) /\ DOMAIN th = Threads /\ muddled \subseteq Threads
  BY DEF Shaped, WellFormed
<1>2. L.pc = "format" /\ L.todo # <<>> /\ L.k = 1
  BY <1>1 DEF Format, At, WellFormed
<1> PICK p : p = Head(L.todo)
  OBVIOUS
<1>3. p \in Pieces /\ Tail(L.todo) \in Seq(Pieces)
  BY <1>1, <1>2, HeadTailProperties DEF ThreadOK
<1>m. PICK M : M = [L EXCEPT !.todo = Tail(@), !.maxrem = (INT_MAX - L.written) % WordSize]
  OBVIOUS
<1>r. PICK r : r = (INT_MAX - L.written) % WordSize
  OBVIOUS
<1>4. r \in 0 .. WordSize - 1
  BY <1>1, <1>r, MaxremType DEF ThreadOK
<1>5. /\ ThreadOK(M) /\ Kept(L, M) /\ M.pc = "format" /\ M.k = 1 /\ M.todo = Tail(L.todo)
      /\ M.maxrem = r /\ M.written = L.written /\ M.texts = L.texts /\ M.str = L.str
  BY <1>1, <1>2, <1>3, <1>4, <1>m, <1>r DEF ThreadOK, Fields, Kept
<1> DEFINE N == CASE p.kind = "text" -> IF Fits(M, Len(p.text)) THEN Prints(M, p.text, "format")
                                                               ELSE Returns(M, -1)
                  [] p.kind = "c"    -> IF Fits(M, 1) THEN Prints(M, p.text, "str")
                                                      ELSE Returns(M, -1)
                  [] OTHER           -> Converts(M, p)
<1>6. /\ th' = [th EXCEPT ![t] = N] /\ UNCHANGED <<term, vram, owners, hex, paper>>
      /\ muddled' = IF p.kind = "c" /\ M.str # <<>> THEN muddled \union {t} ELSE muddled
  BY <1>m, Zenon DEF Format
<1>7. CASE p.kind \in {"text", "c"} /\ N = Returns(M, -1) /\ ~ (Len(p.text) <= M.maxrem)
  <2>1. ThreadOK(N) /\ N.pc = "idle" /\ N.ret = -1 /\ Kept(L, N) /\ N.k = 1 /\ N.texts = 0 /\ N.written = 0
    <3> HIDE DEF N
    <3> QED BY <1>5, <1>7, ReturnsType DEF Kept
  <2> HIDE DEF N
  <2>2. WellFormed(N) /\ Fails(L, N)
    BY <2>1 DEF WellFormed, Fails
  <2>3. Does(t, L, N)
    BY <1>2, <1>5, <1>6, <1>7, <1>r, <2>1 DEF Does, Took
  <2> QED BY <1>1, <1>2, <1>5, <1>6, <2>2, <2>3 DEF Quiet, Changed
<1>8. CASE p.kind = "text" /\ N = Prints(M, p.text, "format") /\ Fits(M, Len(p.text))
  <2> HIDE DEF N
  <2>1. p.text \in Seq(Chars)
    BY <1>3, <1>8, PieceFacts
  <2>2. /\ ThreadOK(N) /\ N.pc = "print" /\ Kept(L, N) /\ N.k = 1 /\ N.texts = L.texts + 1
        /\ N.written = L.written /\ N.str = L.str /\ N.maxrem = r /\ N.todo = Tail(L.todo)
        /\ N.text = p.text /\ N.then = "format"
    BY <1>5, <1>8, <2>1, PrintsType DEF Kept
  <2>3. Len(N.text) <= N.maxrem
    BY <1>5, <1>8, <2>2 DEF Fits
  <2>4. WellFormed(N) /\ Starts(L, N)
    BY <1>2, <2>2, <2>3, <1>r, SMTT(30) DEF WellFormed, Starts, Takes
  <2>5. Does(t, L, N)
    BY <1>2, <1>6, <1>8, <2>2 DEF Does, Took
  <2> QED BY <1>1, <1>2, <1>5, <1>6, <2>4, <2>5 DEF Quiet, Changed
<1>9. CASE p.kind = "c" /\ N = Prints(M, p.text, "str") /\ Fits(M, 1)
  <2> HIDE DEF N
  <2>1. p.text \in Seq(Chars) /\ Len(p.text) = 1
    BY <1>3, <1>9, PieceFacts
  <2>2. /\ ThreadOK(N) /\ N.pc = "print" /\ Kept(L, N) /\ N.k = 1 /\ N.texts = L.texts + 1
        /\ N.written = L.written /\ N.str = L.str /\ N.maxrem = r /\ N.todo = Tail(L.todo)
        /\ N.text = p.text /\ N.then = "str"
    BY <1>5, <1>9, <2>1, PrintsType DEF Kept
  <2>3. Len(N.text) <= N.maxrem
    BY <1>5, <1>9, <2>1, <2>2 DEF Fits
  <2>4. WellFormed(N) /\ Starts(L, N)
    BY <1>2, <1>9, <2>2, <2>3, <1>r DEF WellFormed, Starts, Takes
  <2>5. Does(t, L, N)
    BY <1>2, <1>6, <1>9, <2>2 DEF Does, Took
  <2> QED BY <1>1, <1>2, <1>5, <1>6, <2>4, <2>5 DEF Quiet, Changed
<1>10. CASE p.kind \in {"s", "other", "d", "x"}
  <2>1. N = Converts(M, p)
    BY <1>10
  <2> HIDE DEF N
  <2>2. /\ WellFormed(N) /\ Kept(M, N) /\ N.pc \in {"str", "set"} /\ N.texts = M.texts
        /\ N.written = M.written /\ N.todo = M.todo /\ N.maxrem = M.maxrem
        /\ \/ p.kind \in {"s", "other"} /\ N.pc = "str" /\ N.str = p.text
           \/ p.kind = "d" /\ N.pc = "str" /\ N.str = int2string(p.n)
           \/ p.kind = "x" /\ N.pc = "set" /\ N.piece = p /\ N.k = 1
    BY <1>3, <1>5, <1>10, <2>1, ConvertsStep
  <2>3. Computes(L, N)
    BY <1>2, <1>5, <1>r, <2>2 DEF Computes, Takes, Kept
  <2>4. Does(t, L, N)
    BY <1>2, <1>6, <2>2 DEF Does, Took
  <2> QED BY <1>1, <1>2, <1>5, <1>6, <2>2, <2>3, <2>4 DEF Quiet, Changed
<1>11. \/ p.kind \in {"text", "c"} /\ N = Returns(M, -1) /\ ~ (Len(p.text) <= M.maxrem)
       \/ p.kind = "text" /\ N = Prints(M, p.text, "format") /\ Fits(M, Len(p.text))
       \/ p.kind = "c" /\ N = Prints(M, p.text, "str") /\ Fits(M, 1)
       \/ p.kind \in {"s", "other", "d", "x"}
  <2>1. p.kind \in {"text", "c", "s", "other", "d", "x"}
    BY <1>3, PieceFacts
  <2>2. CASE p.kind = "text"
    BY <2>2 DEF Fits
  <2>3. CASE p.kind = "c"
    <3>1. Len(p.text) = 1
      BY <1>3, <2>3, PieceFacts
    <3> QED BY <2>3, <3>1 DEF Fits
  <2> QED BY <2>1, <2>2, <2>3
<1> HIDE DEF N
<1> QED BY <1>7, <1>8, <1>9, <1>10, <1>11

\* The text of a conversion
LEMMA PrintStrStep ==
  ASSUME Shaped, NEW t \in Threads, PrintStr(t)
  PROVE  \E N : Changed(t, N) /\ Quiet(t, th[t], N) /\ hex' = hex
<1>l. PICK L : L = th[t]
  OBVIOUS
<1>1. WellFormed(L) /\ ThreadOK(L) /\ DOMAIN th = Threads /\ muddled \subseteq Threads
  BY <1>l DEF Shaped, WellFormed
<1>2. L.pc = "str" /\ L.k = 1
  BY <1>1, <1>l DEF PrintStr, At, WellFormed
<1>n. PICK N : N = IF Fits(L, Len(L.str)) THEN Prints(L, L.str, "format") ELSE Returns(L, -1)
  OBVIOUS
<1>3. Changed(t, N) /\ UNCHANGED <<term, vram, owners, hex, paper, muddled>>
  BY <1>1, <1>l, <1>n DEF PrintStr, Changed
<1>4. CASE Fits(L, Len(L.str))
  <2>1. N = Prints(L, L.str, "format") /\ L.str \in Seq(Chars)
    BY <1>1, <1>4, <1>n DEF ThreadOK
  <2>2. /\ ThreadOK(N) /\ N.pc = "print" /\ Kept(L, N) /\ N.k = 1 /\ N.texts = L.texts + 1
        /\ N.written = L.written /\ N.str = L.str /\ N.maxrem = L.maxrem /\ N.todo = L.todo
        /\ N.text = L.str /\ N.then = "format"
    BY <1>1, <1>2, <2>1, PrintsType DEF Kept
  <2>3. Len(N.text) <= N.maxrem
    BY <1>4, <2>2 DEF Fits
  <2>4. WellFormed(N) /\ Starts(L, N)
    BY <1>2, <2>2, <2>3 DEF WellFormed, Starts
  <2>5. Does(t, L, N)
    BY <1>2, <1>3, <2>2 DEF Does, TookStr
  <2> QED BY <1>1, <1>2, <1>3, <1>l, <2>4, <2>5 DEF Quiet
<1>5. CASE ~ Fits(L, Len(L.str))
  <2>1. N = Returns(L, -1)
    BY <1>5, <1>n
  <2>2. ThreadOK(N) /\ N.pc = "idle" /\ N.ret = -1 /\ Kept(L, N) /\ N.k = 1 /\ N.texts = 0 /\ N.written = 0
    <3>1. -1 \in Int
      OBVIOUS
    <3> QED BY <1>1, <2>1, <3>1, ReturnsType DEF Kept
  <2>3. WellFormed(N) /\ Fails(L, N)
    BY <2>2 DEF WellFormed, Fails
  <2>4. Does(t, L, N)
    BY <1>2, <1>3, <1>5, <2>2 DEF Does, TookStr, Fits
  <2> QED BY <1>1, <1>2, <1>3, <1>l, <2>3, <2>4 DEF Quiet
<1> QED BY <1>4, <1>5

\* The end of the format
LEMMA ReturnStep ==
  ASSUME Shaped, NEW t \in Threads, Return(t)
  PROVE  \E N : Changed(t, N) /\ Quiet(t, th[t], N) /\ hex' = hex
<1>l. PICK L : L = th[t]
  OBVIOUS
<1>1. WellFormed(L) /\ ThreadOK(L) /\ DOMAIN th = Threads /\ muddled \subseteq Threads
  BY <1>l DEF Shaped, WellFormed
<1>2. L.pc = "format" /\ L.todo = <<>> /\ L.written \in Int
  BY <1>1, <1>l, Constants DEF Return, At, ThreadOK, Ints
<1>n. PICK N : N = Returns(L, L.written)
  OBVIOUS
<1>3. Changed(t, N) /\ UNCHANGED <<term, vram, owners, hex, paper, muddled>>
  BY <1>1, <1>l, <1>n DEF Return, Changed
<1>4. ThreadOK(N) /\ N.pc = "idle" /\ N.ret = L.written /\ Kept(L, N) /\ N.k = 1 /\ N.texts = 0 /\ N.written = 0
  BY <1>1, <1>2, <1>n, ReturnsType DEF Kept
<1>5. WellFormed(N) /\ Ends(L, N)
  BY <1>2, <1>4 DEF WellFormed, Ends
<1>6. Does(t, L, N)
  BY <1>2, <1>3, <1>4 DEF Does, Finished
<1> QED BY <1>1, <1>2, <1>3, <1>l, <1>5, <1>6 DEF Quiet

\* Each setting of a hex format gives a global one of its values.
LEMMA SettingFacts ==
  ASSUME NEW p \in Pieces, p.kind = "x", NEW k \in 1 .. 4, k <= Len(Settings(p))
  PROVE  LET s == Settings(p)[k]
         IN  \/ s[1] = "flag" /\ s[2] \in {"x", "X"}
             \/ s[1] = "digits_max" /\ s[2] \in {0, HexWidth}
             \/ s[1] = "sign" /\ s[2] \in {" ", "#"}
             \/ s[1] = "complement" /\ s[2] \in {" ", "0"}
<1>1. /\ p.flag \in {"x", "X"} /\ p.width \in {0, HexWidth} /\ p.fill \in {" ", "0"}
      /\ p.sign \in {" ", "#"}
  BY PieceFacts
<1>2. PICK a, b, c, d : /\ a = <<"flag", p.flag>> /\ b = <<"digits_max", p.width>>
                        /\ c = <<"sign", p.sign>> /\ d = <<"complement", p.fill>>
  OBVIOUS
<1>3. Settings(p)[k] \in {a, b, c, d}
  <2>1. CASE p.width = 0
    <3>1. Settings(p) = <<a, b, c>> \o <<>>
      BY <1>2, <2>1 DEF Settings
    <3>2. Len(<<a, b, c>> \o <<>>) = 3 /\ \A i \in 1 .. 3 : (<<a, b, c>> \o <<>>)[i] \in {a, b, c}
      OBVIOUS
    <3> QED BY <3>1, <3>2
  <2>2. CASE p.width # 0
    <3>1. Settings(p) = <<a, b, c>> \o <<d>>
      BY <1>2, <2>2 DEF Settings
    <3>2. \A i \in 1 .. 4 : (<<a, b, c>> \o <<d>>)[i] \in {a, b, c, d}
      OBVIOUS
    <3> QED BY <3>1, <3>2
  <2> QED BY <2>1, <2>2
<1>4. /\ a[1] = "flag" /\ a[2] = p.flag /\ b[1] = "digits_max" /\ b[2] = p.width
      /\ c[1] = "sign" /\ c[2] = p.sign /\ d[1] = "complement" /\ d[2] = p.fill
  BY <1>2
<1> QED BY <1>1, <1>3, <1>4

\* A global is set.
LEMMA HexSetStep ==
  ASSUME Shaped, NEW t \in Threads, HexSet(t)
  PROVE  \E N : Changed(t, N) /\ Quiet(t, th[t], N) /\ GlobalsOK'
<1>l. PICK L : L = th[t]
  OBVIOUS
<1>1. WellFormed(L) /\ ThreadOK(L) /\ DOMAIN th = Threads /\ muddled \subseteq Threads /\ GlobalsOK
  BY <1>l DEF Shaped, WellFormed, GlobalsOK
<1>2. /\ L.pc = "set" /\ L.piece \in Pieces /\ L.piece.kind = "x" /\ L.k \in 1 .. 4
      /\ L.k <= Len(Settings(L.piece))
  BY <1>1, <1>l DEF HexSet, At, WellFormed, ThreadOK
<1>s. PICK s : s = Settings(L.piece)[L.k]
  OBVIOUS
<1>n. PICK N : N = IF L.k < Len(Settings(L.piece)) THEN [L EXCEPT !.k = @ + 1]
                   ELSE [L EXCEPT !.pc = "digits", !.k = 1, !.n = L.piece.n, !.str = <<>>]
  OBVIOUS
<1>3. /\ th' = [th EXCEPT ![t] = N] /\ hex' = [hex EXCEPT ![s[1]] = s[2]]
      /\ muddled' = muddled \union {u \in Threads \ {t} : InHex(u) /\ hex' # hex}
      /\ UNCHANGED <<term, vram, owners, paper>>
  <2> DEFINE p == th[t].piece
             q == Settings(p)[th[t].k]
  <2>1. th' = [th EXCEPT ![t] =
                IF th[t].k < Len(Settings(p)) THEN [th[t] EXCEPT !.k = @ + 1]
                ELSE [th[t] EXCEPT !.pc = "digits", !.k = 1, !.n = p.n, !.str = <<>>]]
    BY Zenon DEF HexSet
  <2>3. hex' = [hex EXCEPT ![q[1]] = q[2]] /\ UNCHANGED <<term, vram, owners, paper>>
    BY Zenon DEF HexSet
  <2>4. muddled' = muddled \union {u \in Threads \ {t} : InHex(u) /\ hex' # hex}
    BY Zenon DEF HexSet
  <2>2. s = q /\ N = IF th[t].k < Len(Settings(p)) THEN [th[t] EXCEPT !.k = @ + 1]
                ELSE [th[t] EXCEPT !.pc = "digits", !.k = 1, !.n = p.n, !.str = <<>>]
    BY <1>l, <1>s, <1>n, Zenon
  <2> QED BY <2>1, <2>2, <2>3, <2>4, Zenon
<1>4. GlobalsOK'
  <2>1. \/ s[1] = "flag" /\ s[2] \in {"x", "X"}
        \/ s[1] = "digits_max" /\ s[2] \in {0, HexWidth}
        \/ s[1] = "sign" /\ s[2] \in {" ", "#"}
        \/ s[1] = "complement" /\ s[2] \in {" ", "0"}
    BY <1>2, <1>s, SettingFacts
  <2> QED BY <1>1, <1>3, <2>1 DEF GlobalsOK, Globals
<1>5. Changed(t, N)
  BY <1>1, <1>3 DEF Changed
<1>6. Len(Settings(L.piece)) \in Nat /\ Len(Settings(L.piece)) <= 4
  BY DEF Settings
<1>7. WellFormed(N) /\ Computes(L, N)
  <2>1. CASE L.k < Len(Settings(L.piece))
    <3>1. N = [L EXCEPT !.k = L.k + 1] /\ L.k + 1 \in 1 .. 4 /\ L.k + 1 <= Len(Settings(L.piece))
      BY <1>2, <1>6, <1>n, <2>1
    <3>2. /\ ThreadOK(N) /\ Kept(L, N) /\ N.pc = "set" /\ N.piece = L.piece /\ N.k = L.k + 1
          /\ N.texts = L.texts /\ N.written = L.written /\ N.todo = L.todo /\ N.maxrem = L.maxrem
      BY <1>1, <1>2, <3>1 DEF ThreadOK, Fields, Kept
    <3> QED BY <1>2, <3>1, <3>2 DEF WellFormed, Computes
  <2>2. CASE ~ (L.k < Len(Settings(L.piece)))
    <3>1. N = [L EXCEPT !.pc = "digits", !.k = 1, !.n = L.piece.n, !.str = <<>>]
      BY <1>n, <2>2
    <3>2. L.piece.n \in Nat
      BY <1>2, PieceFacts
    <3>3. /\ ThreadOK(N) /\ Kept(L, N) /\ N.pc = "digits" /\ N.piece = L.piece /\ N.k = 1
          /\ N.texts = L.texts /\ N.written = L.written /\ N.todo = L.todo /\ N.maxrem = L.maxrem
      BY <1>1, <3>1, <3>2 DEF ThreadOK, Fields, Kept
    <3> QED BY <1>2, <3>3 DEF WellFormed, Computes
  <2> QED BY <2>1, <2>2
<1>8. N.piece = L.piece /\ IF L.k < Len(Settings(L.piece)) THEN N.pc = "set" /\ N.k = L.k + 1
                           ELSE N.pc = "digits" /\ N.n = L.piece.n /\ N.str = <<>>
  BY <1>1, <1>2, <1>n DEF ThreadOK, Fields
<1>9. SetOne(t, L, N)
  <2>1. \A u \in Threads \ {t} : (InHex(u) /\ hex' # hex) => u \in muddled'
    BY <1>3, Zenon
  <2>2. hex' = [hex EXCEPT ![Settings(L.piece)[L.k][1]] = Settings(L.piece)[L.k][2]]
    BY <1>3, <1>s, Zenon
  <2> QED BY <1>2, <1>8, <2>1, <2>2, Zenon DEF SetOne
<1>10. Does(t, L, N)
  BY <1>9, Zenon DEF Does
<1> QED BY <1>1, <1>2, <1>3, <1>4, <1>5, <1>7, <1>10, <1>l DEF Quiet

\* A digit
LEMMA HexDigitStep ==
  ASSUME Shaped, NEW t \in Threads, HexDigit(t)
  PROVE  \E N : Changed(t, N) /\ Quiet(t, th[t], N) /\ hex' = hex
<1>l. PICK L : L = th[t]
  OBVIOUS
<1>1. WellFormed(L) /\ ThreadOK(L) /\ DOMAIN th = Threads /\ muddled \subseteq Threads
  BY <1>l DEF Shaped, WellFormed
<1>2. L.pc = "digits" /\ L.piece \in Pieces /\ L.piece.kind = "x" /\ L.k = 1 /\ L.n \in Nat /\ L.str \in Seq(Chars)
  BY <1>1, <1>l DEF HexDigit, At, WellFormed, ThreadOK
<1>d. PICK d : d = (IF hex.flag = "x" THEN Digits ELSE Upper)[(L.n % 16) + 1]
  OBVIOUS
<1>r. PICK r : r = L.n \div 16
  OBVIOUS
<1>3. d \in Chars /\ r \in Nat
  <2>1. L.n % 16 \in 0 .. 15 /\ L.n \div 16 \in Nat
    <3>1. \A n \in Nat : n % 16 \in 0 .. 15 /\ n \div 16 \in Nat
      OBVIOUS
    <3> QED BY <1>2, <3>1
  <2>2. d = Digits[(L.n % 16) + 1] \/ d = Upper[(L.n % 16) + 1]
    BY <1>d
  <2> QED BY <1>r, <2>1, <2>2, DigitType
<1>n. PICK N : N = [L EXCEPT !.str = <<d>> \o @, !.n = r, !.pc = IF r = 0 THEN "pad" ELSE @]
  OBVIOUS
<1>4. /\ th' = [th EXCEPT ![t] = N] /\ UNCHANGED <<term, vram, owners, hex, paper, muddled>>
  <2>1. /\ th' = [th EXCEPT ![t].str = <<d>> \o @, ![t].n = r, ![t].pc = IF r = 0 THEN "pad" ELSE @]
        /\ UNCHANGED <<term, vram, owners, hex, paper, muddled>>
    BY <1>l, <1>d, <1>r, Zenon DEF HexDigit
  <2> QED BY <1>1, <1>l, <1>n, <2>1 DEF ThreadOK, Fields
<1>5. Changed(t, N)
  BY <1>1, <1>4 DEF Changed
<1>6. <<d>> \o L.str \in Seq(Chars)
  <2>1. <<d>> \in Seq(Chars)
    BY <1>3
  <2> QED BY <1>2, <2>1, ConcatProperties
<1>7. /\ ThreadOK(N) /\ Kept(L, N) /\ N.pc \in {"digits", "pad"} /\ N.piece = L.piece /\ N.k = 1
      /\ N.texts = L.texts /\ N.written = L.written /\ N.todo = L.todo /\ N.maxrem = L.maxrem
  BY <1>1, <1>2, <1>3, <1>6, <1>n DEF ThreadOK, Fields, Kept
<1>8. WellFormed(N) /\ Computes(L, N)
  BY <1>2, <1>7 DEF WellFormed, Computes
<1>9. N.str = <<d>> \o L.str /\ N.n = r /\ N.pc = IF r = 0 THEN "pad" ELSE "digits"
  BY <1>1, <1>2, <1>n DEF ThreadOK, Fields
<1>10. Does(t, L, N)
  <2>1. hex' = hex
    BY <1>4
  <2>2. AddedDigit(L, N)
    BY <1>2, <1>7, <1>9, <1>d, <1>r, <2>1, Zenon DEF AddedDigit
  <2> QED BY <2>2, Zenon DEF Does
<1> QED BY <1>1, <1>2, <1>4, <1>5, <1>8, <1>10, <1>l DEF Quiet

\* A fill character, or no more of them
LEMMA HexPadStep ==
  ASSUME Shaped, NEW t \in Threads, HexPad(t)
  PROVE  \E N : Changed(t, N) /\ Quiet(t, th[t], N) /\ hex' = hex
<1>l. PICK L : L = th[t]
  OBVIOUS
<1>1. WellFormed(L) /\ ThreadOK(L) /\ DOMAIN th = Threads /\ muddled \subseteq Threads
  BY <1>l DEF Shaped, WellFormed
<1>2. L.pc = "pad" /\ L.piece \in Pieces /\ L.piece.kind = "x" /\ L.k = 1 /\ L.str \in Seq(Chars)
  BY <1>1, <1>l DEF HexPad, At, WellFormed, ThreadOK
<1>n. PICK N : N = IF Len(L.str) < hex.digits_max THEN [L EXCEPT !.str = <<hex.complement>> \o @]
                                                  ELSE [L EXCEPT !.pc = "sign"]
  OBVIOUS
<1>4. /\ th' = [th EXCEPT ![t] = N] /\ UNCHANGED <<term, vram, owners, hex, paper, muddled>>
  <2>1. /\ th' = [th EXCEPT ![t] = IF Len(th[t].str) < hex.digits_max
                                     THEN [th[t] EXCEPT !.str = <<hex.complement>> \o @]
                                     ELSE [th[t] EXCEPT !.pc = "sign"]]
        /\ UNCHANGED <<term, vram, owners, hex, paper, muddled>>
    BY Zenon DEF HexPad
  <2> QED BY <1>l, <1>n, <2>1, Zenon
<1>5. Changed(t, N)
  BY <1>1, <1>4 DEF Changed
<1>6. <<hex.complement>> \o L.str \in Seq(Chars)
  <2>0. {" ", "0"} \subseteq Chars
    <3>1. Digits[0 + 1] \in Chars /\ Digits[0 + 1] = "0"
      BY DigitType DEF Digits
    <3> QED BY <3>1, FormatsAssumption
  <2>1. hex.complement \in Chars
    BY <2>0 DEF Shaped
  <2>2. <<hex.complement>> \in Seq(Chars)
    BY <2>1
  <2> QED BY <1>2, <2>2, ConcatProperties
<1>7. /\ ThreadOK(N) /\ Kept(L, N) /\ N.pc \in {"pad", "sign"} /\ N.piece = L.piece /\ N.k = 1
      /\ N.texts = L.texts /\ N.written = L.written /\ N.todo = L.todo /\ N.maxrem = L.maxrem
  <2>1. CASE N = [L EXCEPT !.str = <<hex.complement>> \o @]
    BY <1>1, <1>2, <1>6, <2>1 DEF ThreadOK, Fields, Kept
  <2>2. CASE N = [L EXCEPT !.pc = "sign"]
    BY <1>1, <1>2, <2>2 DEF ThreadOK, Fields, Kept
  <2> QED BY <1>n, <2>1, <2>2
<1>8. WellFormed(N) /\ Computes(L, N)
  BY <1>2, <1>7 DEF WellFormed, Computes
<1>9. IF Len(L.str) < hex.digits_max THEN N.pc = "pad" /\ N.str = <<hex.complement>> \o L.str
                                     ELSE N.pc = "sign" /\ N.str = L.str
  BY <1>1, <1>2, <1>n DEF ThreadOK, Fields
<1>10. Does(t, L, N)
  <2>1. hex' = hex
    BY <1>4
  <2>2. FilledUp(L, N)
    BY <1>2, <1>7, <1>9, <2>1, Zenon DEF FilledUp
  <2> QED BY <2>2, Zenon DEF Does
<1> QED BY <1>1, <1>2, <1>4, <1>5, <1>8, <1>10, <1>l DEF Quiet

\* The sign
LEMMA HexSignStep ==
  ASSUME Shaped, NEW t \in Threads, HexSign(t)
  PROVE  \E N : Changed(t, N) /\ Quiet(t, th[t], N) /\ hex' = hex
<1>l. PICK L : L = th[t]
  OBVIOUS
<1>1. WellFormed(L) /\ ThreadOK(L) /\ DOMAIN th = Threads /\ muddled \subseteq Threads
  BY <1>l DEF Shaped, WellFormed
<1>2. L.pc = "sign" /\ L.k = 1 /\ L.str \in Seq(Chars)
  BY <1>1, <1>l DEF HexSign, At, WellFormed, ThreadOK
<1>s. PICK s : s = IF hex.sign = "#" THEN <<"0", "x">> \o L.str ELSE L.str
  OBVIOUS
<1>3. s \in Seq(Chars)
  <2>0. {"x", "0"} \subseteq Chars
    <3>1. Digits[0 + 1] \in Chars /\ Digits[0 + 1] = "0"
      BY DigitType DEF Digits
    <3> QED BY <3>1, FormatsAssumption
  <2>2. <<"0", "x">> \in Seq(Chars)
    BY <2>0
  <2>3. <<"0", "x">> \o L.str \in Seq(Chars)
    BY <1>2, <2>2, ConcatProperties
  <2> QED BY <1>2, <1>s, <2>3
<1>n. PICK N : N = [L EXCEPT !.pc = "str", !.piece = NoPiece, !.str = s]
  OBVIOUS
<1>4. /\ th' = [th EXCEPT ![t] = N] /\ UNCHANGED <<term, vram, owners, hex, paper, muddled>>
  <2>1. /\ th' = [th EXCEPT ![t].pc = "str", ![t].piece = NoPiece,
                        ![t].str = IF hex.sign = "#" THEN <<"0", "x">> \o @ ELSE @]
        /\ UNCHANGED <<term, vram, owners, hex, paper, muddled>>
    BY Zenon DEF HexSign
  <2> QED BY <1>1, <1>l, <1>n, <1>s, <2>1 DEF ThreadOK, Fields
<1>5. Changed(t, N)
  BY <1>1, <1>4 DEF Changed
<1>7. /\ ThreadOK(N) /\ Kept(L, N) /\ N.pc = "str" /\ N.k = 1
      /\ N.texts = L.texts /\ N.written = L.written /\ N.todo = L.todo /\ N.maxrem = L.maxrem
  BY <1>1, <1>2, <1>3, <1>n DEF ThreadOK, Fields, Kept
<1>8. WellFormed(N) /\ Computes(L, N)
  BY <1>2, <1>7 DEF WellFormed, Computes
<1>9. N.str = s
  BY <1>1, <1>n DEF ThreadOK, Fields
<1>10. Does(t, L, N)
  <2>1. hex' = hex
    BY <1>4
  <2>2. Signed0x(L, N)
    BY <1>2, <1>7, <1>9, <1>s, <2>1, Zenon DEF Signed0x
  <2> QED BY <2>2, Zenon DEF Does
<1> QED BY <1>1, <1>2, <1>4, <1>5, <1>8, <1>10, <1>l DEF Quiet

----------------------------------------------------------------------------
(* A call, and the steps of print                                          *)

\* The variables of the thread after a call
Called(L, N, f) ==
    /\ WellFormed(N) /\ L.pc = "idle" /\ N.pc = "format" /\ N.calls = L.calls + 1
    /\ N.format = f /\ N.todo = f /\ N.texts = 0 /\ N.written = 0

\* A step of print leaves these alone.
SameCall(L, N) ==
    /\ WellFormed(N) /\ Kept(L, N) /\ N.texts = L.texts /\ N.todo = L.todo /\ N.str = L.str
    /\ N.maxrem = L.maxrem /\ N.then = L.then

\* What a call and the steps of print do
CallMove(t, N, f) ==
    /\ Called(th[t], N, f) /\ muddled' = muddled \ {t}
    /\ UNCHANGED <<term, vram, owners, hex, paper>>

BeginMove(t, N) ==
    /\ SameCall(th[t], N) /\ th[t].pc = "print" /\ N.pc = "putchar"
    /\ N.written = th[t].written /\ N.text = th[t].text /\ owners = {} /\ owners' = {t}
    /\ UNCHANGED <<term, vram, hex, paper, muddled>>

PutMove(t, N, e) ==
    /\ SameCall(th[t], N) /\ th[t].pc = "putchar" /\ N.pc = "putchar"
    /\ th[t].text # <<>> /\ N.text = Tail(th[t].text) /\ N.written = int(th[t].written + 1)
    /\ e \in Entries /\ e.thread = t /\ e.call = th[t].calls /\ e.text = th[t].texts
    /\ e.char = Head(th[t].text) /\ paper' = Append(paper, e) /\ main_terminal_putchar(e.char)
    /\ UNCHANGED <<vram, owners, hex, muddled>>

EndMove(t, N) ==
    /\ SameCall(th[t], N) /\ th[t].pc = "putchar" /\ N.pc = th[t].then
    /\ N.written = th[t].written /\ th[t].text = <<>> /\ owners = {t} /\ owners' = {}
    /\ UNCHANGED <<term, vram, hex, paper, muddled>>

\* printf is called.
LEMMA CallStep ==
  ASSUME Shaped, NEW t \in Threads, NEW f \in Formats, Call(t, f)
  PROVE  \E N : Changed(t, N) /\ CallMove(t, N, f)
<1>l. PICK L : L = th[t]
  OBVIOUS
<1>1. WellFormed(L) /\ ThreadOK(L) /\ DOMAIN th = Threads
  BY <1>l DEF Shaped, WellFormed
<1>2. L.pc = "idle" /\ L.k = 1 /\ L.texts = 0 /\ L.written = 0 /\ f \in Seq(Pieces)
  BY <1>1, <1>l, FormatsAssumption DEF Call, At, WellFormed
<1>n. PICK N : N = [L EXCEPT !.pc = "format", !.calls = L.calls + 1, !.format = f, !.todo = f]
  OBVIOUS
<1>3. th' = [th EXCEPT ![t] = N] /\ muddled' = muddled \ {t} /\ UNCHANGED <<term, vram, owners, hex, paper>>
  <2>1. /\ th' = [th EXCEPT ![t].pc = "format", ![t].calls = @ + 1, ![t].format = f, ![t].todo = f]
        /\ muddled' = muddled \ {t} /\ UNCHANGED <<term, vram, owners, hex, paper>>
    BY Zenon DEF Call
  <2> QED BY <1>1, <1>l, <1>n, <2>1 DEF ThreadOK, Fields
<1>4. Changed(t, N)
  BY <1>1, <1>3 DEF Changed
<1>5. /\ ThreadOK(N) /\ N.pc = "format" /\ N.calls = L.calls + 1 /\ N.format = f /\ N.todo = f
      /\ N.texts = 0 /\ N.written = 0 /\ N.k = 1
  BY <1>1, <1>2, <1>n DEF ThreadOK, Fields
<1> QED BY <1>2, <1>3, <1>4, <1>5, <1>l DEF CallMove, Called, WellFormed

\* print takes the lock.
LEMMA BeginStep ==
  ASSUME Shaped, NEW t \in Threads, PrintBegin(t)
  PROVE  \E N : Changed(t, N) /\ BeginMove(t, N)
<1>l. PICK L : L = th[t]
  OBVIOUS
<1>1. WellFormed(L) /\ ThreadOK(L) /\ DOMAIN th = Threads
  BY <1>l DEF Shaped, WellFormed
<1>2. /\ L.pc = "print" /\ L.k = 1 /\ owners = {} /\ owners' = {t}
      /\ UNCHANGED <<term, vram, hex, paper, muddled>>
  BY <1>1, <1>l DEF PrintBegin, At, Lock, io_lock!Acquire, io_lock!Promise!Acquire, WellFormed
<1>n. PICK N : N = [L EXCEPT !.pc = "putchar"]
  OBVIOUS
<1>3. th' = [th EXCEPT ![t] = N]
  <2>1. th' = [th EXCEPT ![t].pc = "putchar"]
    BY DEF PrintBegin
  <2> QED BY <1>1, <1>l, <1>n, <2>1 DEF ThreadOK, Fields
<1>4. Changed(t, N)
  BY <1>1, <1>3 DEF Changed
<1>5. /\ ThreadOK(N) /\ N.pc = "putchar" /\ N.k = 1 /\ N.written = L.written /\ N.text = L.text
      /\ Kept(L, N) /\ N.texts = L.texts /\ N.todo = L.todo /\ N.str = L.str
      /\ N.maxrem = L.maxrem /\ N.then = L.then
  BY <1>1, <1>2, <1>n DEF ThreadOK, Fields, Kept
<1> QED BY <1>2, <1>4, <1>5, <1>l DEF BeginMove, SameCall, WellFormed

\* The lock comes back.
LEMMA EndStep ==
  ASSUME Shaped, NEW t \in Threads, PrintEnd(t)
  PROVE  \E N : Changed(t, N) /\ EndMove(t, N)
<1>l. PICK L : L = th[t]
  OBVIOUS
<1>1. WellFormed(L) /\ ThreadOK(L) /\ DOMAIN th = Threads
  BY <1>l DEF Shaped, WellFormed
<1>2. /\ L.pc = "putchar" /\ L.k = 1 /\ L.text = <<>> /\ owners = {t} /\ owners' = {}
      /\ UNCHANGED <<term, vram, hex, paper, muddled>>
  BY <1>1, <1>l DEF PrintEnd, At, Unlock, io_lock!Release, io_lock!Promise!Release, WellFormed
<1>n. PICK N : N = [L EXCEPT !.pc = L.then]
  OBVIOUS
<1>3. th' = [th EXCEPT ![t] = N]
  <2>1. th' = [th EXCEPT ![t].pc = th[t].then]
    BY DEF PrintEnd
  <2> QED BY <1>1, <1>l, <1>n, <2>1 DEF ThreadOK, Fields
<1>4. Changed(t, N)
  BY <1>1, <1>3 DEF Changed
<1>5. /\ ThreadOK(N) /\ N.pc = L.then /\ N.k = 1 /\ N.written = L.written
      /\ Kept(L, N) /\ N.texts = L.texts /\ N.todo = L.todo /\ N.str = L.str
      /\ N.maxrem = L.maxrem /\ N.then = L.then
  BY <1>1, <1>2, <1>n DEF ThreadOK, Fields, Kept
<1>6. L.then \in {"format", "str"}
  BY <1>1 DEF ThreadOK
<1> QED BY <1>2, <1>4, <1>5, <1>6, <1>l DEF EndMove, SameCall, WellFormed

\* A character is written.
LEMMA PutStep ==
  ASSUME Shaped, NEW t \in Threads, Putchar(t)
  PROVE  \E N, e : Changed(t, N) /\ PutMove(t, N, e)
<1>l. PICK L : L = th[t]
  OBVIOUS
<1>1. WellFormed(L) /\ ThreadOK(L) /\ DOMAIN th = Threads
  BY <1>l DEF Shaped, WellFormed
<1>2. L.pc = "putchar" /\ L.k = 1 /\ L.text # <<>> /\ UNCHANGED <<vram, owners, hex, muddled>>
  BY <1>1, <1>l DEF Putchar, At, WellFormed
<1>c. PICK c : c = Head(L.text)
  OBVIOUS
<1>3. c \in Chars /\ Tail(L.text) \in Seq(Chars)
  BY <1>1, <1>2, <1>c, HeadTailProperties DEF ThreadOK
<1>w. PICK w : w = int(L.written + 1)
  OBVIOUS
<1>4. w \in Ints
  <2>1. L.written + 1 \in Int
    BY <1>1, Constants DEF ThreadOK, Ints
  <2> QED BY <1>w, <2>1, IntFacts
<1>n. PICK N : N = [L EXCEPT !.text = Tail(L.text), !.written = w]
  OBVIOUS
<1>5. th' = [th EXCEPT ![t] = N]
  <2>1. th' = [th EXCEPT ![t].text = Tail(@), ![t].written = int(@ + 1)]
    BY DEF Putchar
  <2> QED BY <1>1, <1>l, <1>n, <1>w, <2>1 DEF ThreadOK, Fields
<1>6. Changed(t, N)
  BY <1>1, <1>5 DEF Changed
<1>7. /\ ThreadOK(N) /\ N.pc = "putchar" /\ N.k = 1 /\ N.written = w /\ N.text = Tail(L.text)
      /\ Kept(L, N) /\ N.texts = L.texts /\ N.todo = L.todo /\ N.str = L.str
      /\ N.maxrem = L.maxrem /\ N.then = L.then
  BY <1>1, <1>2, <1>3, <1>4, <1>n DEF ThreadOK, Fields, Kept
<1>8. SameCall(L, N)
  BY <1>7 DEF SameCall, WellFormed
<1>e. PICK e : e = [thread |-> t, call |-> L.calls, text |-> L.texts, char |-> c]
  OBVIOUS
<1>9. /\ e \in Entries /\ e.thread = t /\ e.call = L.calls /\ e.text = L.texts /\ e.char = c
  BY <1>1, <1>3, <1>e DEF Entries, ThreadOK
<1>10. paper' = Append(paper, e) /\ main_terminal_putchar(e.char)
  <2>1. main_terminal_putchar(c)
    BY <1>c, <1>l, Zenon DEF Putchar
  <2>2. paper' = Append(paper, e)
    BY <1>c, <1>e, <1>l, Zenon DEF Putchar
  <2> QED BY <1>9, <2>1, <2>2
<1> QED BY <1>2, <1>6, <1>7, <1>8, <1>9, <1>10, <1>c, <1>l, <1>w DEF PutMove

----------------------------------------------------------------------------
(* Types                                                                   *)

\* The screen has a row.
LEMMA RowsType == Rows \in Nat \ {0} /\ FontHeight * Rows <= Yres /\ Yres < FontHeight * Rows + FontHeight
<1>1. PICK q, r : q = Yres \div FontHeight /\ r = Yres % FontHeight
  OBVIOUS
<1>2. q \in Int /\ r \in 0 .. FontHeight - 1 /\ Yres = FontHeight * q + r
  BY <1>1, Constants, Divided
<1>3. ~ (q <= 0)
  <2>1. SUFFICES ASSUME q <= 0 PROVE FALSE
    OBVIOUS
  <2>2. FontHeight * q <= 0
    BY <1>2, <2>1, Constants
  <2> QED BY <1>2, <2>2, Constants
<1> QED BY <1>1, <1>2, <1>3, Constants DEF Rows

\* The cursor stays on the screen.
LEMMA CursorStep ==
  ASSUME charX \in 0 .. Cols - 1, charY \in 0 .. Rows - 1, DOMAIN vbe_buffer = Lines, NEW c,
         main_terminal_putchar(c)
  PROVE  charX' \in 0 .. Cols - 1 /\ charY' \in 0 .. Rows - 1 /\ DOMAIN vbe_buffer' = Lines
<1>1. Rows \in Nat \ {0} /\ Cols \in Nat \ {0}
  BY RowsType, Constants
<1>2. ASSUME NEW B, DOMAIN B = Lines, newline(B)
      PROVE  charX' \in 0 .. Cols - 1 /\ charY' \in 0 .. Rows - 1 /\ DOMAIN vbe_buffer' = Lines
  <2>1. CASE charY + 1 = Rows
    <3>1. charX' = 0 /\ charY' = Rows - 1 /\ vbe_buffer' = rolled(B)
      BY <1>2, <2>1 DEF newline
    <3> QED BY <1>1, <3>1 DEF rolled
  <2>2. CASE charY + 1 # Rows
    <3>1. charX' = 0 /\ charY' = charY + 1 /\ vbe_buffer' = B
      BY <1>2, <2>2 DEF newline
    <3> QED BY <1>1, <1>2, <2>2, <3>1
  <2> QED BY <2>1, <2>2
<1>3. DOMAIN drawn(c) = Lines
  BY DEF drawn
<1>4. CASE c = "nl"
  BY <1>2, <1>4 DEF main_terminal_putchar
<1>5. CASE c # "nl" /\ charX + 1 = Cols
  BY <1>2, <1>3, <1>5 DEF main_terminal_putchar
<1>6. CASE c # "nl" /\ charX + 1 # Cols
  <2>1. vbe_buffer' = drawn(c) /\ charX' = charX + 1 /\ charY' = charY
    BY <1>6 DEF main_terminal_putchar
  <2> QED BY <1>1, <1>3, <1>6, <2>1
<1> QED BY <1>4, <1>5, <1>6

\* A step of a thread, or a call
Moves(t, N) ==
    /\ Changed(t, N)
    /\ \/ Quiet(t, th[t], N) /\ GlobalsOK'
       \/ BeginMove(t, N) \/ EndMove(t, N)
       \/ (\E f \in Formats : CallMove(t, N, f)) \/ (\E e : PutMove(t, N, e))

Stepped == \E t \in Threads : \E N : Moves(t, N)

\* All but how threads wait for io_lock
printing == <<vbe_buffer, charX, charY, vram, owners, hex, th, paper, muddled>>

\* That is all that happens, besides swap_buffer and threads going to sleep.
LEMMA NextStepped ==
  ASSUME Shaped, [Next]_vars
  PROVE  Stepped \/ Swap \/ UNCHANGED printing
<1>g. hex' = hex => GlobalsOK'
  BY DEF Shaped, GlobalsOK
<1>1. ASSUME NEW t \in Threads, NEW f \in Formats, Call(t, f)
      PROVE  Stepped
  BY <1>1, CallStep DEF Stepped, Moves
<1>2. ASSUME NEW t \in Threads, NEW N, Changed(t, N), Quiet(t, th[t], N), GlobalsOK'
      PROVE  Stepped
  BY <1>2 DEF Stepped, Moves
<1>3. ASSUME NEW t \in Threads, PrintBegin(t)
      PROVE  Stepped
  BY <1>3, BeginStep DEF Stepped, Moves
<1>4. ASSUME NEW t \in Threads, PrintEnd(t)
      PROVE  Stepped
  BY <1>4, EndStep DEF Stepped, Moves
<1>5. ASSUME NEW t \in Threads, Putchar(t)
      PROVE  Stepped
  BY <1>5, PutStep DEF Stepped, Moves
<1>7. ASSUME NEW t \in Threads, PrintWait(t)
      PROVE  UNCHANGED printing
  BY <1>7 DEF PrintWait, printing, term, io_lock!Block, io_lock!Fail, io_lock!SleepAgain
<1>8. Tick \/ UNCHANGED vars => UNCHANGED printing
  BY DEF Tick, printing, term, vars
<1>6. ASSUME NEW t \in Threads, Step(t)
      PROVE  Stepped \/ UNCHANGED printing
  <2>1. CASE Format(t) \/ PrintStr(t) \/ Return(t)
    BY <1>2, <1>g, <2>1, FormatStep, PrintStrStep, ReturnStep
  <2>2. CASE HexSet(t)
    BY <1>2, <2>2, HexSetStep
  <2>3. CASE HexDigit(t) \/ HexPad(t) \/ HexSign(t)
    BY <1>2, <1>g, <2>3, HexDigitStep, HexPadStep, HexSignStep
  <2> QED BY <1>3, <1>4, <1>5, <1>6, <1>7, <2>1, <2>2, <2>3 DEF Step, Works
<1> QED BY <1>1, <1>6, <1>8 DEF Next

\* At the start
LEMMA ShapedInit == ASSUME Init PROVE Shaped
<1>1. charX \in 0 .. Cols - 1 /\ charY \in 0 .. Rows - 1
  BY RowsType, Constants DEF Init
<1>2. DOMAIN vbe_buffer = Lines /\ DOMAIN vram = Lines
  BY DEF Init, Clear
<1>3. DOMAIN hex = Globals /\ hex.flag \in {"x", "X"} /\ hex.digits_max \in {0, HexWidth}
      /\ hex.complement \in {" ", "0"} /\ hex.sign \in {" ", "#"}
  BY DEF Init, Globals
<1>4. WellFormed(Idle)
  BY IdleThread DEF WellFormed
<1>5. DOMAIN th = Threads /\ \A t \in Threads : th[t] = Idle
  BY DEF Init
<1>6. owners = {} /\ paper = <<>> /\ muddled = {}
  BY DEF Init, io_lock!Init, io_lock!Promise!Init
<1>7. owners = {t \in Threads : th[t].pc = "putchar"}
  BY <1>5, <1>6, IdleThread
<1>8. (\A t, u \in owners : t = u) /\ paper \in Seq(Entries) /\ muddled \subseteq Threads
  BY <1>6
<1>9. \A t \in Threads : WellFormed(th[t])
  BY <1>4, <1>5
<1> QED BY <1>1, <1>2, <1>3, <1>5, <1>7, <1>8, <1>9 DEF Shaped

\* The types are kept.
LEMMA ShapedNext ==
  ASSUME Shaped, [Next]_vars
  PROVE  Shaped'
<1>1. CASE UNCHANGED printing
  BY <1>1 DEF Shaped, printing, WellFormed
<1>2. CASE Swap
  BY <1>2 DEF Shaped, Swap, term, WellFormed
<1>3. CASE Stepped
  <2>t. PICK t \in Threads : \E N : Moves(t, N)
    BY <1>3 DEF Stepped
  <2>1. PICK N : Moves(t, N)
    BY <2>t
  <2>2. WellFormed(N) /\ DOMAIN th' = Threads /\ \A u \in Threads : WellFormed(th'[u])
    BY <2>1 DEF Moves, Changed, Quiet, CallMove, BeginMove, EndMove, PutMove, Called, SameCall, Shaped
  <2>3. GlobalsOK'
    BY <2>1 DEF Moves, CallMove, BeginMove, EndMove, PutMove, Shaped, GlobalsOK
  <2>4. charX' \in 0 .. Cols - 1 /\ charY' \in 0 .. Rows - 1 /\ DOMAIN vbe_buffer' = Lines
    <3>1. CASE UNCHANGED term
      BY <3>1 DEF term, Shaped
    <3>2. CASE \E e : main_terminal_putchar(e.char)
      BY <3>2, CursorStep DEF Shaped
    <3> QED BY <2>1, <3>1, <3>2 DEF Moves, CallMove, BeginMove, EndMove, PutMove, Quiet
  <2>5. DOMAIN vram' = Lines /\ muddled' \subseteq Threads
    BY <2>1 DEF Moves, CallMove, BeginMove, EndMove, PutMove, Quiet, Shaped
  <2>6. paper' \in Seq(Entries)
    <3>1. paper \in Seq(Entries)
      BY DEF Shaped
    <3>2. CASE paper' = paper
      BY <3>1, <3>2
    <3>3. CASE \E e \in Entries : paper' = Append(paper, e)
      BY <3>1, <3>3, AppendProperties
    <3> QED BY <2>1, <3>2, <3>3 DEF Moves, CallMove, BeginMove, EndMove, PutMove, Quiet
  <2>7. owners' = {u \in Threads : th'[u].pc = "putchar"} /\ \A u, v \in owners' : u = v
    <3>1. owners = {u \in Threads : th[u].pc = "putchar"} /\ \A u, v \in owners : u = v
      BY DEF Shaped
    <3>2. th'[t] = N /\ \A u \in Threads \ {t} : th'[u] = th[u]
      BY <2>1 DEF Moves, Changed
    <3>3. CASE /\ owners' = owners /\ (N.pc = "putchar" <=> th[t].pc = "putchar")
      BY <3>1, <3>2, <3>3
    <3>4. CASE owners = {} /\ owners' = {t} /\ N.pc = "putchar"
      BY <3>1, <3>2, <3>4
    <3>5. CASE owners = {t} /\ owners' = {} /\ N.pc = th[t].then
      <4>1. th[t].then # "putchar"
        BY DEF Shaped, WellFormed, ThreadOK
      <4> QED BY <3>1, <3>2, <3>5, <4>1
    <3>6. ASSUME Quiet(t, th[t], N)
          PROVE  owners' = owners /\ N.pc # "putchar" /\ th[t].pc # "putchar"
      BY <3>6 DEF Quiet, Fails, Ends, Starts, Computes
    <3> QED BY <2>1, <3>3, <3>4, <3>5, <3>6 DEF Moves, CallMove, BeginMove, EndMove, PutMove, Called
  <2> QED BY <2>2, <2>3, <2>4, <2>5, <2>6, <2>7 DEF Shaped, GlobalsOK
<1> QED BY <1>1, <1>2, <1>3, NextStepped

----------------------------------------------------------------------------
(* Texts are not mixed                                                     *)

Alike(x, y) == x.thread = y.thread /\ x.call = y.call /\ x.text = y.text

\* What thread t, with variables L, has on the paper: nothing of a later call,
\* nothing of a later text, nothing of the text it is about to print; and while
\* it prints, what it has written of its text is the end of the paper.
OnPaper(t, L) ==
    \A i \in DOMAIN paper : paper[i].thread = t =>
        /\ paper[i].call <= L.calls
        /\ (paper[i].call = L.calls /\ L.pc # "idle") => paper[i].text <= L.texts
        /\ (paper[i].call = L.calls /\ L.pc = "print") => paper[i].text < L.texts
        /\ (paper[i].call = L.calls /\ L.pc = "putchar" /\ paper[i].text = L.texts)
              => Alike(paper[Len(paper)], paper[i])

\* The inductive invariant of TextsWhole
InTurn == Shaped /\ TextsWhole /\ \A t \in Threads : OnPaper(t, th[t])

\* Each step keeps it.
LEMMA InTurnNext ==
  ASSUME InTurn, [Next]_vars
  PROVE  InTurn'
<1>0. Shaped /\ Shaped' /\ TextsWhole
  BY ShapedNext DEF InTurn
<1>p. paper \in Seq(Entries) /\ Len(paper) \in Nat /\ DOMAIN paper = 1 .. Len(paper)
  <2>1. paper \in Seq(Entries)
    BY <1>0 DEF Shaped
  <2> QED BY <2>1, LenProperties
<1>e. \A i \in DOMAIN paper : paper[i].call \in Nat /\ paper[i].text \in Nat /\ paper[i].thread \in Threads
  <2>1. \A i \in DOMAIN paper : paper[i] \in Entries
    BY <1>p
  <2> QED BY <2>1 DEF Entries
<1>w. \A u \in Threads : th[u].calls \in Nat /\ th[u].texts \in Nat
  BY <1>0 DEF Shaped, WellFormed, ThreadOK
<1>1. CASE UNCHANGED <<th, paper>>
  <2>1. TextsWhole' /\ \A u \in Threads : OnPaper(u, th[u])'
    BY <1>0, <1>1 DEF InTurn, TextsWhole, OnPaper, Alike
  <2> QED BY <1>0, <2>1 DEF InTurn
<1>2. ASSUME NEW t \in Threads, NEW N, Moves(t, N), paper' = paper, OnPaper(t, N)
      PROVE  InTurn'
  <2>1. TextsWhole'
    BY <1>0, <1>2 DEF TextsWhole
  <2>2. th'[t] = N /\ \A u \in Threads \ {t} : th'[u] = th[u]
    BY <1>2 DEF Moves, Changed
  <2>3. ASSUME NEW u \in Threads PROVE OnPaper(u, th[u])'
    <3>1. OnPaper(u, th'[u])
      BY <1>2, <2>2 DEF InTurn
    <3> QED BY <1>2, <3>1 DEF OnPaper, Alike
  <2> QED BY <1>0, <2>1, <2>3 DEF InTurn
<1>3. ASSUME NEW t \in Threads, NEW N, Moves(t, N), NEW e, PutMove(t, N, e)
      PROVE  InTurn'
  <2>1. th'[t] = N /\ \A u \in Threads \ {t} : th'[u] = th[u]
    BY <1>3, SMTT(30) DEF Moves, Changed
  <2>2. PICK n \in Nat : n = Len(paper)
    BY <1>p
  <2>3. /\ Len(paper') = n + 1 /\ DOMAIN paper' = 1 .. n + 1 /\ paper'[n + 1] = e
        /\ \A i \in 1 .. n : paper'[i] = paper[i]
    BY <1>3, <1>p, <2>2, AppendProperties DEF PutMove
  <2>4. /\ N.calls = th[t].calls /\ N.texts = th[t].texts /\ N.pc = "putchar" /\ th[t].pc = "putchar"
        /\ e.thread = t /\ e.call = th[t].calls /\ e.text = th[t].texts
    BY <1>3 DEF PutMove, SameCall, Kept
  <2>5. OnPaper(t, th[t])
    BY DEF InTurn
  <2>6. TextsWhole'
    <3>1. ASSUME NEW k \in DOMAIN paper', NEW i \in 1 .. k - 1, Alike(paper'[i], paper'[k])
          PROVE  Alike(paper'[k - 1], paper'[k])
      <4>1. CASE k \in 1 .. n
        <5>1. i \in 1 .. n /\ k - 1 \in 1 .. n /\ paper'[i] = paper[i] /\ paper'[k] = paper[k] /\ paper'[k - 1] = paper[k - 1]
          BY <2>3, <4>1
        <5> QED BY <1>0, <1>p, <2>2, <3>1, <4>1, <5>1 DEF TextsWhole, Alike
      <4>2. CASE k = n + 1
        <5>1. i \in 1 .. n /\ k - 1 = n /\ n \in 1 .. n /\ paper'[i] = paper[i] /\ paper'[k] = e /\ paper'[n] = paper[n]
          BY <2>3, <4>2
        <5>2. paper[i].thread = t /\ paper[i].call = th[t].calls /\ paper[i].text = th[t].texts
          BY <2>4, <3>1, <5>1 DEF Alike
        <5>3. Alike(paper[n], paper[i])
          BY <1>p, <2>2, <2>4, <2>5, <5>1, <5>2 DEF OnPaper
        <5> QED BY <2>4, <5>1, <5>2, <5>3 DEF Alike
      <4> QED BY <2>3, <4>1, <4>2
    <3> QED BY <3>1 DEF TextsWhole, Alike
  <2>7. ASSUME NEW u \in Threads PROVE OnPaper(u, th[u])'
    <3>1. CASE u = t
      <4>1. ASSUME NEW i \in DOMAIN paper', paper'[i].thread = t
            PROVE  /\ paper'[i].call <= N.calls
                   /\ paper'[i].call = N.calls => paper'[i].text <= N.texts
                   /\ (paper'[i].call = N.calls /\ paper'[i].text = N.texts) => Alike(paper'[n + 1], paper'[i])
        <5>1. CASE i = n + 1
          BY <1>w, <2>3, <2>4, <5>1 DEF Alike
        <5>2. CASE i # n + 1
          <6>1. i \in DOMAIN paper /\ paper'[i] = paper[i]
            BY <1>p, <2>2, <2>3, <5>2
          <6> QED BY <2>3, <2>4, <2>5, <4>1, <6>1 DEF OnPaper, Alike
        <5> QED BY <5>1, <5>2
      <4> QED BY <2>1, <2>3, <2>4, <3>1, <4>1 DEF OnPaper
    <3>2. CASE u # t
      <4>1. OnPaper(u, th[u]) /\ th'[u] = th[u]
        BY <2>1, <3>2 DEF InTurn
      <4>2. th[u].pc # "putchar"
        <5>1. t \in owners /\ (th[u].pc = "putchar" => u \in owners) /\ \A x, y \in owners : x = y
          BY <1>0, <2>4 DEF Shaped
        <5> QED BY <3>2, <5>1
      <4>3. ASSUME NEW i \in DOMAIN paper', paper'[i].thread = u
            PROVE  i \in DOMAIN paper /\ paper'[i] = paper[i]
        BY <1>p, <2>2, <2>3, <2>4, <3>2, <4>3
      <4> QED BY <4>1, <4>2, <4>3 DEF OnPaper
    <3> QED BY <3>1, <3>2
  <2> QED BY <1>0, <2>6, <2>7 DEF InTurn
<1>4. ASSUME NEW t \in Threads, NEW N, Moves(t, N)
      PROVE  InTurn'
  <2>0. OnPaper(t, th[t])
    BY DEF InTurn
  <2>1. CASE Quiet(t, th[t], N)
    <3>1. paper' = paper /\ N.calls = th[t].calls /\ th[t].pc \notin {"idle", "print", "putchar"}
      BY <2>1 DEF Quiet, Fails, Ends, Starts, Computes, Kept
    <3>2. \/ N.pc = "idle"
          \/ N.pc = "print" /\ N.texts = th[t].texts + 1
          \/ N.pc \notin {"idle", "print", "putchar"} /\ N.texts = th[t].texts
      <4>1. Fails(th[t], N) \/ Ends(th[t], N) \/ Starts(th[t], N) \/ Computes(th[t], N)
        BY <2>1 DEF Quiet
      <4>2. CASE Fails(th[t], N) \/ Ends(th[t], N)
        BY <4>2 DEF Fails, Ends
      <4>3. CASE Starts(th[t], N)
        BY <4>3 DEF Starts
      <4>4. CASE Computes(th[t], N)
        BY <4>4 DEF Computes
      <4> QED BY <4>1, <4>2, <4>3, <4>4
    <3>3. OnPaper(t, N)
      BY <1>e, <1>w, <2>0, <3>1, <3>2 DEF OnPaper
    <3> QED BY <1>2, <1>4, <3>1, <3>3
  <2>2. CASE \E f \in Formats : CallMove(t, N, f)
    <3>1. paper' = paper /\ N.calls = th[t].calls + 1
      BY <2>2 DEF CallMove, Called
    <3>2. OnPaper(t, N)
      BY <1>e, <1>w, <2>0, <3>1 DEF OnPaper
    <3> QED BY <1>2, <1>4, <3>1, <3>2
  <2>3. CASE BeginMove(t, N)
    <3>1. paper' = paper /\ N.calls = th[t].calls /\ N.texts = th[t].texts /\ th[t].pc = "print" /\ N.pc = "putchar"
      BY <2>3 DEF BeginMove, SameCall, Kept
    <3>2. OnPaper(t, N)
      BY <1>e, <1>w, <2>0, <3>1 DEF OnPaper
    <3> QED BY <1>2, <1>4, <3>1, <3>2
  <2>4. CASE EndMove(t, N)
    <3>1. /\ paper' = paper /\ N.calls = th[t].calls /\ N.texts = th[t].texts /\ th[t].pc = "putchar"
          /\ N.pc = th[t].then
      BY <2>4 DEF EndMove, SameCall, Kept
    <3>2. N.pc \notin {"print", "putchar"}
      BY <1>0, <3>1 DEF Shaped, WellFormed, ThreadOK
    <3>3. OnPaper(t, N)
      BY <2>0, <3>1, <3>2 DEF OnPaper
    <3> QED BY <1>2, <1>4, <3>1, <3>3
  <2>5. CASE \E e : PutMove(t, N, e)
    BY <1>3, <1>4, <2>5
  <2> QED BY <1>4, <2>1, <2>2, <2>3, <2>4, <2>5 DEF Moves
<1> QED BY <1>0, <1>1, <1>4, NextStepped DEF Stepped, Swap, printing

\* Texts are not mixed: io_lock is taken for each text, and a thread that holds
\* it is the only one that writes.
THEOREM TextsStayWhole == Spec => []TextsWhole
<1>1. Init => InTurn
  <2>1. SUFFICES ASSUME Init PROVE InTurn
    OBVIOUS
  <2>2. paper = <<>>
    BY <2>1 DEF Init
  <2> QED BY <2>1, <2>2, ShapedInit DEF InTurn, TextsWhole, OnPaper
<1>2. InTurn /\ [Next]_vars => InTurn'
  BY InTurnNext
<1>3. InTurn => TextsWhole
  BY DEF InTurn
<1> QED BY <1>1, <1>2, <1>3, PTL DEF Spec

\* Every field keeps to its range.
THEOREM TypesKept == Spec => []TypeOK
<1>1. Init => Shaped
  BY ShapedInit
<1>2. Shaped /\ [Next]_vars => Shaped'
  BY ShapedNext
<1>3. Shaped => TypeOK
  BY DEF Shaped, TypeOK, WellFormed, ThreadOK
<1> QED BY <1>1, <1>2, <1>3, PTL DEF Spec

----------------------------------------------------------------------------
(* What printf returns                                                     *)

\* With C characters on the paper, printf has counted them, as an int ...
Counts(L, C) ==
    /\ L.pc # "idle" => L.written = int(C)
    /\ (L.pc = "idle" /\ L.calls > 0 /\ L.ret # -1) => L.ret = int(C)

\* ... and none of the texts it starts goes beyond INT_MAX: maxrem is what is left,
\* or there is nothing to repeat.
Small(L, C) ==
    /\ C <= INT_MAX
    /\ L.pc \in {"print", "putchar"} => C + Len(L.text) <= INT_MAX
    /\ (L.pc \in {"print", "putchar"} /\ L.then = "str") => L.str = <<>>
    /\ L.pc \in {"set", "digits", "pad", "sign"} => L.maxrem = INT_MAX - C
    /\ L.pc = "str" => (L.str = <<>> \/ L.maxrem = INT_MAX - C)

\* What is to be printed is part of the format.
FromFormat(L) ==
    L.pc # "idle" => \A i \in DOMAIN L.todo : \E j \in DOMAIN L.format : L.todo[i] = L.format[j]

HasChar(L) == \E j \in DOMAIN L.format : L.format[j].kind = "c"

\* The inductive invariant of ReturnsLength
Lengths ==
    /\ InTurn
    /\ \A t \in Threads :
          /\ Counts(th[t], Cardinality(Mine(t, th[t].calls))) /\ FromFormat(th[t])
          /\ Repeats(t) \/ Small(th[t], Cardinality(Mine(t, th[t].calls)))

\* The rest of a format is part of it.
LEMMA RestOfFormat ==
  ASSUME NEW L, NEW N, ThreadOK(L), FromFormat(L), L.pc # "idle", N.format = L.format,
         N.todo = L.todo \/ (L.todo # <<>> /\ N.todo = Tail(L.todo))
  PROVE  FromFormat(N)
<1>0. L.todo \in Seq(Pieces)
  BY DEF ThreadOK
<1>1. CASE N.todo = L.todo
  BY <1>1 DEF FromFormat
<1>2. CASE L.todo # <<>> /\ N.todo = Tail(L.todo)
  <2>s. PICK s \in Seq(Pieces) : s = L.todo
    BY <1>0
  <2>1. \A i \in DOMAIN Tail(s) : i + 1 \in DOMAIN s /\ Tail(s)[i] = s[i + 1]
    <3>1. s # <<>>
      BY <1>2, <2>s
    <3> QED BY <3>1
  <2>2. ASSUME NEW i \in DOMAIN N.todo
        PROVE  \E j \in DOMAIN L.format : N.todo[i] = L.format[j]
    <3>1. i + 1 \in DOMAIN L.todo /\ N.todo[i] = L.todo[i + 1]
      BY <1>2, <2>s, <2>1, <2>2
    <3> QED BY <3>1 DEF FromFormat
  <2> QED BY <2>2 DEF FromFormat
<1> QED BY <1>1, <1>2

\* A step outside print
LEMMA QuietCounts ==
  ASSUME NEW t \in Threads, NEW L, NEW N, WellFormed(L), Quiet(t, L, N), NEW C \in Nat,
         Counts(L, C), FromFormat(L)
  PROVE  /\ Counts(N, C) /\ FromFormat(N)
         /\ (Small(L, C) /\ (t \in muddled' => ~ HasChar(N))) => Small(N, C)
<1>1. /\ L.pc \notin {"idle", "print", "putchar"} /\ L.written = int(C) /\ N.calls = L.calls
      /\ N.format = L.format /\ ThreadOK(L) /\ ThreadOK(N)
  BY DEF Quiet, Counts, WellFormed, Fails, Ends, Starts, Computes, Kept
<1>2. Fails(L, N) \/ Ends(L, N) \/ Starts(L, N) \/ Computes(L, N)
  BY DEF Quiet
<1>3. CASE Fails(L, N)
  BY <1>3 DEF Fails, Counts, FromFormat, Small
<1>4. CASE Ends(L, N)
  BY <1>1, <1>4 DEF Ends, Counts, FromFormat, Small
<1>m. ASSUME C <= INT_MAX, Takes(L, N)
      PROVE  N.maxrem = INT_MAX - C
  <2>1. C \in Ints /\ C \in 0 .. INT_MAX
    BY <1>m, Constants DEF Ints
  <2>2. L.written = C
    BY <1>1, <2>1, IntFacts
  <2> QED BY <1>m, <2>1, <2>2, Remaining DEF Takes
<1>5. CASE Starts(L, N)
  <2>1. N.pc = "print" /\ N.written = L.written /\ N.str = L.str /\ Len(N.text) <= N.maxrem
    BY <1>5 DEF Starts
  <2>2. Len(N.text) \in Nat /\ N.maxrem \in Nat
    BY <1>1, Constants DEF ThreadOK
  <2>3. Counts(N, C)
    BY <1>1, <2>1 DEF Counts
  <2>4. CASE L.pc = "format"
    <3>1. Takes(L, N) /\ (N.then = "str" => Head(L.todo).kind = "c")
      BY <1>5, <2>4 DEF Starts
    <3>2. FromFormat(N)
      BY <1>1, <3>1, RestOfFormat DEF Takes
    <3>3. ASSUME Small(L, C), t \in muddled' => ~ HasChar(N)
          PROVE  Small(N, C)
      <4>1. C <= INT_MAX /\ N.maxrem = INT_MAX - C
        BY <1>m, <3>1, <3>3 DEF Small
      <4>2. C + Len(N.text) <= INT_MAX
        BY <2>1, <2>2, <4>1, Constants
      <4>3. N.then = "str" => N.str = <<>>
        <5>1. SUFFICES ASSUME N.then = "str" PROVE L.str = <<>>
          BY <2>1
        <5>2. L.todo # <<>> /\ Head(L.todo).kind = "c" /\ L.todo \in Seq(Pieces)
          BY <1>1, <3>1, <5>1 DEF Takes, ThreadOK
        <5>3. 1 \in DOMAIN L.todo /\ L.todo[1] = Head(L.todo)
          BY <5>2
        <5>4. HasChar(L)
          BY <1>1, <5>2, <5>3 DEF FromFormat, HasChar
        <5>5. HasChar(N)
          BY <1>1, <5>4 DEF HasChar
        <5> QED BY <2>4, <3>3, <5>2, <5>5 DEF Quiet
      <4> QED BY <2>1, <4>1, <4>2, <4>3 DEF Small
    <3> QED BY <2>3, <3>2, <3>3
  <2>5. CASE L.pc = "str"
    <3>1. N.todo = L.todo /\ N.maxrem = L.maxrem /\ N.text = L.str /\ N.then = "format"
      BY <1>5, <2>5 DEF Starts
    <3>2. FromFormat(N)
      BY <1>1, <3>1, RestOfFormat
    <3>3. ASSUME Small(L, C)
          PROVE  Small(N, C)
      <4>1. C <= INT_MAX /\ (L.str = <<>> \/ L.maxrem = INT_MAX - C)
        BY <2>5, <3>3 DEF Small
      <4>2. C + Len(N.text) <= INT_MAX
        <5>1. CASE L.str = <<>>
          <6>1. Len(N.text) = 0
            BY <3>1, <5>1
          <6> QED BY <4>1, <6>1, Constants
        <5>2. CASE L.maxrem = INT_MAX - C
          BY <2>1, <2>2, <3>1, <5>2, Constants
        <5> QED BY <4>1, <5>1, <5>2
      <4> QED BY <2>1, <3>1, <4>1, <4>2 DEF Small
    <3> QED BY <2>3, <3>2, <3>3
  <2> QED BY <1>5, <2>4, <2>5 DEF Starts
<1>6. CASE Computes(L, N)
  <2>1. N.pc \in {"str", "set", "digits", "pad", "sign"} /\ N.written = L.written
    BY <1>6 DEF Computes
  <2>2. Counts(N, C)
    BY <1>1, <2>1 DEF Counts
  <2>3. FromFormat(N)
    BY <1>1, <1>6, RestOfFormat DEF Computes, Takes
  <2>4. ASSUME Small(L, C) PROVE Small(N, C)
    <3>1. N.maxrem = INT_MAX - C
      <4>1. CASE L.pc = "format" /\ Takes(L, N)
        BY <1>m, <2>4, <4>1 DEF Small
      <4>2. CASE L.pc \in {"set", "digits", "pad", "sign"} /\ N.maxrem = L.maxrem
        BY <2>4, <4>2 DEF Small
      <4> QED BY <1>6, <4>1, <4>2 DEF Computes
    <3> QED BY <2>1, <2>4, <3>1 DEF Small
  <2> QED BY <2>2, <2>3, <2>4
<1> QED BY <1>2, <1>3, <1>4, <1>5, <1>6

\* A thread's characters are finitely many.
LEMMA MineFinite ==
  ASSUME paper \in Seq(Entries), NEW t, NEW c
  PROVE  IsFiniteSet(Mine(t, c)) /\ Cardinality(Mine(t, c)) \in Nat
<1>1. IsFiniteSet(DOMAIN paper)
  <2>1. PICK n \in Nat : n = Len(paper)
    OBVIOUS
  <2>2. DOMAIN paper = 1 .. n
    BY <2>1
  <2> QED BY <2>2, FS_Interval
<1>2. Mine(t, c) \subseteq DOMAIN paper
  BY DEF Mine
<1> QED BY <1>1, <1>2, FS_Subset, FS_CardinalityType

\* Each step keeps the counts.
LEMMA LengthsNext ==
  ASSUME Lengths, [Next]_vars
  PROVE  Lengths'
<1>0. InTurn /\ InTurn' /\ Shaped /\ paper \in Seq(Entries) /\ \A u \in Threads : WellFormed(th[u])
  BY InTurnNext DEF Lengths, InTurn, Shaped
<1> DEFINE Card(u) == Cardinality(Mine(u, th[u].calls))
           Fine(u) == /\ Counts(th[u], Card(u)) /\ FromFormat(th[u])
                      /\ Repeats(u) \/ Small(th[u], Card(u))
<1>f. \A u \in Threads : Fine(u)
  BY DEF Lengths
<1>s. SUFFICES ASSUME NEW u \in Threads PROVE Fine(u)'
  BY <1>0 DEF Lengths
<1>1. ASSUME th'[u] = th[u], Mine(u, th[u].calls)' = Mine(u, th[u].calls), u \in muddled => u \in muddled'
      PROVE  Fine(u)'
  <2>1. Counts(th[u], Card(u))' /\ FromFormat(th[u])'
    BY <1>1, <1>f DEF Counts, FromFormat
  <2>2. Repeats(u) => Repeats(u)'
    BY <1>1 DEF Repeats
  <2>3. Small(th[u], Card(u)) => Small(th[u], Card(u))'
    BY <1>1 DEF Small
  <2> QED BY <1>f, <2>1, <2>2, <2>3
<1>2. CASE UNCHANGED <<th, paper, muddled>>
  <2>1. Mine(u, th[u].calls)' = Mine(u, th[u].calls)
    BY <1>2 DEF Mine
  <2> QED BY <1>1, <1>2, <2>1
<1>3. ASSUME NEW t \in Threads, NEW N, Moves(t, N)
      PROVE  Fine(u)'
  <2>1. th'[t] = N /\ \A x \in Threads \ {t} : th'[x] = th[x]
    BY <1>3 DEF Moves, Changed
  <2>2. CASE u # t
    <3>1. th'[u] = th[u]
      BY <2>1, <2>2
    <3>2. u \in muddled => u \in muddled'
      BY <1>3, <2>2 DEF Moves, Quiet, CallMove, BeginMove, EndMove, PutMove
    <3>3. Mine(u, th[u].calls)' = Mine(u, th[u].calls)
      <4>1. CASE paper' = paper
        BY <3>1, <4>1 DEF Mine
      <4>2. CASE \E e \in Entries : e.thread = t /\ paper' = Append(paper, e)
        <5>1. PICK e \in Entries : e.thread = t /\ paper' = Append(paper, e)
          BY <4>2
        <5>2. PICK n \in Nat : n = Len(paper)
          BY <1>0
        <5>3. /\ DOMAIN paper = 1 .. n /\ DOMAIN paper' = 1 .. n + 1 /\ paper'[n + 1] = e
              /\ \A i \in 1 .. n : paper'[i] = paper[i]
          BY <1>0, <5>1, <5>2, AppendProperties
        <5> QED BY <2>2, <3>1, <5>1, <5>3 DEF Mine
      <4> QED BY <1>3, <4>1, <4>2 DEF Moves, Quiet, CallMove, BeginMove, EndMove, PutMove
    <3> QED BY <1>1, <3>1, <3>2, <3>3
  <2>3. CASE u = t
    <3>l. PICK L : L = th[t]
      OBVIOUS
    <3>c. PICK C : C = Card(t)
      OBVIOUS
    <3>1. C \in Nat /\ WellFormed(L) /\ ThreadOK(L) /\ Counts(L, C) /\ FromFormat(L) /\ (Repeats(t) \/ Small(L, C))
      BY <1>0, <1>f, <3>c, <3>l, MineFinite DEF WellFormed
    <3>2. Repeats(t) <=> t \in muddled /\ HasChar(L)
      BY <3>l DEF Repeats, HasChar
    <3>3. Repeats(t)' <=> t \in muddled' /\ HasChar(N)
      BY <2>1 DEF Repeats, HasChar
    <3>4. ASSUME NEW D, D = Card(t)', Counts(N, D), FromFormat(N),
                 (t \in muddled' => ~ HasChar(N)) => Small(N, D)
          PROVE  Fine(u)'
      <4>1. Counts(th[t], Card(t))' /\ FromFormat(th[t])'
        BY <2>1, <3>4 DEF Counts, FromFormat
      <4>2. Small(N, D) => Small(th[t], Card(t))'
        BY <2>1, <3>4 DEF Small
      <4> QED BY <2>3, <3>3, <3>4, <4>1, <4>2
    <3>5. ASSUME paper' = paper, N.calls = L.calls
          PROVE  C = Card(t)'
      BY <2>1, <3>5, <3>c, <3>l DEF Mine
    <3>6. CASE Quiet(t, th[t], N)
      <4>1. paper' = paper /\ N.calls = L.calls /\ N.format = L.format /\ muddled \subseteq muddled'
        BY <3>6, <3>l DEF Quiet, Fails, Ends, Starts, Computes, Kept
      <4>2. /\ Counts(N, C) /\ FromFormat(N)
            /\ (Small(L, C) /\ (t \in muddled' => ~ HasChar(N))) => Small(N, C)
        BY <3>1, <3>6, <3>l, QuietCounts
      <4>3. (t \in muddled' => ~ HasChar(N)) => Small(L, C)
        BY <3>1, <3>2, <4>1 DEF HasChar
      <4> QED BY <3>4, <3>5, <4>1, <4>2, <4>3
    <3>7. CASE \E f \in Formats : CallMove(t, N, f)
      <4>1. PICK f \in Formats : CallMove(t, N, f)
        BY <3>7
      <4>2. /\ paper' = paper /\ N.calls = L.calls + 1 /\ N.format = f /\ N.todo = f /\ N.written = 0
            /\ N.pc = "format" /\ L.calls \in Nat
        BY <3>1, <3>l, <4>1 DEF CallMove, Called, ThreadOK
      <4>3. Mine(t, th[t].calls)' = {}
        <5>1. \A i \in DOMAIN paper : paper[i].thread = t => paper[i].call <= L.calls
          BY <1>0, <3>l DEF InTurn, OnPaper
        <5>2. th'[t].calls = L.calls + 1
          BY <2>1, <4>2
        <5>3. \A i \in DOMAIN paper : paper[i].thread = t => paper[i].call # L.calls + 1
          <6>0. \A i \in DOMAIN paper : paper[i] \in Entries
            BY <1>0
          <6>1. \A i \in DOMAIN paper : paper[i].call \in Nat
            BY <6>0 DEF Entries
          <6> QED BY <4>2, <5>1, <6>1
        <5> QED BY <4>2, <5>2, <5>3 DEF Mine
      <4>4. Card(t)' = 0
        BY <4>3, FS_EmptySet
      <4>5. int(0) = 0
        <5>1. 0 \in Ints
          BY Constants DEF Ints
        <5> QED BY <5>1, IntFacts
      <4>6. Counts(N, 0) /\ FromFormat(N) /\ Small(N, 0)
        BY <4>2, <4>5, Constants DEF Counts, FromFormat, Small
      <4> QED BY <3>4, <4>4, <4>6
    <3>8. CASE BeginMove(t, N)
      <4>1. /\ paper' = paper /\ N.calls = L.calls /\ N.format = L.format /\ muddled' = muddled
            /\ L.pc = "print" /\ N.pc = "putchar" /\ N.written = L.written /\ N.text = L.text
            /\ N.todo = L.todo /\ N.then = L.then /\ N.str = L.str
        BY <3>8, <3>l DEF BeginMove, SameCall, Kept
      <4>2. Counts(N, C) /\ FromFormat(N) /\ (Small(L, C) => Small(N, C))
        BY <3>1, <4>1 DEF Counts, FromFormat, Small
      <4>3. (t \in muddled' => ~ HasChar(N)) => Small(L, C)
        BY <3>1, <3>2, <4>1 DEF HasChar
      <4> QED BY <3>4, <3>5, <4>1, <4>2, <4>3
    <3>9. CASE EndMove(t, N)
      <4>1. /\ paper' = paper /\ N.calls = L.calls /\ N.format = L.format /\ muddled' = muddled
            /\ L.pc = "putchar" /\ N.pc = L.then /\ N.written = L.written
            /\ N.todo = L.todo /\ N.str = L.str /\ L.then \in {"format", "str"}
        BY <3>1, <3>9, <3>l DEF EndMove, SameCall, Kept, ThreadOK
      <4>2. Counts(N, C) /\ FromFormat(N) /\ (Small(L, C) => Small(N, C))
        BY <3>1, <4>1, ZenonT(30) DEF Counts, FromFormat, Small
      <4>3. (t \in muddled' => ~ HasChar(N)) => Small(L, C)
        BY <3>1, <3>2, <4>1 DEF HasChar
      <4> QED BY <3>4, <3>5, <4>1, <4>2, <4>3
    <3>10. CASE \E e : PutMove(t, N, e)
      <4>1. PICK e : PutMove(t, N, e)
        BY <3>10
      <4>2. /\ N.calls = L.calls /\ N.format = L.format /\ muddled' = muddled
            /\ L.pc = "putchar" /\ N.pc = "putchar" /\ N.written = int(L.written + 1)
            /\ L.text # <<>> /\ N.text = Tail(L.text) /\ N.todo = L.todo /\ N.str = L.str
            /\ N.then = L.then /\ e \in Entries /\ e.thread = t /\ e.call = L.calls
            /\ paper' = Append(paper, e)
        BY <3>l, <4>1 DEF PutMove, SameCall, Kept
      <4>3. Card(t)' = C + 1
        <5>1. PICK n \in Nat : n = Len(paper)
          BY <1>0
        <5>2. /\ DOMAIN paper = 1 .. n /\ DOMAIN paper' = 1 .. n + 1 /\ paper'[n + 1] = e
              /\ \A i \in 1 .. n : paper'[i] = paper[i]
          BY <1>0, <4>2, <5>1, AppendProperties
        <5>3. th'[t].calls = L.calls
          BY <2>1, <4>2
        <5>4. Mine(t, th[t].calls)' = Mine(t, th[t].calls) \union {n + 1}
          BY <3>l, <4>2, <5>2, <5>3 DEF Mine
        <5>5. n + 1 \notin Mine(t, th[t].calls)
          BY <5>2 DEF Mine
        <5>6. IsFiniteSet(Mine(t, th[t].calls))
          BY <1>0, MineFinite
        <5> QED BY <3>c, <5>4, <5>5, <5>6, FS_AddElement
      <4>4. Counts(N, C + 1)
        <5>1. L.written = int(C)
          BY <3>1, <4>2 DEF Counts
        <5>2. N.written = int(C + 1)
          BY <3>1, <4>2, <5>1, IntFacts
        <5> QED BY <4>2, <5>2 DEF Counts
      <4>5. FromFormat(N)
        BY <3>1, <4>2 DEF FromFormat
      <4>6. Small(L, C) => Small(N, C + 1)
        <5>1. L.text \in Seq(Chars)
          BY <3>1 DEF ThreadOK
        <5>2. Len(N.text) \in Nat /\ Len(L.text) \in Nat /\ Len(N.text) = Len(L.text) - 1
          BY <4>2, <5>1, HeadTailProperties
        <5>3. SUFFICES ASSUME Small(L, C) PROVE Small(N, C + 1)
          OBVIOUS
        <5>4. C + Len(L.text) <= INT_MAX /\ (L.then = "str" => L.str = <<>>)
          BY <4>2, <5>3 DEF Small
        <5>5. C + 1 <= INT_MAX /\ (C + 1) + Len(N.text) <= INT_MAX
          <6>1. PICK a, b : a = Len(L.text) /\ b = Len(N.text)
            OBVIOUS
          <6>2. a \in Nat /\ b \in Nat /\ b = a - 1 /\ C + a <= INT_MAX /\ C \in Nat
            BY <3>1, <5>2, <5>4, <6>1
          <6>3. C + 1 <= INT_MAX /\ (C + 1) + b <= INT_MAX
            BY <6>2, Constants
          <6> QED BY <6>1, <6>3
        <5>6. N.pc = "putchar" /\ N.then = L.then /\ N.str = L.str
          BY <4>2
        <5> QED BY <5>4, <5>5, <5>6 DEF Small
      <4>7. (t \in muddled' => ~ HasChar(N)) => Small(L, C)
        BY <3>1, <3>2, <4>2 DEF HasChar
      <4> QED BY <3>4, <4>3, <4>4, <4>5, <4>6, <4>7
    <3> QED BY <1>3, <3>6, <3>7, <3>8, <3>9, <3>10 DEF Moves
  <2> QED BY <2>2, <2>3
<1> QED BY <1>0, <1>2, <1>3, NextStepped DEF Stepped, Swap, printing

\* At the start
LEMMA LengthsInit == ASSUME Init PROVE Lengths
<1>1. paper = <<>> /\ \A t \in Threads : th[t] = Idle
  BY DEF Init
<1>2. InTurn
  BY <1>1, ShapedInit DEF InTurn, TextsWhole, OnPaper
<1>3. \A t \in Threads : Mine(t, th[t].calls) = {}
  BY <1>1 DEF Mine
<1>4. Cardinality({}) = 0
  BY FS_EmptySet
<1>5. Counts(Idle, 0) /\ FromFormat(Idle) /\ Small(Idle, 0)
  BY IdleThread, Constants DEF Counts, FromFormat, Small
<1> QED BY <1>1, <1>2, <1>3, <1>4, <1>5 DEF Lengths

\* printf returns how many characters it wrote, in whatever order the threads'
\* texts and conversions come.
THEOREM LengthReturned == Spec => []ReturnsLength
<1>1. Init => Lengths
  BY LengthsInit
<1>2. Lengths /\ [Next]_vars => Lengths'
  BY LengthsNext
<1>3. Lengths => ReturnsLength
  <2>1. SUFFICES ASSUME Lengths PROVE ReturnsLength
    OBVIOUS
  <2>2. TypeOK
    BY <2>1 DEF Lengths, InTurn, Shaped, TypeOK, WellFormed, ThreadOK
  <2> QED BY <2>1, <2>2 DEF Lengths, ReturnsLength, Counts, Small, At
<1> QED BY <1>1, <1>2, <1>3, PTL DEF Spec

----------------------------------------------------------------------------
(* The screen and the paper                                                *)

\* The rows after another character
Grown(rows, c) ==
    LET row  == IF c = "nl" THEN Last(rows) ELSE Append(Last(rows), c)
        next == IF c = "nl" \/ Len(row) = Cols THEN << <<>> >> ELSE <<>>
    IN  Front(rows) \o <<row>> \o next

\* The row of the paper above the first of the screen
Top(rows) == IF Len(rows) > Rows THEN Len(rows) - Rows ELSE 0

\* ... by their number
LEMMA TopIs ==
  ASSUME NEW rows, NEW l \in Nat, Len(rows) = l
  PROVE  Top(rows) = IF l > Rows THEN l - Rows ELSE 0
BY DEF Top

\* What the buffer has to have in row r, column x, line y of the font
Cell(rows, r, x, y) ==
    IF Top(rows) + r + 1 <= Len(rows) /\ r < Rows /\ x < Len(rows[Top(rows) + r + 1])
       THEN <<rows[Top(rows) + r + 1][x + 1], y>> ELSE Blank

\* Buffer B has the end of the rows, whose last has room for a character ...
Shows(B, rows) ==
    /\ DOMAIN B = Lines /\ \A y \in Lines : DOMAIN B[y] = 0 .. Cols - 1
    /\ \A y \in Lines : \A x \in 0 .. Cols - 1 : B[y][x] = Cell(rows, y \div FontHeight, x, y % FontHeight)

\* ... at column X of row Y.
Behind(X, Y, rows) ==
    /\ rows \in Seq(Seq(Chars)) /\ rows # <<>> /\ Len(rows[Len(rows)]) < Cols
    /\ Y = Len(rows) - Top(rows) - 1 /\ X = Len(rows[Len(rows)])

\* The lines of a row of characters
LEMMA LineRows ==
  ASSUME NEW y \in Lines
  PROVE  y \in Nat /\ y \div FontHeight \in Nat
<1>1. y \in Nat /\ FontHeight \in Nat \ {0}
  BY Constants DEF Lines
<1>2. PICK q, r : q = y \div FontHeight /\ r = y % FontHeight
  OBVIOUS
<1>3. q \in Int /\ r \in 0 .. FontHeight - 1 /\ y = FontHeight * q + r
  BY <1>1, <1>2, Divided
<1>4. ~ (q <= -1)
  <2>1. SUFFICES ASSUME q <= -1 PROVE FALSE
    OBVIOUS
  <2>2. FontHeight * q <= FontHeight * (-1)
    BY <1>1, <1>3, <2>1
  <2> QED BY <1>1, <1>3, <2>2
<1> QED BY <1>1, <1>2, <1>3, <1>4

\* The last lines, which rolling blanks, are of the last row of characters or below it.
LEMMA LastLines ==
  ASSUME NEW y \in Lines, y >= Yres - FontHeight
  PROVE  y \div FontHeight >= Rows - 1
<1>1. y \in Nat /\ FontHeight \in Nat \ {0} /\ Yres \in Nat
  BY Constants DEF Lines
<1>2. PICK q, r : q = y \div FontHeight /\ r = y % FontHeight
  OBVIOUS
<1>3. q \in Int /\ r \in 0 .. FontHeight - 1 /\ y = FontHeight * q + r
  BY <1>1, <1>2, Divided
<1>4. Rows \in Nat \ {0} /\ FontHeight * Rows <= Yres
  BY RowsType
<1>5. ~ (q + 1 <= Rows - 1)
  <2>1. SUFFICES ASSUME q + 1 <= Rows - 1 PROVE FALSE
    OBVIOUS
  <2>2. FontHeight * (q + 1) <= FontHeight * (Rows - 1)
    BY <1>1, <1>3, <1>4, <2>1
  <2>3. FontHeight * (q + 1) = FontHeight * q + FontHeight /\ FontHeight * (Rows - 1) = FontHeight * Rows - FontHeight
    BY <1>1, <1>3, <1>4
  <2> QED BY <1>1, <1>3, <1>4, <2>2, <2>3
<1> QED BY <1>2, <1>3, <1>4, <1>5

\* The rows after a character: the last one has it, and is followed by an empty one
\* when it ends.
LEMMA GrownIs ==
  ASSUME NEW rows \in Seq(Seq(Chars)), rows # <<>>, NEW c \in Chars,
         NEW row, row = IF c = "nl" THEN rows[Len(rows)] ELSE Append(rows[Len(rows)], c)
  PROVE  /\ row \in Seq(Chars)
         /\ c = "nl" \/ Len(row) = Cols => Grown(rows, c) = Append([rows EXCEPT ![Len(rows)] = row], <<>>)
         /\ ~ (c = "nl" \/ Len(row) = Cols) => Grown(rows, c) = [rows EXCEPT ![Len(rows)] = row]
<1>1. PICK n \in Nat : n = Len(rows)
  OBVIOUS
<1>2. n >= 1 /\ DOMAIN rows = 1 .. n /\ rows[n] \in Seq(Chars)
  BY <1>1
<1>3. row \in Seq(Chars)
  BY <1>1, <1>2
<1>f. PICK F : F = Front(rows)
  OBVIOUS
<1>4. F \in Seq(Seq(Chars)) /\ Len(F) = n - 1 /\ \A i \in 1 .. n - 1 : F[i] = rows[i]
  BY <1>1, <1>2, <1>f, SubSeqProperties DEF Front
<1>g. PICK G : G = F \o <<row>>
  OBVIOUS
<1>5. <<row>> \in Seq(Seq(Chars)) /\ Len(<<row>>) = 1 /\ <<row>>[1] = row
  BY <1>3
<1>6. G \in Seq(Seq(Chars)) /\ Len(G) = n /\ (\A i \in 1 .. n - 1 : G[i] = rows[i]) /\ G[n] = row
  <2>u. PICK U : U = <<row>>
    OBVIOUS
  <2>1. U \in Seq(Seq(Chars)) /\ Len(U) = 1 /\ U[1] = row
    BY <1>5, <2>u
  <2>2. /\ G \in Seq(Seq(Chars)) /\ Len(G) = Len(F) + Len(U)
        /\ \A i \in 1 .. Len(F) + Len(U) : G[i] = IF i <= Len(F) THEN F[i] ELSE U[i - Len(F)]
    BY <1>4, <1>g, <2>u, <2>1, ConcatProperties, SMTT(30)
  <2>3. Len(G) = n /\ \A i \in 1 .. n : G[i] = IF i <= n - 1 THEN F[i] ELSE U[i - (n - 1)]
    BY <1>2, <1>4, <2>1, <2>2
  <2>4. G[n] = row
    <3>1. ~ (n <= n - 1) /\ n - (n - 1) = 1 /\ n \in 1 .. n
      BY <1>1, <1>2
    <3> QED BY <2>1, <2>3, <3>1
  <2>5. \A i \in 1 .. n - 1 : G[i] = rows[i]
    <3>1. \A i \in 1 .. n - 1 : i \in 1 .. n /\ i <= n - 1
      BY <1>1
    <3> QED BY <1>4, <2>3, <3>1
  <2> QED BY <2>2, <2>3, <2>4, <2>5
<1>r. PICK R : R = [rows EXCEPT ![n] = row]
  OBVIOUS
<1>7. R \in Seq(Seq(Chars)) /\ Len(R) = n /\ \A i \in 1 .. n : R[i] = IF i = n THEN row ELSE rows[i]
  BY <1>1, <1>2, <1>3, <1>r
<1>8. G = R
  <2>1. \A i \in 1 .. n : G[i] = R[i]
    <3>1. SUFFICES ASSUME NEW i \in 1 .. n PROVE G[i] = R[i]
      OBVIOUS
    <3>2. CASE i = n
      BY <1>2, <1>6, <1>7, <3>2
    <3>3. CASE i # n
      BY <1>2, <1>6, <1>7, <3>3
    <3> QED BY <3>2, <3>3
  <2> QED BY <1>6, <1>7, <2>1, SeqEqual
<1>9. Grown(rows, c) = G \o (IF c = "nl" \/ Len(row) = Cols THEN << <<>> >> ELSE <<>>)
  BY <1>1, <1>f, <1>g DEF Grown, Last
<1>10. G \o <<>> = G
  BY <1>6, ConcatEmptySeq
<1>11. G \o << <<>> >> = Append(G, <<>>)
  BY <1>6, AppendIsConcat
<1> QED BY <1>1, <1>3, <1>r, <1>8, <1>9, <1>10, <1>11

\* Buffer D is B with a character drawn at column X of row Y.
Draws(D, B, X, Y, c) ==
    /\ DOMAIN D = Lines
    /\ \A y \in Lines :
          D[y] = IF y \div FontHeight = Y THEN [B[y] EXCEPT ![X] = <<c, y % FontHeight>>] ELSE B[y]

\* The last row has a character more.
Longer(R, rows, c) == R = [rows EXCEPT ![Len(rows)] = Append(rows[Len(rows)], c)]

\* A character at the cursor is the end of the last row.
LEMMA DrawnShows ==
  ASSUME NEW B, NEW X, NEW Y, NEW rows, NEW c \in Chars, Shows(B, rows), Behind(X, Y, rows),
         NEW D, Draws(D, B, X, Y, c), NEW R, Longer(R, rows, c)
  PROVE  Shows(D, R)
<1>1. PICK n \in Nat : n = Len(rows)
  BY DEF Behind
<1>l. PICK row : row = rows[n]
  OBVIOUS
<1>2. n >= 1 /\ DOMAIN rows = 1 .. n /\ row \in Seq(Chars) /\ Len(row) = X /\ X \in 0 .. Cols - 1
  BY <1>1, <1>l, Constants DEF Behind
<1>3. R \in Seq(Seq(Chars)) /\ Len(R) = n /\ R[n] = Append(row, c) /\ \A i \in 1 .. n : i # n => R[i] = rows[i]
  BY <1>1, <1>2, <1>l DEF Behind, Longer
<1>4. Len(R[n]) = X + 1 /\ R[n][X + 1] = c /\ \A i \in 1 .. X : R[n][i] = row[i]
  BY <1>2, <1>3, AppendProperties
<1>t. PICK T : T = Top(rows)
  OBVIOUS
<1>5. T \in Nat /\ T = Top(R) /\ T < n /\ Y = n - T - 1
  BY <1>1, <1>2, <1>3, <1>t, RowsType DEF Top, Behind
<1>6. DOMAIN D = Lines /\ \A y \in Lines : DOMAIN D[y] = 0 .. Cols - 1
  BY DEF Shows, Draws
<1>7. ASSUME NEW y \in Lines, NEW x \in 0 .. Cols - 1
      PROVE  D[y][x] = Cell(R, y \div FontHeight, x, y % FontHeight)
  <2>r. PICK r \in Nat : r = y \div FontHeight
    BY LineRows
  <2>m. PICK m : m = y % FontHeight
    OBVIOUS
  <2>1. B[y][x] = Cell(rows, r, x, m) /\ DOMAIN B[y] = 0 .. Cols - 1
    BY <2>r, <2>m DEF Shows
  <2>2. CASE r # Y
    <3>1. D[y][x] = B[y][x]
      BY <2>2, <2>r DEF Draws
    <3>2. T + r + 1 # n
      BY <1>5, <2>2, <1>1, SMTT(30)
    <3>3. T + r + 1 <= n => R[T + r + 1] = rows[T + r + 1]
      <4>1. PICK i : i = T + r + 1
        OBVIOUS
      <4>2. i \in Nat /\ i >= 1 /\ i # n
        BY <1>5, <3>2, <4>1
      <4>3. i <= n => R[i] = rows[i]
        BY <1>3, <4>2
      <4> QED BY <4>1, <4>3
    <3>4. Cell(R, r, x, m) = Cell(rows, r, x, m)
      BY <1>1, <1>3, <1>5, <1>t, <3>3 DEF Cell
    <3> QED BY <2>1, <2>m, <2>r, <3>1, <3>4
  <2>3. CASE r = Y
    <3>1. T + r + 1 = n /\ r < Rows
      <4>1. Rows \in Nat \ {0}
        BY RowsType
      <4> QED BY <1>1, <1>5, <1>t, <2>3, <4>1 DEF Top
    <3>2. D[y] = [B[y] EXCEPT ![X] = <<c, m>>]
      BY <2>3, <2>r, <2>m DEF Draws
    <3>3. Cell(R, r, x, m) = IF x < X + 1 THEN <<R[n][x + 1], m>> ELSE Blank
      <4>1. Top(R) + r + 1 = n
        BY <1>5, <3>1
      <4>2. Cell(R, r, x, m) = IF n <= Len(R) /\ r < Rows /\ x < Len(R[n]) THEN <<R[n][x + 1], m>> ELSE Blank
        BY <4>1, Zenon DEF Cell
      <4>3. n <= Len(R)
        BY <1>1, <1>3
      <4> QED BY <1>4, <3>1, <4>2, <4>3
    <3>4. Cell(rows, r, x, m) = IF x < X THEN <<row[x + 1], m>> ELSE Blank
      <4>1. Top(rows) + r + 1 = n
        BY <1>t, <3>1
      <4> QED BY <1>1, <1>2, <1>l, <3>1, <4>1 DEF Cell
    <3>5. CASE x = X
      <4>1. D[y][x] = <<c, m>>
        BY <1>2, <2>1, <3>2, <3>5
      <4>2. x < X + 1 /\ R[n][x + 1] = c
        BY <1>2, <1>4, <3>5
      <4> QED BY <2>m, <2>r, <3>3, <4>1, <4>2
    <3>6. CASE x # X
      <4>1. D[y][x] = B[y][x]
        BY <1>2, <2>1, <3>2, <3>6
      <4>2. x < X + 1 <=> x < X
        BY <1>2, <3>6
      <4>3. x < X => R[n][x + 1] = row[x + 1]
        BY <1>2, <1>4
      <4> QED BY <2>1, <2>m, <2>r, <3>3, <3>4, <4>1, <4>2, <4>3
    <3> QED BY <3>5, <3>6
  <2> QED BY <2>2, <2>3
<1> QED BY <1>6, <1>7 DEF Shows

\* A new row below the last fits the screen ...
LEMMA NewlineFits ==
  ASSUME NEW B, NEW Y, NEW rows \in Seq(Seq(Chars)), rows # <<>>, Y = Len(rows) - Top(rows) - 1, Shows(B, rows),
         Y + 1 # Rows
  PROVE  Shows(B, Append(rows, <<>>)) /\ Y + 1 = Len(rows) + 1 - Top(Append(rows, <<>>)) - 1
<1>1. PICK n \in Nat : n = Len(rows)
  OBVIOUS
<1>r. PICK R : R = Append(rows, <<>>)
  OBVIOUS
<1>2. Len(R) = n + 1 /\ R[n + 1] = <<>> /\ \A i \in 1 .. n : R[i] = rows[i]
  BY <1>1, <1>r, AppendProperties
<1>3. Rows \in Nat \ {0}
  BY RowsType
<1>4. n < Rows /\ Top(rows) = 0 /\ Top(R) = 0 /\ Y = n - 1
  <2>1. Top(rows) = (IF n > Rows THEN n - Rows ELSE 0) /\ Top(R) = (IF n + 1 > Rows THEN n + 1 - Rows ELSE 0)
    <3>1. Len(rows) = n /\ Len(R) = n + 1 /\ n + 1 \in Nat
      BY <1>1, <1>2
    <3>2. Top(rows) = IF n > Rows THEN n - Rows ELSE 0
      BY <3>1, TopIs
    <3>3. PICK m \in Nat : m = n + 1
      BY <3>1
    <3>4. Top(R) = IF m > Rows THEN m - Rows ELSE 0
      BY <3>1, <3>3, TopIs
    <3>5. Top(R) = IF n + 1 > Rows THEN n + 1 - Rows ELSE 0
      BY <1>3, <3>3, <3>4
    <3> QED BY <3>2, <3>5, Zenon
  <2>2. Y = n - Top(rows) - 1 /\ Y + 1 # Rows
    BY <1>1
  <2>3. ~ (n > Rows)
    <3>1. SUFFICES ASSUME n > Rows PROVE FALSE
      OBVIOUS
    <3>2. Top(rows) = n - Rows
      BY <2>1, <3>1
    <3>3. n - (n - Rows) - 1 = Rows - 1 /\ (Rows - 1) + 1 = Rows
      BY <1>3
    <3> QED BY <2>2, <3>2, <3>3
  <2>4. Top(rows) = 0 /\ Y = n - 1 /\ n < Rows
    BY <1>3, <2>1, <2>2, <2>3
  <2>5. ~ (n + 1 > Rows)
    BY <1>3, <2>4
  <2> QED BY <2>1, <2>4, <2>5
<1>5. ASSUME NEW y \in Lines, NEW x \in 0 .. Cols - 1
      PROVE  B[y][x] = Cell(R, y \div FontHeight, x, y % FontHeight)
  <2>r. PICK r \in Nat : r = y \div FontHeight
    BY LineRows
  <2>m. PICK m : m = y % FontHeight
    OBVIOUS
  <2>1. B[y][x] = Cell(rows, r, x, m)
    BY <2>r, <2>m DEF Shows
  <2>2. Cell(R, r, x, m) = IF r + 1 <= n + 1 /\ r < Rows /\ x < Len(R[r + 1]) THEN <<R[r + 1][x + 1], m>> ELSE Blank
    BY <1>2, <1>4 DEF Cell
  <2>3. Cell(rows, r, x, m) = IF r + 1 <= n /\ r < Rows /\ x < Len(rows[r + 1]) THEN <<rows[r + 1][x + 1], m>> ELSE Blank
    BY <1>1, <1>4 DEF Cell
  <2>4. CASE r + 1 <= n
    <3>1. R[r + 1] = rows[r + 1]
      BY <1>2, <2>4
    <3> QED BY <1>1, <2>1, <2>2, <2>3, <2>4, <2>m, <2>r, <3>1, SMTT(30)
  <2>5. CASE r + 1 = n + 1
    <3>1. ~ (x < Len(R[r + 1]))
      BY <1>2, <2>5
    <3>2. ~ (r + 1 <= n)
      BY <1>1, <2>5
    <3> QED BY <2>1, <2>2, <2>3, <2>m, <2>r, <3>1, <3>2
  <2>6. CASE ~ (r + 1 <= n + 1)
    <3>2. ~ (r + 1 <= n)
      BY <1>1, <2>6
    <3> QED BY <2>1, <2>2, <2>3, <2>6, <2>m, <2>r, <3>2
  <2> QED BY <1>1, <2>4, <2>5, <2>6
<1> QED BY <1>1, <1>2, <1>4, <1>5, <1>r DEF Shows

\* ... or rolls it: the row that leaves the screen is the first.
LEMMA NewlineRolls ==
  ASSUME NEW B, NEW Y, NEW rows \in Seq(Seq(Chars)), rows # <<>>, Y = Len(rows) - Top(rows) - 1, Shows(B, rows),
         Y + 1 = Rows
  PROVE  Shows(rolled(B), Append(rows, <<>>)) /\ Y = Len(rows) + 1 - Top(Append(rows, <<>>)) - 1
<1>1. PICK n \in Nat : n = Len(rows)
  OBVIOUS
<1>r. PICK R : R = Append(rows, <<>>)
  OBVIOUS
<1>2. Len(R) = n + 1 /\ R[n + 1] = <<>> /\ \A i \in 1 .. n : R[i] = rows[i]
  BY <1>1, <1>r, AppendProperties
<1>3. Rows \in Nat \ {0}
  BY RowsType
<1>t. PICK T : T = Top(rows)
  OBVIOUS
<1>4. T \in Nat /\ n = T + Rows /\ Top(R) = T + 1 /\ Y = Rows - 1
  <2>1. Top(rows) = (IF n > Rows THEN n - Rows ELSE 0) /\ Top(R) = (IF n + 1 > Rows THEN n + 1 - Rows ELSE 0)
    <3>1. Len(rows) = n /\ Len(R) = n + 1 /\ n + 1 \in Nat
      BY <1>1, <1>2
    <3>2. Top(rows) = IF n > Rows THEN n - Rows ELSE 0
      BY <3>1, TopIs
    <3>3. PICK m \in Nat : m = n + 1
      BY <3>1
    <3>4. Top(R) = IF m > Rows THEN m - Rows ELSE 0
      BY <3>1, <3>3, TopIs
    <3>5. Top(R) = IF n + 1 > Rows THEN n + 1 - Rows ELSE 0
      BY <1>3, <3>3, <3>4
    <3> QED BY <3>2, <3>5, Zenon
  <2>2. Y = n - T - 1 /\ Y + 1 = Rows /\ T = IF n > Rows THEN n - Rows ELSE 0
    BY <1>1, <1>t, <2>1
  <2>3. T \in Nat /\ n = T + Rows /\ Y = Rows - 1
    BY <1>3, <2>2
  <2>4. n + 1 > Rows /\ n + 1 - Rows = T + 1
    BY <1>3, <2>3
  <2> QED BY <2>1, <2>3, <2>4
<1>c. FontHeight \in Nat \ {0} /\ Yres \in Nat
  BY Constants
<1>d. PICK D : D = rolled(B)
  OBVIOUS
<1>e. DOMAIN D = Lines /\ \A y \in Lines : D[y] = IF y < Yres - FontHeight THEN B[y + FontHeight] ELSE Clear[y]
  BY <1>d DEF rolled
<1>f. \A y \in Lines : y < Yres - FontHeight => y + FontHeight \in Lines
  BY <1>c DEF Lines
<1>5. \A y \in Lines : DOMAIN D[y] = 0 .. Cols - 1
  BY <1>e, <1>f DEF Shows, Clear
<1>6. ASSUME NEW y \in Lines, NEW x \in 0 .. Cols - 1
      PROVE  D[y][x] = Cell(R, y \div FontHeight, x, y % FontHeight)
  <2>r. PICK r \in Nat : r = y \div FontHeight
    BY LineRows
  <2>m. PICK m : m = y % FontHeight
    OBVIOUS
  <2>2. Cell(R, r, x, m) = IF r < Rows /\ x < Len(R[T + r + 2]) THEN <<R[T + r + 2][x + 1], m>> ELSE Blank
    <3>1. (T + 1) + r + 1 = T + r + 2 /\ (T + r + 2 <= n + 1 <=> r < Rows)
      BY <1>3, <1>4
    <3> QED BY <1>2, <1>4, <3>1 DEF Cell
  <2>3. CASE y < Yres - FontHeight
    <3>1. PICK z : z = y + FontHeight
      OBVIOUS
    <3>2. z \div FontHeight = r + 1 /\ z % FontHeight = m
      <4>1. y \in Int
        BY LineRows
      <4>2. (y + FontHeight) \div FontHeight = (y \div FontHeight) + 1 /\ (y + FontHeight) % FontHeight = y % FontHeight
        BY <1>c, <4>1, Further
      <4> QED BY <2>r, <2>m, <3>1, <4>2
    <3>3. D[y][x] = Cell(rows, r + 1, x, m)
      BY <1>e, <1>f, <2>3, <3>1, <3>2 DEF Shows
    <3>4. Cell(rows, r + 1, x, m) =
            IF r + 1 < Rows /\ x < Len(rows[T + r + 2]) THEN <<rows[T + r + 2][x + 1], m>> ELSE Blank
      <4>1. T + (r + 1) + 1 = T + r + 2 /\ (T + r + 2 <= n <=> r + 1 < Rows)
        BY <1>3, <1>4
      <4> QED BY <1>1, <1>t, <4>1 DEF Cell
    <3>5. CASE r + 1 < Rows
      <4>1. r < Rows /\ R[T + r + 2] = rows[T + r + 2]
        BY <1>2, <1>3, <1>4, <3>5
      <4> QED BY <2>2, <2>m, <2>r, <3>3, <3>4, <3>5, <4>1
    <3>6. CASE ~ (r + 1 < Rows)
      <4>1. ~ (r < Rows /\ x < Len(R[T + r + 2]))
        <5>1. r < Rows => T + r + 2 = n + 1
          BY <1>3, <1>4, <3>6
        <5> QED BY <1>2, <5>1
      <4> QED BY <2>2, <2>m, <2>r, <3>3, <3>4, <3>6, <4>1
    <3> QED BY <3>5, <3>6
  <2>4. CASE ~ (y < Yres - FontHeight)
    <3>1. r >= Rows - 1
      BY <1>c, <2>4, <2>r, LineRows, LastLines
    <3>2. ~ (r < Rows /\ x < Len(R[T + r + 2]))
      <4>1. r < Rows => T + r + 2 = n + 1
        BY <1>3, <1>4, <3>1
      <4> QED BY <1>2, <4>1
    <3>3. D[y][x] = Blank
      BY <1>e, <2>4 DEF Clear
    <3> QED BY <2>2, <2>m, <2>r, <3>2, <3>3
  <2> QED BY <2>3, <2>4
<1>7. Y = n + 1 - Top(R) - 1
  BY <1>1, <1>3, <1>4
<1> QED BY <1>1, <1>d, <1>e, <1>5, <1>6, <1>7, <1>r DEF Shows

\* main_terminal_putchar writes the character on the screen as on the paper.
LEMMA PutcharShows ==
  ASSUME NEW rows, NEW c \in Chars, Shows(vbe_buffer, rows), Behind(charX, charY, rows), main_terminal_putchar(c)
  PROVE  Shows(vbe_buffer, Grown(rows, c))' /\ Behind(charX, charY, Grown(rows, c))'
<1>1. PICK n \in Nat : n = Len(rows)
  BY DEF Behind
<1>l. PICK row : row = IF c = "nl" THEN rows[Len(rows)] ELSE Append(rows[Len(rows)], c)
  OBVIOUS
<1>2. rows \in Seq(Seq(Chars)) /\ rows # <<>> /\ Len(rows[n]) < Cols /\ charX = Len(rows[n]) /\ n >= 1
  BY <1>1 DEF Behind
<1>m. PICK M : M = [rows EXCEPT ![Len(rows)] = row]
  OBVIOUS
<1>3. /\ row \in Seq(Chars)
      /\ (c = "nl" \/ Len(row) = Cols) => Grown(rows, c) = Append(M, <<>>)
      /\ ~ (c = "nl" \/ Len(row) = Cols) => Grown(rows, c) = M
  BY <1>2, <1>l, <1>m, GrownIs, ZenonT(30)
<1>4. M \in Seq(Seq(Chars)) /\ Len(M) = n /\ M[n] = row /\ M # <<>>
  BY <1>1, <1>2, <1>3, <1>m
<1>5. Top(M) = Top(rows) /\ charY = Len(M) - Top(M) - 1
  BY <1>1, <1>4 DEF Top, Behind
<1>6. ASSUME NEW B, Shows(B, M), newline(B)
      PROVE  Shows(vbe_buffer', Append(M, <<>>)) /\ Behind(charX', charY', Append(M, <<>>))
  <2>r. PICK R : R = Append(M, <<>>)
    OBVIOUS
  <2>1. R \in Seq(Seq(Chars)) /\ Len(R) = n + 1 /\ R[n + 1] = <<>> /\ R # <<>>
    <3>1. <<>> \in Seq(Chars)
      OBVIOUS
    <3> QED BY <1>4, <2>r, <3>1, AppendProperties, ZenonT(30)
  <2>2. charX' = 0
    BY <1>6 DEF newline
  <2>5. Len(R[Len(R)]) < Cols /\ charX' = Len(R[Len(R)])
    <3>1. R[Len(R)] = <<>>
      BY <2>1
    <3>2. Len(<<>>) = 0
      OBVIOUS
    <3> QED BY <2>2, <3>1, <3>2, Constants
  <2>3. CASE charY + 1 = Rows
    <3>1. vbe_buffer' = rolled(B) /\ charY' = Rows - 1
      BY <1>6, <2>3 DEF newline
    <3>2. Shows(rolled(B), R) /\ charY = Len(M) + 1 - Top(R) - 1
      BY <1>4, <1>5, <1>6, <2>3, <2>r, NewlineRolls
    <3>3. charY = Rows - 1
      <4>1. charY \in Int
        BY <1>1, <1>5, <1>4, RowsType DEF Top
      <4> QED BY <2>3, <4>1, RowsType
    <3>4. charY' = Len(R) - Top(R) - 1
      <4>1. charY' = Len(M) + 1 - Top(R) - 1
        BY <3>1, <3>2, <3>3
      <4>2. Top(R) \in Nat
        BY <2>1, RowsType DEF Top
      <4> QED BY <1>4, <2>1, <4>1, <4>2
    <3> QED BY <2>1, <2>5, <2>r, <3>1, <3>2, <3>4 DEF Behind
  <2>4. CASE charY + 1 # Rows
    <3>1. vbe_buffer' = B /\ charY' = charY + 1
      BY <1>6, <2>4 DEF newline
    <3>2. Shows(B, R) /\ charY + 1 = Len(M) + 1 - Top(R) - 1
      BY <1>4, <1>5, <1>6, <2>4, <2>r, NewlineFits
    <3>4. charY' = Len(R) - Top(R) - 1
      <4>1. charY' = Len(M) + 1 - Top(R) - 1
        BY <3>1, <3>2
      <4>2. Top(R) \in Nat
        BY <2>1, RowsType DEF Top
      <4> QED BY <1>4, <2>1, <4>1, <4>2
    <3> QED BY <2>1, <2>5, <2>r, <3>1, <3>2, <3>4 DEF Behind
  <2> QED BY <2>3, <2>4
<1>7. ASSUME Shows(vbe_buffer', Grown(rows, c)), Behind(charX', charY', Grown(rows, c))
      PROVE  Shows(vbe_buffer, Grown(rows, c))' /\ Behind(charX, charY, Grown(rows, c))'
  BY <1>7 DEF Shows, Behind
<1>8. CASE c = "nl"
  <2>1. M = rows
    BY <1>1, <1>2, <1>8, <1>l, <1>m
  <2>2. newline(vbe_buffer)
    BY <1>8 DEF main_terminal_putchar
  <2> QED BY <1>3, <1>6, <1>7, <1>8, <2>1, <2>2
<1>9. CASE c # "nl"
  <2>1. row = Append(rows[n], c) /\ Len(row) = charX + 1 /\ charX \in Nat
    BY <1>1, <1>2, <1>9, <1>l, AppendProperties
  <2>2. Shows(drawn(c), M)
    <3>1. PICK D : D = drawn(c)
      OBVIOUS
    <3>2. D = [y \in Lines |-> IF y \div FontHeight = charY
                               THEN [vbe_buffer[y] EXCEPT ![charX] = <<c, y % FontHeight>>] ELSE vbe_buffer[y]]
      BY <3>1, Zenon DEF drawn
    <3>3. Longer(M, rows, c)
      BY <1>9, <1>l, <1>m DEF Longer
    <3>5. PICK B, X, Y : B = vbe_buffer /\ X = charX /\ Y = charY
      OBVIOUS
    <3>6. Draws(D, B, X, Y, c)
      BY <3>2, <3>5, Zenon DEF Draws
    <3>7. Shows(B, rows) /\ Behind(X, Y, rows)
      BY <3>5, Zenon
    <3>4. Shows(D, M)
      BY <3>3, <3>6, <3>7, DrawnShows
    <3> QED BY <3>1, <3>4
  <2>3. CASE charX + 1 = Cols
    <3>1. newline(drawn(c))
      BY <1>9, <2>3 DEF main_terminal_putchar
    <3> QED BY <1>3, <1>6, <1>7, <2>1, <2>2, <2>3, <3>1
  <2>4. CASE charX + 1 # Cols
    <3>1. vbe_buffer' = drawn(c) /\ charX' = charX + 1 /\ charY' = charY
      BY <1>9, <2>4 DEF main_terminal_putchar
    <3>2. Len(M[Len(M)]) < Cols /\ charX' = Len(M[Len(M)])
      BY <1>2, <1>4, <2>1, <2>4, <3>1, Constants
    <3>3. Behind(charX', charY', M)
      BY <1>4, <1>5, <3>1, <3>2 DEF Behind
    <3> QED BY <1>3, <1>7, <1>9, <2>1, <2>2, <2>4, <3>1, <3>3
  <2> QED BY <2>3, <2>4
<1> QED BY <1>8, <1>9

\* The rows of the paper after each of its first n characters
Grows(f, n) ==
    /\ f = [k \in 0 .. n |-> IF k = 0 THEN << <<>> >> ELSE Grown(f[k - 1], paper[k].char)]

\* Only one function has them: PaperRows is its last value.
LEMMA PaperRowsIs ==
  ASSUME paper \in Seq(Entries), NEW f, Grows(f, Len(paper))
  PROVE  PaperRows = f[Len(paper)]
<1>n. PICK n \in Nat : n = Len(paper)
  OBVIOUS
<1> DEFINE E(h) == h = [k \in 0 .. n |-> IF k = 0 THEN << <<>> >> ELSE Grown(h[k - 1], paper[k].char)]
<1>1. E(f)
  BY <1>n DEF Grows
<1>2. PICK g : g = CHOOSE h : E(h)
  OBVIOUS
<1>3. E(g)
  BY <1>1, <1>2
<1>4. PaperRows = g[Len(paper)]
  BY <1>2, <1>n DEF PaperRows, Grown
<1>d. PICK Bad : Bad = {k \in 0 .. n : g[k] # f[k]}
  OBVIOUS
<1>5. Bad = {}
  <2>1. SUFFICES ASSUME Bad # {} PROVE FALSE
    OBVIOUS
  <2>2. Bad \subseteq Nat
    BY <1>d
  <2>3. PICK k \in Bad : \A j \in Bad : ~ (j < k)
    BY <2>1, <2>2, Least
  <2>4. k \in 0 .. n /\ g[k] # f[k]
    BY <1>d
  <2>5. CASE k = 0
    BY <1>1, <1>3, <2>4, <2>5
  <2>6. CASE k # 0
    <3>1. k - 1 \in 0 .. n /\ k - 1 < k
      BY <2>4, <2>6, <1>n
    <3>2. g[k - 1] = f[k - 1]
      BY <1>d, <2>3, <3>1
    <3>3. f[k] = Grown(f[k - 1], paper[k].char)
      BY <1>1, <2>4, <2>6
    <3>4. g[k] = Grown(g[k - 1], paper[k].char)
      BY <1>3, <2>4, <2>6
    <3> QED BY <2>4, <3>2, <3>3, <3>4
  <2> QED BY <2>5, <2>6
<1> QED BY <1>4, <1>5, <1>d, <1>n

\* The invariant: the rows of the paper, however many, end on the screen.
Windowed ==
    /\ Shaped
    /\ \E f : /\ Grows(f, Len(paper))
              /\ Shows(vbe_buffer, f[Len(paper)]) /\ Behind(charX, charY, f[Len(paper)])

\* At first both are empty.
LEMMA WindowedInit == ASSUME Init PROVE Windowed
<1>1. Shaped /\ paper = <<>> /\ vbe_buffer = Clear /\ charX = 0 /\ charY = 0
  BY ShapedInit DEF Init
<1>f. PICK f : f = [k \in 0 .. 0 |-> << <<>> >>]
  OBVIOUS
<1>r. PICK R : R = << <<>> >>
  OBVIOUS
<1>2. Len(paper) = 0 /\ f[0] = R
  BY <1>1, <1>f, <1>r
<1>3. Grows(f, 0)
  <2>1. \A k \in 0 .. 0 : k = 0
    OBVIOUS
  <2>2. [k \in 0 .. 0 |-> << <<>> >>] = [k \in 0 .. 0 |-> IF k = 0 THEN << <<>> >> ELSE Grown(f[k - 1], paper[k].char)]
    BY <2>1
  <2> QED BY <1>f, <2>2 DEF Grows
<1>4. R \in Seq(Seq(Chars)) /\ R # <<>> /\ Len(R) = 1 /\ R[1] = <<>> /\ Len(R[1]) = 0
  BY <1>r
<1>5. Top(R) = 0
  BY <1>4, RowsType DEF Top
<1>6. Behind(0, 0, R)
  BY <1>4, <1>5, Constants DEF Behind
<1>7. Shows(Clear, R)
  <2>1. DOMAIN Clear = Lines /\ \A y \in Lines : DOMAIN Clear[y] = 0 .. Cols - 1
    BY DEF Clear
  <2>2. ASSUME NEW y \in Lines, NEW x \in 0 .. Cols - 1
        PROVE  Clear[y][x] = Cell(R, y \div FontHeight, x, y % FontHeight)
    <3>1. Clear[y][x] = Blank
      BY DEF Clear
    <3>2. PICK q, m : q = y \div FontHeight /\ m = y % FontHeight
      OBVIOUS
    <3>3. q \in Nat
      BY <3>2, LineRows
    <3>4. ~ (Top(R) + q + 1 <= Len(R) /\ q < Rows /\ x < Len(R[Top(R) + q + 1]))
      <4>1. SUFFICES ASSUME Top(R) + q + 1 <= Len(R), x < Len(R[Top(R) + q + 1]) PROVE FALSE
        OBVIOUS
      <4>2. Top(R) + q + 1 = 1
        BY <1>4, <1>5, <3>3, <4>1
      <4>3. x < 0
        BY <1>4, <4>1, <4>2
      <4> QED BY <4>3
    <3>5. Cell(R, q, x, m) = Blank
      BY <3>4, Zenon DEF Cell
    <3> QED BY <3>1, <3>2, <3>5
  <2> QED BY <2>1, <2>2 DEF Shows
<1> QED BY <1>1, <1>2, <1>3, <1>6, <1>7 DEF Windowed

\* Each step keeps them alike.
LEMMA WindowedNext ==
  ASSUME Windowed, [Next]_vars
  PROVE  Windowed'
<1>1. Shaped /\ Shaped'
  BY ShapedNext DEF Windowed
<1>2. PICK f : Grows(f, Len(paper)) /\ Shows(vbe_buffer, f[Len(paper)]) /\ Behind(charX, charY, f[Len(paper)])
  BY DEF Windowed
<1>p. paper \in Seq(Entries)
  BY <1>1 DEF Shaped
<1>n. PICK n \in Nat : n = Len(paper)
  BY <1>p
<1>3. CASE UNCHANGED <<term, paper>>
  <2>1. /\ Grows(f, Len(paper))' /\ Shows(vbe_buffer, f[Len(paper)])' /\ Behind(charX, charY, f[Len(paper)])'
    BY <1>2, <1>3 DEF Grows, Shows, Behind, term
  <2> QED BY <1>1, <2>1 DEF Windowed
<1>4. ASSUME NEW e \in Entries, paper' = Append(paper, e), main_terminal_putchar(e.char)
      PROVE  Windowed'
  <2>1. Len(paper') = n + 1 /\ paper'[n + 1] = e /\ \A i \in 1 .. n : paper'[i] = paper[i]
    BY <1>4, <1>n, <1>p, AppendProperties
  <2>c. PICK c \in Chars : c = e.char
    BY DEF Entries
  <2>2. DOMAIN f = 0 .. n /\ \A k \in 0 .. n : f[k] = IF k = 0 THEN << <<>> >> ELSE Grown(f[k - 1], paper[k].char)
    BY <1>2, <1>n, Zenon DEF Grows
  <2>g. PICK g : g = [k \in 0 .. n + 1 |-> IF k = n + 1 THEN Grown(f[n], c) ELSE f[k]]
    OBVIOUS
  <2>3. DOMAIN g = 0 .. n + 1 /\ g[n + 1] = Grown(f[n], c) /\ \A k \in 0 .. n : g[k] = f[k]
    BY <1>n, <2>g
  <2>4. ASSUME NEW k \in 0 .. n + 1
        PROVE  g[k] = IF k = 0 THEN << <<>> >> ELSE Grown(g[k - 1], paper'[k].char)
    <3>1. CASE k = n + 1
      <4>1. k # 0 /\ k - 1 = n /\ n \in 0 .. n
        BY <1>n, <3>1
      <4>2. g[k - 1] = f[n]
        BY <2>3, <4>1
      <4> QED BY <2>1, <2>3, <2>c, <3>1, <4>1, <4>2
    <3>2. CASE k # n + 1
      <4>1. k \in 0 .. n /\ (k # 0 => k - 1 \in 0 .. n /\ k \in 1 .. n)
        BY <1>n, <3>2
      <4>2. g[k] = f[k] /\ (k # 0 => g[k - 1] = f[k - 1] /\ paper'[k] = paper[k])
        BY <2>1, <2>3, <4>1
      <4> QED BY <2>2, <4>1, <4>2
    <3> QED BY <3>1, <3>2
  <2>5. g = [k \in 0 .. n + 1 |-> IF k = 0 THEN << <<>> >> ELSE Grown(g[k - 1], paper'[k].char)]
    BY <2>4, <2>g
  <2>6. Grows(g, Len(paper))'
    BY <2>1, <2>5 DEF Grows
  <2>7. Shows(vbe_buffer, f[n]) /\ Behind(charX, charY, f[n])
    BY <1>2, <1>n
  <2>r. PICK R : R = f[n]
    OBVIOUS
  <2>8. Shows(vbe_buffer, Grown(R, c))' /\ Behind(charX, charY, Grown(R, c))'
    BY <1>4, <2>7, <2>c, <2>r, PutcharShows
  <2>9. Shows(vbe_buffer, g[Len(paper)])' /\ Behind(charX, charY, g[Len(paper)])'
    BY <2>1, <2>3, <2>8, <2>r DEF Shows, Behind
  <2> QED BY <1>1, <2>6, <2>9 DEF Windowed
<1>5. ASSUME NEW t \in Threads, NEW N, Moves(t, N)
      PROVE  Windowed'
  BY <1>3, <1>4, <1>5 DEF Moves, Quiet, CallMove, BeginMove, EndMove, PutMove
<1> QED BY <1>1, <1>3, <1>5, NextStepped DEF Stepped, Swap, printing, term

\* The buffer has the end of all that was ever written, line by line of
\* pixels, however the threads take turns and for every size of the screen, of
\* the font and of the row.
THEOREM ScreenShowsTail == Spec => []ScreenIsTail
<1>1. Init => Windowed
  BY WindowedInit
<1>2. Windowed /\ [Next]_vars => Windowed'
  BY WindowedNext
<1>3. Windowed => ScreenIsTail
  <2>1. SUFFICES ASSUME Windowed PROVE ScreenIsTail
    OBVIOUS
  <2>2. PICK f : Grows(f, Len(paper)) /\ Shows(vbe_buffer, f[Len(paper)]) /\ Behind(charX, charY, f[Len(paper)])
    BY <2>1 DEF Windowed
  <2>3. paper \in Seq(Entries)
    BY <2>1 DEF Windowed, Shaped
  <2>r. PICK R : R = PaperRows
    OBVIOUS
  <2>4. Shows(vbe_buffer, R) /\ Behind(charX, charY, R)
    BY <2>2, <2>3, <2>r, PaperRowsIs
  <2>5. /\ \A y \in Lines : \A x \in 0 .. Cols - 1 : vbe_buffer[y][x] = Cell(R, y \div FontHeight, x, y % FontHeight)
        /\ charY = Len(R) - Top(R) - 1 /\ charX = Len(Last(R))
    BY <2>4 DEF Shows, Behind, Last
  <2> QED BY <2>5, <2>r, Zenon DEF ScreenIsTail, Cell, Top
<1> QED BY <1>1, <1>2, <1>3, PTL DEF Spec

----------------------------------------------------------------------------
(* Numbers and their digits                                                *)

\* Induction over a set up to n
LEMMA UpTo ==
  ASSUME NEW S, NEW n \in Nat, 0 \in S, \A k \in 0 .. n - 1 : k \in S => k + 1 \in S
  PROVE  \A k \in 0 .. n : k \in S
<1>b. PICK Bad : Bad = {k \in 0 .. n : k \notin S}
  OBVIOUS
<1>1. SUFFICES ASSUME Bad # {} PROVE FALSE
  BY <1>b
<1>2. Bad \subseteq Nat
  BY <1>b
<1>3. PICK k \in Bad : \A j \in Bad : ~ (j < k)
  BY <1>1, <1>2, Least
<1>4. k \in 0 .. n /\ k \notin S
  BY <1>b
<1>5. k # 0
  BY <1>4
<1>6. k - 1 \in 0 .. n - 1 /\ k - 1 \in 0 .. n /\ k - 1 < k /\ (k - 1) + 1 = k
  BY <1>4, <1>5
<1>7. k - 1 \in S
  BY <1>3, <1>6, <1>b
<1> QED BY <1>4, <1>6, <1>7

\* The values of the beginnings of a sequence of digits
Chained(v, s, b) ==
    /\ v \in [0 .. Len(s) -> Nat] /\ v[0] = 0
    /\ \A i \in 1 .. Len(s) : v[i] = b * v[i - 1] + s[i]

\* There are such values ...
LEMMA ChainExists ==
  ASSUME NEW b \in Nat, NEW s \in Seq(Nat)
  PROVE  \E v : Chained(v, s, b)
<1>n. PICK n \in Nat : n = Len(s)
  OBVIOUS
<1>t. \A i \in 1 .. n : s[i] \in Nat
  BY <1>n
<1> DEFINE Has(k) == \E v : v \in [0 .. k -> Nat] /\ v[0] = 0 /\ \A i \in 1 .. k : v[i] = b * v[i - 1] + s[i]
<1>s. PICK S : S = {k \in 0 .. n : Has(k)}
  OBVIOUS
<1>1. 0 \in S
  <2>1. PICK v : v = [i \in 0 .. 0 |-> 0]
    OBVIOUS
  <2>2. v \in [0 .. 0 -> Nat] /\ v[0] = 0 /\ \A i \in 1 .. 0 : v[i] = b * v[i - 1] + s[i]
    BY <2>1
  <2> QED BY <1>s, <2>2
<1>2. ASSUME NEW k \in 0 .. n - 1, k \in S
      PROVE  k + 1 \in S
  <2>1. PICK v : v \in [0 .. k -> Nat] /\ v[0] = 0 /\ \A i \in 1 .. k : v[i] = b * v[i - 1] + s[i]
    BY <1>2, <1>s
  <2>x. PICK x : x = b * v[k] + s[k + 1]
    OBVIOUS
  <2>2. x \in Nat
    <3>1. v[k] \in Nat /\ s[k + 1] \in Nat
      BY <1>t, <1>n, <2>1
    <3> QED BY <2>x, <3>1
  <2>w. PICK w : w = [i \in 0 .. k + 1 |-> IF i = k + 1 THEN x ELSE v[i]]
    OBVIOUS
  <2>3. w[k + 1] = x /\ \A i \in 0 .. k : w[i] = v[i]
    BY <2>w, <1>n
  <2>4. w \in [0 .. k + 1 -> Nat] /\ w[0] = 0
    BY <2>1, <2>2, <2>3, <2>w, <1>n
  <2>5. ASSUME NEW i \in 1 .. k + 1
        PROVE  w[i] = b * w[i - 1] + s[i]
    <3>1. CASE i = k + 1
      <4>1. w[i - 1] = v[k]
        BY <1>n, <2>3, <3>1
      <4> QED BY <2>3, <2>x, <3>1, <4>1
    <3>2. CASE i # k + 1
      <4>1. i \in 1 .. k /\ i \in 0 .. k /\ i - 1 \in 0 .. k
        BY <1>n, <3>2
      <4> QED BY <2>1, <2>3, <4>1
    <3> QED BY <3>1, <3>2
  <2>6. Has(k + 1)
    BY <2>4, <2>5
  <2>7. k + 1 \in 0 .. n
    BY <1>n
  <2> QED BY <1>s, <2>6, <2>7
<1>3. n \in S
  <2>1. \A k \in 0 .. n : k \in S
    BY <1>1, <1>2, UpTo
  <2> QED BY <1>n, <2>1
<1> QED BY <1>3, <1>n, <1>s DEF Chained

\* ... and only these: Value is the last.
LEMMA ValueIs ==
  ASSUME NEW b \in Nat, NEW s \in Seq(Nat), NEW v, Chained(v, s, b)
  PROVE  Value(s, b) = v[Len(s)]
<1>n. PICK n \in Nat : n = Len(s)
  OBVIOUS
<1> DEFINE E(h) == h = [i \in 0 .. n |-> IF i = 0 THEN 0 ELSE b * h[i - 1] + s[i]]
<1>0. v \in [0 .. n -> Nat] /\ v[0] = 0 /\ \A i \in 1 .. n : v[i] = b * v[i - 1] + s[i]
  BY <1>n DEF Chained
<1>1. E(v)
  <2>1. ASSUME NEW i \in 0 .. n
        PROVE  v[i] = IF i = 0 THEN 0 ELSE b * v[i - 1] + s[i]
    BY <1>0
  <2> QED BY <1>0, <2>1
<1>2. PICK g : g = CHOOSE h : E(h)
  OBVIOUS
<1>3. E(g)
  BY <1>1, <1>2
<1>4. Value(s, b) = g[Len(s)]
  BY <1>2, <1>n DEF Value
<1>s. PICK S : S = {k \in 0 .. n : g[k] = v[k]}
  OBVIOUS
<1>5. \A k \in 0 .. n : g[k] = IF k = 0 THEN 0 ELSE b * g[k - 1] + s[k]
  BY <1>3, Zenon
<1>6. 0 \in S
  BY <1>0, <1>5, <1>n, <1>s
<1>7. ASSUME NEW k \in 0 .. n - 1, k \in S
      PROVE  k + 1 \in S
  <2>1. k + 1 \in 0 .. n /\ k + 1 \in 1 .. n /\ k + 1 # 0 /\ (k + 1) - 1 = k
    BY <1>n
  <2>2. g[k + 1] = b * g[k] + s[k + 1]
    BY <1>5, <2>1
  <2>3. v[k + 1] = b * v[k] + s[k + 1]
    BY <1>0, <2>1
  <2> QED BY <1>7, <1>s, <2>1, <2>2, <2>3
<1>8. n \in S
  <2>1. \A k \in 0 .. n : k \in S
    BY <1>6, <1>7, UpTo
  <2> QED BY <1>n, <2>1
<1> QED BY <1>4, <1>8, <1>n, <1>s

\* A chain without a leading zero grows.
LEMMA ChainGrows ==
  ASSUME NEW b \in Nat, b >= 2, NEW s \in Seq(Nat), NEW v, Chained(v, s, b), Len(s) >= 1, s[1] # 0
  PROVE  \A i \in 0 .. Len(s) : v[i] >= i
<1>n. PICK n \in Nat : n = Len(s)
  OBVIOUS
<1>0. /\ \A i \in 0 .. n : v[i] \in Nat
      /\ v[0] = 0 /\ (\A i \in 1 .. n : v[i] = b * v[i - 1] + s[i])
      /\ (\A i \in 1 .. n : s[i] \in Nat) /\ n >= 1
  <2>1. v \in [0 .. n -> Nat] /\ v[0] = 0 /\ \A i \in 1 .. n : v[i] = b * v[i - 1] + s[i]
    BY <1>n DEF Chained
  <2>2. \A i \in 1 .. n : s[i] \in Nat
    BY <1>n
  <2> QED BY <1>n, <2>1, <2>2
<1>s. PICK S : S = {i \in 0 .. n : v[i] >= i}
  OBVIOUS
<1>1. 0 \in S
  BY <1>0, <1>n, <1>s
<1>2. ASSUME NEW k \in 0 .. n - 1, k \in S
      PROVE  k + 1 \in S
  <2>1. k + 1 \in 1 .. n /\ k + 1 \in 0 .. n /\ (k + 1) - 1 = k /\ k \in 0 .. n
    BY <1>n
  <2>2. v[k + 1] = b * v[k] + s[k + 1] /\ v[k] \in Nat /\ s[k + 1] \in Nat /\ v[k] >= k
    BY <1>0, <1>2, <1>s, <2>1
  <2>3. PICK x, y, z : x = v[k] /\ y = s[k + 1] /\ z = v[k + 1]
    OBVIOUS
  <2>4. x \in Nat /\ y \in Nat /\ x >= k /\ z = b * x + y
    BY <2>2, <2>3
  <2>5. b * x >= 2 * x
    BY <2>4
  <2>6. CASE k = 0
    <3>1. y >= 1
      BY <2>3, <2>4, <2>6
    <3>2. z >= k + 1
      BY <2>4, <2>5, <2>6, <3>1
    <3> QED BY <1>s, <2>1, <2>3, <3>2
  <2>7. CASE k # 0
    <3>1. z >= k + 1
      BY <2>4, <2>5, <2>7
    <3> QED BY <1>s, <2>1, <2>3, <3>1
  <2> QED BY <2>6, <2>7
<1>3. \A i \in 0 .. n : i \in S
  BY <1>1, <1>2, UpTo
<1> QED BY <1>3, <1>n, <1>s

\* The last digit is the remainder.
LEMMA LastDigit ==
  ASSUME NEW b \in Nat \ {0}, NEW x \in Nat, NEW y \in Nat, NEW p \in 0 .. b - 1, NEW q \in 0 .. b - 1,
         b * x + p = b * y + q
  PROVE  x = y /\ p = q
<1>z. PICK z : z = b * x + p
  OBVIOUS
<1>1. z \in Int /\ z = b * x + p /\ z = b * y + q
  BY <1>z
<1>2. z % b = p /\ z \div b = x
  BY <1>1, Quotient
<1>3. z % b = q /\ z \div b = y
  BY <1>1, Quotient
<1> QED BY <1>2, <1>3

\* s is the numeral of n in base b: at least one digit, the value n, and no
\* leading zero.
IsNumeral(s, n, b) ==
    /\ s \in Seq(0 .. b - 1) /\ s # <<>> /\ (Len(s) > 1 => s[1] # 0)
    /\ \E v : Chained(v, s, b) /\ v[Len(s)] = n

\* A numeral is no longer than another of the same number ...
LEMMA NumeralsAsLong ==
  ASSUME NEW b \in Nat, b >= 2, NEW n, NEW s, NEW t, IsNumeral(s, n, b), IsNumeral(t, n, b)
  PROVE  ~ (Len(s) < Len(t))
<1>1. SUFFICES ASSUME Len(s) < Len(t) PROVE FALSE
  OBVIOUS
<1>k. PICK k, m : k = Len(s) /\ m = Len(t)
  OBVIOUS
<1>2. /\ k \in Nat /\ m \in Nat /\ k >= 1 /\ m > k
      /\ (\A i \in 1 .. k : s[i] \in 0 .. b - 1) /\ (\A i \in 1 .. m : t[i] \in 0 .. b - 1)
  BY <1>1, <1>k, SMTT(30) DEF IsNumeral
<1>v. PICK v : Chained(v, s, b) /\ v[Len(s)] = n
  BY DEF IsNumeral
<1>w. PICK w : Chained(w, t, b) /\ w[Len(t)] = n
  BY DEF IsNumeral
<1>3. /\ (\A i \in 0 .. k : v[i] \in Nat) /\ v[0] = 0 /\ (\A i \in 1 .. k : v[i] = b * v[i - 1] + s[i]) /\ v[k] = n
      /\ (\A i \in 0 .. m : w[i] \in Nat) /\ (\A i \in 1 .. m : w[i] = b * w[i - 1] + t[i]) /\ w[m] = n
  BY <1>k, <1>v, <1>w DEF Chained
<1>s. PICK S : S = {j \in 0 .. k : v[k - j] = w[m - j]}
  OBVIOUS
<1>4. 0 \in S
  BY <1>2, <1>3, <1>s
<1>5. ASSUME NEW j \in 0 .. k - 1, j \in S
      PROVE  j + 1 \in S
  <2>1. PICK a, c : a = k - j /\ c = m - j
    OBVIOUS
  <2>2. /\ a \in 1 .. k /\ c \in 1 .. m /\ a - 1 \in 0 .. k /\ c - 1 \in 0 .. m
        /\ j + 1 \in 0 .. k /\ k - (j + 1) = a - 1 /\ m - (j + 1) = c - 1
    BY <1>2, <2>1
  <2>3. v[a] = w[c]
    BY <1>5, <1>s, <2>1
  <2>4. b * v[a - 1] + s[a] = b * w[c - 1] + t[c]
    BY <1>3, <2>2, <2>3
  <2>5. v[a - 1] \in Nat /\ w[c - 1] \in Nat /\ s[a] \in 0 .. b - 1 /\ t[c] \in 0 .. b - 1
    BY <1>2, <1>3, <2>2
  <2>6. b \in Nat \ {0}
    OBVIOUS
  <2>7. v[a - 1] = w[c - 1]
    BY <2>4, <2>5, <2>6, LastDigit
  <2> QED BY <1>s, <2>2, <2>7
<1>6. v[0] = w[m - k]
  <2>1. \A j \in 0 .. k : j \in S
    BY <1>2, <1>4, <1>5, UpTo
  <2>2. k \in S /\ k - k = 0
    BY <1>2, <2>1
  <2> QED BY <1>s, <2>2
<1>7. w[m - k] >= m - k
  <2>1. t \in Seq(Nat) /\ Len(t) >= 1 /\ t[1] # 0
    BY <1>2, <1>k DEF IsNumeral
  <2>2. \A i \in 0 .. Len(t) : w[i] >= i
    BY <1>w, <2>1, ChainGrows
  <2>3. m - k \in 0 .. m
    BY <1>2
  <2> QED BY <1>k, <2>2, <2>3
<1>8. PICK d : d = m - k
  OBVIOUS
<1>9. d \in Nat /\ d >= 1 /\ w[d] = 0 /\ w[d] >= d
  BY <1>2, <1>3, <1>6, <1>7, <1>8
<1> QED BY <1>9

\* ... and has the same digits.
LEMMA NumeralUnique ==
  ASSUME NEW b \in Nat, b >= 2, NEW n, NEW s, NEW t, IsNumeral(s, n, b), IsNumeral(t, n, b)
  PROVE  s = t
<1>k. PICK k, m : k = Len(s) /\ m = Len(t)
  OBVIOUS
<1>1. k \in Nat /\ m \in Nat /\ s \in Seq(0 .. b - 1) /\ t \in Seq(0 .. b - 1)
  BY <1>k DEF IsNumeral
<1>2. k = m
  <2>1. ~ (k < m) /\ ~ (m < k)
    BY <1>k, NumeralsAsLong
  <2> QED BY <1>1, <2>1
<1>v. PICK v : Chained(v, s, b) /\ v[Len(s)] = n
  BY DEF IsNumeral
<1>w. PICK w : Chained(w, t, b) /\ w[Len(t)] = n
  BY DEF IsNumeral
<1>3. /\ (\A i \in 0 .. k : v[i] \in Nat) /\ (\A i \in 1 .. k : v[i] = b * v[i - 1] + s[i]) /\ v[k] = n
      /\ (\A i \in 0 .. k : w[i] \in Nat) /\ (\A i \in 1 .. k : w[i] = b * w[i - 1] + t[i]) /\ w[k] = n
  BY <1>2, <1>k, <1>v, <1>w DEF Chained
<1>d. \A i \in 1 .. k : s[i] \in 0 .. b - 1 /\ t[i] \in 0 .. b - 1
  <2>1. \A i \in 1 .. Len(s) : s[i] \in 0 .. b - 1
    BY <1>1
  <2>2. \A i \in 1 .. Len(t) : t[i] \in 0 .. b - 1
    BY <1>1
  <2> QED BY <1>2, <1>k, <2>1, <2>2
<1>b. b \in Nat \ {0}
  OBVIOUS
<1>4. ASSUME NEW a \in 1 .. k, v[a] = w[a]
      PROVE  v[a - 1] = w[a - 1] /\ s[a] = t[a]
  <2>1. a - 1 \in 0 .. k
    BY <1>1
  <2>2. b * v[a - 1] + s[a] = b * w[a - 1] + t[a]
    BY <1>3, <1>4
  <2>3. v[a - 1] \in Nat /\ w[a - 1] \in Nat
    BY <1>3, <2>1
  <2>4. s[a] \in 0 .. b - 1 /\ t[a] \in 0 .. b - 1
    BY <1>d
  <2>5. PICK x, y, p, q : x = v[a - 1] /\ y = w[a - 1] /\ p = s[a] /\ q = t[a]
    OBVIOUS
  <2>e. x \in Nat /\ y \in Nat /\ p \in 0 .. b - 1 /\ q \in 0 .. b - 1 /\ b * x + p = b * y + q
    BY <2>2, <2>3, <2>4, <2>5, Zenon
  <2>6. x = y /\ p = q
    BY <1>b, <2>e, LastDigit
  <2> QED BY <2>5, <2>6
<1>s. PICK S : S = {j \in 0 .. k : v[k - j] = w[k - j]}
  OBVIOUS
<1>5. 0 \in S
  BY <1>1, <1>3, <1>s
<1>6. ASSUME NEW j \in 0 .. k - 1, j \in S
      PROVE  j + 1 \in S
  <2>1. PICK a : a = k - j
    OBVIOUS
  <2>2. a \in 1 .. k /\ j + 1 \in 0 .. k /\ k - (j + 1) = a - 1
    BY <1>1, <2>1
  <2>3. v[a] = w[a]
    BY <1>6, <1>s, <2>1
  <2>4. v[a - 1] = w[a - 1]
    BY <1>4, <2>2, <2>3
  <2> QED BY <1>s, <2>2, <2>4
<1>7. \A j \in 0 .. k : j \in S
  BY <1>1, <1>5, <1>6, UpTo
<1>8. ASSUME NEW i \in 1 .. k
      PROVE  s[i] = t[i]
  <2>1. k - i \in 0 .. k /\ k - (k - i) = i
    BY <1>1
  <2>2. v[i] = w[i]
    BY <1>7, <1>s, <2>1
  <2> QED BY <1>4, <2>2
<1> QED BY <1>1, <1>2, <1>8, <1>k, SeqEqual

\* The digits Numeral looks for are the numeral.
LEMMA NumeralIs ==
  ASSUME NEW b \in Nat, b >= 2, NEW n \in Nat, NEW s, IsNumeral(s, n, b)
  PROVE  Numeral(n, b) = s
<1> DEFINE Long(k) == {t \in [1 .. k -> 0 .. b - 1] : Value(t, b) = n /\ (k > 1 => t[1] # 0)}
<1>k. PICK k : k = Len(s)
  OBVIOUS
<1>1. k \in Nat /\ k >= 1 /\ s \in Seq(0 .. b - 1) /\ s \in [1 .. k -> 0 .. b - 1] /\ s \in Seq(Nat)
  BY <1>k DEF IsNumeral
<1>v. PICK v : Chained(v, s, b) /\ v[Len(s)] = n
  BY DEF IsNumeral
<1>2. s \in Long(k)
  <2>1. Value(s, b) = n
    BY <1>1, <1>v, ValueIs
  <2> QED BY <1>1, <1>k, <2>1 DEF IsNumeral
<1>3. k \in 1 .. n + 1
  <2>1. CASE k = 1
    BY <2>1
  <2>2. CASE k # 1
    <3>1. Len(s) >= 1 /\ s[1] # 0
      BY <1>1, <1>k, <2>2 DEF IsNumeral
    <3>2. \A i \in 0 .. Len(s) : v[i] >= i
      BY <1>1, <1>v, <3>1, ChainGrows
    <3>3. n >= k
      BY <1>1, <1>k, <1>v, <3>2
    <3> QED BY <1>1, <3>3
  <2> QED BY <2>1, <2>2
<1>j. PICK j : j = CHOOSE i \in 1 .. n + 1 : Long(i) # {}
  OBVIOUS
<1>4. j \in 1 .. n + 1 /\ Long(j) # {}
  <2>1. Long(k) # {}
    BY <1>2
  <2> HIDE DEF Long
  <2> QED BY <1>3, <1>j, <2>1
<1>t. PICK t : t = CHOOSE x \in Long(j) : TRUE
  OBVIOUS
<1>5. t \in Long(j)
  <2> HIDE DEF Long
  <2> QED BY <1>4, <1>t
<1>6. Numeral(n, b) = t
  BY <1>j, <1>t DEF Numeral
<1>7. t \in [1 .. j -> 0 .. b - 1] /\ Value(t, b) = n /\ (j > 1 => t[1] # 0)
  BY <1>5
<1>8. t \in Seq(0 .. b - 1) /\ t \in Seq(Nat) /\ Len(t) = j /\ t # <<>>
  BY <1>4, <1>7
<1>9. PICK w : Chained(w, t, b)
  BY <1>8, ChainExists
<1>10. w[Len(t)] = n
  BY <1>7, <1>8, <1>9, ValueIs
<1>11. IsNumeral(t, n, b)
  BY <1>7, <1>8, <1>9, <1>10 DEF IsNumeral
<1> QED BY <1>6, <1>11, NumeralUnique

\* One digit ...
LEMMA NumeralOne ==
  ASSUME NEW b \in Nat, b >= 2, NEW n \in 0 .. b - 1
  PROVE  IsNumeral(<<n>>, n, b)
<1>s. PICK s : s = <<n>>
  OBVIOUS
<1>1. s \in Seq(0 .. b - 1) /\ Len(s) = 1 /\ s[1] = n /\ s # <<>>
  BY <1>s
<1>v. PICK v : v = [i \in 0 .. 1 |-> IF i = 0 THEN 0 ELSE n]
  OBVIOUS
<1>2. v \in [0 .. 1 -> Nat] /\ v[0] = 0 /\ v[1] = n
  BY <1>v
<1>3. \A i \in 1 .. 1 : v[i] = b * v[i - 1] + s[i]
  <2>1. v[1] = b * v[0] + s[1]
    BY <1>1, <1>2
  <2> QED BY <2>1
<1>4. Chained(v, s, b) /\ v[Len(s)] = n
  BY <1>1, <1>2, <1>3 DEF Chained
<1> QED BY <1>1, <1>4, <1>s DEF IsNumeral

\* ... and one more
LEMMA NumeralMore ==
  ASSUME NEW b \in Nat, b >= 2, NEW n \in Nat, n >= b, NEW s, IsNumeral(s, n \div b, b)
  PROVE  IsNumeral(Append(s, n % b), n, b)
<1>q. PICK q, r : q = n \div b /\ r = n % b
  OBVIOUS
<1>1. q \in Int /\ r \in 0 .. b - 1 /\ n = b * q + r
  BY <1>q, Divided
<1>2. q \in Nat /\ q >= 1
  <2>1. ~ (q <= 0)
    <3>1. SUFFICES ASSUME q <= 0 PROVE FALSE
      OBVIOUS
    <3>2. b * q <= 0
      BY <1>1, <3>1
    <3> QED BY <1>1, <3>2
  <2> QED BY <1>1, <2>1
<1>k. PICK k : k = Len(s)
  OBVIOUS
<1>3. s \in Seq(0 .. b - 1) /\ k \in Nat /\ k >= 1 /\ (k > 1 => s[1] # 0)
  BY <1>k DEF IsNumeral
<1>v. PICK v : Chained(v, s, b) /\ v[Len(s)] = q
  BY <1>q DEF IsNumeral
<1>4. v \in [0 .. k -> Nat] /\ v[0] = 0 /\ (\A i \in 1 .. k : v[i] = b * v[i - 1] + s[i]) /\ v[k] = q
  BY <1>k, <1>v DEF Chained
<1>t. PICK t : t = Append(s, r)
  OBVIOUS
<1>5. t \in Seq(0 .. b - 1) /\ Len(t) = k + 1 /\ t[k + 1] = r /\ (\A i \in 1 .. k : t[i] = s[i])
  BY <1>1, <1>3, <1>k, <1>t, AppendProperties
<1>6. t # <<>>
  <2>1. Len(<<>>) = 0
    OBVIOUS
  <2> QED BY <1>3, <1>5, <2>1
<1>7. t[1] # 0
  <2>0. t[1] = s[1]
    BY <1>3, <1>5
  <2>1. CASE k = 1
    <3>1. v[1] = b * v[0] + s[1] /\ v[1] = q /\ v[0] = 0
      BY <1>4, <2>1
    <3>2. s[1] \in 0 .. b - 1
      BY <1>3, <1>k
    <3>3. s[1] = q
      BY <3>1, <3>2
    <3> QED BY <1>2, <2>0, <3>3
  <2>2. CASE k # 1
    BY <1>3, <2>0, <2>2
  <2> QED BY <2>1, <2>2
<1>w. PICK w : w = [i \in 0 .. k + 1 |-> IF i = k + 1 THEN n ELSE v[i]]
  OBVIOUS
<1>8. w \in [0 .. k + 1 -> Nat] /\ w[k + 1] = n /\ \A i \in 0 .. k : w[i] = v[i]
  <2>1. k + 1 \in 0 .. k + 1 /\ \A i \in 0 .. k : i \in 0 .. k + 1 /\ i # k + 1
    BY <1>3
  <2>2. w[k + 1] = n /\ \A i \in 0 .. k : w[i] = v[i]
    BY <1>w, <2>1
  <2>3. \A i \in 0 .. k : v[i] \in Nat
    BY <1>4
  <2>4. \A i \in 0 .. k + 1 : i = k + 1 \/ i \in 0 .. k
    BY <1>3
  <2>5. \A i \in 0 .. k + 1 : w[i] \in Nat
    BY <2>2, <2>3, <2>4
  <2> QED BY <1>w, <2>2, <2>5
<1>9. w[0] = 0
  BY <1>3, <1>4, <1>8
<1>10. ASSUME NEW i \in 1 .. k + 1
       PROVE  w[i] = b * w[i - 1] + t[i]
  <2>1. CASE i = k + 1
    <3>1. w[i - 1] = q
      <4>1. i - 1 = k /\ k \in 0 .. k
        BY <1>3, <2>1
      <4> QED BY <1>4, <1>8, <4>1
    <3> QED BY <1>1, <1>5, <1>8, <2>1, <3>1
  <2>2. CASE i # k + 1
    <3>1. i \in 1 .. k /\ i \in 0 .. k /\ i - 1 \in 0 .. k
      BY <1>3, <2>2
    <3>2. w[i] = v[i] /\ w[i - 1] = v[i - 1] /\ t[i] = s[i]
      BY <1>5, <1>8, <3>1
    <3> QED BY <1>4, <3>1, <3>2
  <2> QED BY <2>1, <2>2
<1>11. Chained(w, t, b) /\ w[Len(t)] = n
  BY <1>5, <1>8, <1>9, <1>10 DEF Chained
<1>12. IsNumeral(t, n, b)
  BY <1>5, <1>6, <1>7, <1>11 DEF IsNumeral
<1> QED BY <1>12, <1>q, <1>t

\* The quotient is smaller.
LEMMA Smaller ==
  ASSUME NEW b \in Nat, b >= 2, NEW n \in Nat, n >= b
  PROVE  n \div b \in Nat /\ n \div b < n /\ n \div b # 0 /\ n % b \in 0 .. b - 1
<1>q. PICK q, r : q = n \div b /\ r = n % b
  OBVIOUS
<1>1. q \in Int /\ r \in 0 .. b - 1 /\ n = b * q + r
  BY <1>q, Divided
<1>2. ~ (q <= 0)
  <2>1. SUFFICES ASSUME q <= 0 PROVE FALSE
    OBVIOUS
  <2>2. b * q <= 0
    BY <1>1, <2>1
  <2> QED BY <1>1, <2>2
<1>3. b * q >= 2 * q
  BY <1>1, <1>2
<1>4. q \in Nat /\ q < n /\ q # 0
  BY <1>1, <1>2, <1>3
<1> QED BY <1>1, <1>4, <1>q

\* So every number has its numeral, which is that of its quotient and a digit.
LEMMA NumeralRule ==
  ASSUME NEW b \in Nat, b >= 2, NEW n \in Nat
  PROVE  /\ IsNumeral(Numeral(n, b), n, b)
         /\ Numeral(n, b) = IF n < b THEN <<n>> ELSE Append(Numeral(n \div b, b), n % b)
<1>1. ASSUME NEW m \in Nat, m < b
      PROVE  IsNumeral(Numeral(m, b), m, b) /\ Numeral(m, b) = <<m>>
  <2>1. m \in 0 .. b - 1
    BY <1>1
  <2>2. IsNumeral(<<m>>, m, b)
    BY <2>1, NumeralOne
  <2>3. Numeral(m, b) = <<m>>
    BY <2>2, NumeralIs
  <2> QED BY <2>2, <2>3
<1>2. ASSUME NEW m \in Nat, m >= b, IsNumeral(Numeral(m \div b, b), m \div b, b)
      PROVE  IsNumeral(Numeral(m, b), m, b) /\ Numeral(m, b) = Append(Numeral(m \div b, b), m % b)
  <2>s. PICK s : s = Append(Numeral(m \div b, b), m % b)
    OBVIOUS
  <2>2. IsNumeral(s, m, b)
    BY <1>2, <2>s, NumeralMore
  <2>3. Numeral(m, b) = s
    BY <2>2, NumeralIs
  <2> QED BY <2>2, <2>3, <2>s
<1>b. PICK Bad : Bad = {m \in Nat : ~ IsNumeral(Numeral(m, b), m, b)}
  OBVIOUS
<1>3. Bad = {}
  <2>1. SUFFICES ASSUME Bad # {} PROVE FALSE
    OBVIOUS
  <2>2. Bad \subseteq Nat
    BY <1>b
  <2>3. PICK m \in Bad : \A j \in Bad : ~ (j < m)
    BY <2>1, <2>2, Least
  <2>4. m \in Nat /\ ~ IsNumeral(Numeral(m, b), m, b)
    BY <1>b
  <2>5. m >= b
    BY <1>1, <2>4
  <2>6. PICK q : q = m \div b
    OBVIOUS
  <2>7. q \in Nat /\ q < m
    BY <2>4, <2>5, <2>6, Smaller
  <2>8. IsNumeral(Numeral(q, b), q, b)
    BY <1>b, <2>3, <2>7
  <2> QED BY <1>2, <2>4, <2>5, <2>6, <2>8
<1>4. \A m \in Nat : IsNumeral(Numeral(m, b), m, b)
  BY <1>3, <1>b
<1>5. CASE n < b
  BY <1>1, <1>5
<1>6. CASE ~ (n < b)
  <2>1. n >= b
    BY <1>6
  <2>2. PICK q : q = n \div b
    OBVIOUS
  <2>3. q \in Nat
    BY <2>1, <2>2, Smaller
  <2>4. IsNumeral(Numeral(q, b), q, b)
    BY <1>4, <2>3
  <2> QED BY <1>2, <1>6, <2>1, <2>2, <2>4
<1> QED BY <1>5, <1>6

----------------------------------------------------------------------------
(* Characters for digits                                                   *)

Glyphs(s, tab) == [i \in DOMAIN s |-> tab[s[i] + 1]]

Tables == {Digits, Upper}

\* Each digit has its character.
LEMMA GlyphsType ==
  ASSUME NEW s \in Seq(0 .. 15), NEW tab \in Tables
  PROVE  /\ Glyphs(s, tab) \in Seq(Chars) /\ Len(Glyphs(s, tab)) = Len(s)
         /\ \A i \in 1 .. Len(s) : Glyphs(s, tab)[i] = tab[s[i] + 1]
<1>n. PICK n \in Nat : n = Len(s) /\ DOMAIN s = 1 .. n
  OBVIOUS
<1>g. PICK g : g = Glyphs(s, tab)
  OBVIOUS
<1>1. g = [i \in 1 .. n |-> tab[s[i] + 1]]
  BY <1>g, <1>n DEF Glyphs
<1>2. \A i \in 1 .. n : tab[s[i] + 1] \in Chars
  <2>1. \A i \in 1 .. n : s[i] \in 0 .. 15
    BY <1>n
  <2>2. \A d \in 0 .. 15 : tab[d + 1] \in Chars
    BY DigitType DEF Tables
  <2> QED BY <2>1, <2>2
<1>3. g \in [1 .. n -> Chars] /\ \A i \in 1 .. n : g[i] = tab[s[i] + 1]
  BY <1>1, <1>2
<1>4. g \in Seq(Chars) /\ Len(g) = n
  BY <1>3
<1> QED BY <1>3, <1>4, <1>g, <1>n

\* One more in front ...
LEMMA GlyphsCons ==
  ASSUME NEW s \in Seq(0 .. 15), NEW tab \in Tables, NEW d \in 0 .. 15
  PROVE  Glyphs(<<d>> \o s, tab) = <<tab[d + 1]>> \o Glyphs(s, tab)
<1>r. PICK r, g, h : r = <<d>> \o s /\ g = Glyphs(s, tab) /\ h = Glyphs(r, tab)
  OBVIOUS
<1>c. PICK c \in Chars : c = tab[d + 1]
  BY DigitType DEF Tables
<1>n. PICK n \in Nat : n = Len(s)
  OBVIOUS
<1>1. r \in Seq(0 .. 15) /\ Len(r) = n + 1 /\ r[1] = d /\ \A i \in 2 .. n + 1 : r[i] = s[i - 1]
  BY <1>n, <1>r
<1>2. g \in Seq(Chars) /\ Len(g) = n /\ \A i \in 1 .. n : g[i] = tab[s[i] + 1]
  BY <1>n, <1>r, GlyphsType
<1>3. h \in Seq(Chars) /\ Len(h) = n + 1 /\ \A i \in 1 .. n + 1 : h[i] = tab[r[i] + 1]
  BY <1>1, <1>r, GlyphsType
<1>q. PICK q : q = <<c>> \o g
  OBVIOUS
<1>4. q \in Seq(Chars) /\ Len(q) = n + 1 /\ q[1] = c /\ \A i \in 2 .. n + 1 : q[i] = g[i - 1]
  BY <1>2, <1>q
<1>5. ASSUME NEW i \in 1 .. n + 1
      PROVE  h[i] = q[i]
  <2>1. CASE i = 1
    BY <1>1, <1>3, <1>4, <1>c, <2>1
  <2>2. CASE i # 1
    <3>1. i \in 2 .. n + 1 /\ i - 1 \in 1 .. n
      BY <2>2
    <3>2. r[i] = s[i - 1] /\ q[i] = g[i - 1] /\ g[i - 1] = tab[s[i - 1] + 1] /\ h[i] = tab[r[i] + 1]
      BY <1>1, <1>2, <1>3, <1>4, <3>1
    <3> QED BY <3>2
  <2> QED BY <2>1, <2>2
<1>6. h = q
  BY <1>3, <1>4, <1>5, SeqEqual
<1> QED BY <1>6, <1>c, <1>q, <1>r

\* ... or behind
LEMMA GlyphsAppend ==
  ASSUME NEW s \in Seq(0 .. 15), NEW tab \in Tables, NEW d \in 0 .. 15
  PROVE  Glyphs(Append(s, d), tab) = Append(Glyphs(s, tab), tab[d + 1])
<1>r. PICK r, g, h : r = Append(s, d) /\ g = Glyphs(s, tab) /\ h = Glyphs(r, tab)
  OBVIOUS
<1>c. PICK c \in Chars : c = tab[d + 1]
  BY DigitType DEF Tables
<1>n. PICK n \in Nat : n = Len(s)
  OBVIOUS
<1>1. r \in Seq(0 .. 15) /\ Len(r) = n + 1 /\ r[n + 1] = d /\ \A i \in 1 .. n : r[i] = s[i]
  BY <1>n, <1>r, AppendProperties
<1>2. g \in Seq(Chars) /\ Len(g) = n /\ \A i \in 1 .. n : g[i] = tab[s[i] + 1]
  BY <1>n, <1>r, GlyphsType
<1>3. h \in Seq(Chars) /\ Len(h) = n + 1 /\ \A i \in 1 .. n + 1 : h[i] = tab[r[i] + 1]
  BY <1>1, <1>r, GlyphsType
<1>q. PICK q : q = Append(g, c)
  OBVIOUS
<1>4. q \in Seq(Chars) /\ Len(q) = n + 1 /\ q[n + 1] = c /\ \A i \in 1 .. n : q[i] = g[i]
  BY <1>2, <1>q, AppendProperties
<1>5. ASSUME NEW i \in 1 .. n + 1
      PROVE  h[i] = q[i]
  <2>1. CASE i = n + 1
    BY <1>1, <1>3, <1>4, <1>c, <2>1
  <2>2. CASE i # n + 1
    <3>1. i \in 1 .. n
      BY <2>2
    <3>2. r[i] = s[i] /\ q[i] = g[i] /\ g[i] = tab[s[i] + 1] /\ h[i] = tab[r[i] + 1]
      BY <1>1, <1>2, <1>3, <1>4, <3>1
    <3> QED BY <3>2
  <2> QED BY <2>1, <2>2
<1>6. h = q
  BY <1>3, <1>4, <1>5, SeqEqual
<1> QED BY <1>6, <1>c, <1>q, <1>r

\* The digits of a number are digits of a table.
LEMMA NumeralType ==
  ASSUME NEW b \in {10, 16}, NEW n \in Nat
  PROVE  Numeral(n, b) \in Seq(0 .. 15) /\ Numeral(n, b) # <<>>
<1>1. IsNumeral(Numeral(n, b), n, b)
  BY NumeralRule
<1>s. PICK s : s = Numeral(n, b)
  OBVIOUS
<1>2. s \in Seq(0 .. b - 1) /\ s # <<>>
  BY <1>1, <1>s DEF IsNumeral
<1>3. PICK T, U : T = 0 .. b - 1 /\ U = 0 .. 15
  OBVIOUS
<1>a. T \subseteq U
  BY <1>3
<1>b. s \in Seq(T)
  BY <1>2, <1>3
<1>c. s \in Seq(U)
  BY <1>a, <1>b
<1>4. s \in Seq(0 .. 15)
  BY <1>3, <1>c
<1> QED BY <1>2, <1>4, <1>s

\* uint2string writes the numeral.
LEMMA DecimalIs ==
  ASSUME NEW n \in 0 .. INT_MAX + 1
  PROVE  uint2string[n] = Glyphs(Numeral(n, 10), Digits)
<1>u. PICK u : u = uint2string
  OBVIOUS
<1>m. PICK M \in Nat : M = INT_MAX + 1
  BY Constants
<1>1. \A i \in 0 .. M : u[i] = Decimal(u, i)
  BY <1>m, <1>u, DecimalEquation
<1>t. Digits \in Tables
  BY DEF Tables
<1>b. PICK Bad : Bad = {i \in 0 .. M : u[i] # Glyphs(Numeral(i, 10), Digits)}
  OBVIOUS
<1>2. Bad = {}
  <2>1. SUFFICES ASSUME Bad # {} PROVE FALSE
    OBVIOUS
  <2>a. Bad \subseteq Nat
    BY <1>b
  <2>2. PICK k \in Bad : \A j \in Bad : ~ (j < k)
    BY <2>1, <2>a, Least
  <2>3. k \in 0 .. M /\ k \in Nat /\ u[k] # Glyphs(Numeral(k, 10), Digits) /\ u[k] = Decimal(u, k)
    BY <1>1, <1>b, <1>m, <2>2
  <2>4. Numeral(k, 10) = IF k < 10 THEN <<k>> ELSE Append(Numeral(k \div 10, 10), k % 10)
    BY <2>3, NumeralRule
  <2>5. CASE k < 10
    <3>1. k \in 0 .. 15 /\ <<>> \in Seq(0 .. 15)
      BY <2>3, <2>5
    <3>2. Glyphs(Append(<<>>, k), Digits) = Append(Glyphs(<<>>, Digits), Digits[k + 1])
      BY <1>t, <3>1, GlyphsAppend
    <3>3. Append(<<>>, k) = <<k>> /\ Append(<<>>, Digits[k + 1]) = <<Digits[k + 1]>>
      OBVIOUS
    <3>4. Glyphs(<<>>, Digits) = <<>>
      <4>1. Glyphs(<<>>, Digits) \in Seq(Chars) /\ Len(Glyphs(<<>>, Digits)) = Len(<<>>)
        BY <1>t, <3>1, GlyphsType
      <4> QED BY <4>1
    <3>5. Decimal(u, k) = <<Digits[k + 1]>>
      BY <2>5 DEF Decimal
    <3> QED BY <2>3, <2>4, <2>5, <3>2, <3>3, <3>4, <3>5
  <2>6. CASE ~ (k < 10)
    <3>q. PICK q, r : q = k \div 10 /\ r = k % 10
      OBVIOUS
    <3>1. q \in Nat /\ q < k /\ r \in 0 .. 9
      <4>1. k >= 10
        BY <2>3, <2>6
      <4>2. k \div 10 \in Nat /\ k \div 10 < k /\ k % 10 \in 0 .. 10 - 1
        BY <2>3, <4>1, Smaller
      <4> QED BY <3>q, <4>2
    <3>2. q \in 0 .. M /\ q \notin Bad
      BY <2>2, <2>3, <3>1
    <3>3. u[q] = Glyphs(Numeral(q, 10), Digits)
      BY <1>b, <3>2
    <3>4. Numeral(q, 10) \in Seq(0 .. 15) /\ r \in 0 .. 15
      BY <3>1, NumeralType
    <3>5. Glyphs(Append(Numeral(q, 10), r), Digits) = Append(Glyphs(Numeral(q, 10), Digits), Digits[r + 1])
      BY <1>t, <3>4, GlyphsAppend
    <3>6. Decimal(u, k) = Append(u[q], Digits[r + 1])
      BY <2>6, <3>q DEF Decimal
    <3>7. Numeral(k, 10) = Append(Numeral(q, 10), r)
      BY <2>4, <2>6, <3>q
    <3> QED BY <2>3, <3>3, <3>5, <3>6, <3>7
  <2> QED BY <2>5, <2>6
<1>3. u[n] = Glyphs(Numeral(n, 10), Digits)
  BY <1>2, <1>b, <1>m
<1> QED BY <1>3, <1>u

----------------------------------------------------------------------------
(* What a piece means                                                      *)

Tab(flag) == IF flag = "x" THEN Digits ELSE Upper

Filled(m, c) == [i \in 1 .. m |-> c]

HexDigits(p) == Glyphs(Numeral(p.n, 16), Tab(p.flag))

\* How many characters the digits of a piece fall short of its width
Missing(p) == IF Len(Numeral(p.n, 16)) < p.width THEN p.width - Len(Numeral(p.n, 16)) ELSE 0

Sign(p) == IF p.sign = "#" THEN <<"0", "x">> ELSE <<>>

\* Fill characters
LEMMA FilledType ==
  ASSUME NEW m \in Nat, NEW c \in Chars
  PROVE  Filled(m, c) \in Seq(Chars) /\ Len(Filled(m, c)) = m /\ Filled(m + 1, c) = <<c>> \o Filled(m, c)
<1>f. PICK f, g : f = Filled(m, c) /\ g = Filled(m + 1, c)
  OBVIOUS
<1>1. f \in Seq(Chars) /\ Len(f) = m /\ \A i \in 1 .. m : f[i] = c
  BY <1>f DEF Filled
<1>2. g \in Seq(Chars) /\ Len(g) = m + 1 /\ \A i \in 1 .. m + 1 : g[i] = c
  <2>1. m + 1 \in Nat
    OBVIOUS
  <2>2. g = [i \in 1 .. m + 1 |-> c]
    BY <1>f DEF Filled
  <2> QED BY <2>1, <2>2
<1>q. PICK q : q = <<c>> \o f
  OBVIOUS
<1>3. q \in Seq(Chars) /\ Len(q) = m + 1 /\ q[1] = c /\ \A i \in 2 .. m + 1 : q[i] = f[i - 1]
  BY <1>1, <1>q
<1>4. ASSUME NEW i \in 1 .. m + 1
      PROVE  g[i] = q[i]
  <2>1. CASE i = 1
    BY <1>2, <1>3, <2>1
  <2>2. CASE i # 1
    <3>1. i \in 2 .. m + 1 /\ i - 1 \in 1 .. m
      BY <2>2
    <3> QED BY <1>1, <1>2, <1>3, <3>1
  <2> QED BY <2>1, <2>2
<1>5. g = q
  BY <1>2, <1>3, <1>4, SeqEqual
<1> QED BY <1>1, <1>5, <1>f, <1>q

\* The parts of a hex conversion
LEMMA HexParts ==
  ASSUME NEW p \in Pieces, p.kind = "x"
  PROVE  /\ Numeral(p.n, 16) \in Seq(0 .. 15) /\ Len(Numeral(p.n, 16)) \in Nat
         /\ Tab(p.flag) \in Tables /\ HexDigits(p) \in Seq(Chars) /\ Len(HexDigits(p)) = Len(Numeral(p.n, 16))
         /\ Missing(p) \in Nat /\ Sign(p) \in Seq(Chars) /\ p.fill \in Chars /\ p.width \in Nat
<1>1. p.n \in Nat /\ p.width \in Nat /\ p.fill \in {" ", "0"}
  <2>1. p.n \in Nat /\ p.width \in {0, HexWidth} /\ p.fill \in {" ", "0"}
    BY PieceFacts
  <2>2. HexWidth \in Nat
    BY ConsoleAssumption
  <2>3. PICK w : w = p.width
    OBVIOUS
  <2>4. w = 0 \/ w = HexWidth
    BY <2>1, <2>3
  <2>5. w \in Nat
    BY <2>2, <2>4
  <2> QED BY <2>1, <2>3, <2>5
<1>2. Numeral(p.n, 16) \in Seq(0 .. 15)
  BY <1>1, NumeralType
<1>3. Tab(p.flag) \in Tables
  BY DEF Tab, Tables
<1>4. HexDigits(p) \in Seq(Chars) /\ Len(HexDigits(p)) = Len(Numeral(p.n, 16))
  BY <1>2, <1>3, GlyphsType DEF HexDigits
<1>5. Len(Numeral(p.n, 16)) \in Nat
  BY <1>2
<1>6. Missing(p) \in Nat
  <2>1. \A a, b \in Nat : (IF a < b THEN b - a ELSE 0) \in Nat
    OBVIOUS
  <2> QED BY <1>1, <1>5, <2>1 DEF Missing
<1>7. {"0", "x", " "} \subseteq Chars
  <2>1. Digits[0 + 1] \in Chars /\ Digits[0 + 1] = "0"
    BY DigitType DEF Digits
  <2> QED BY <2>1, FormatsAssumption
<1>8. Sign(p) \in Seq(Chars)
  <2>1. "0" \in Chars /\ "x" \in Chars
    BY <1>7
  <2>2. <<"0", "x">> \in Seq(Chars)
    BY <2>1
  <2>3. <<>> \in Seq(Chars)
    OBVIOUS
  <2> QED BY <2>2, <2>3 DEF Sign
<1> QED BY <1>1, <1>2, <1>3, <1>4, <1>5, <1>6, <1>7, <1>8

\* What %x means
LEMMA HexMeaning ==
  ASSUME NEW p \in Pieces, p.kind = "x"
  PROVE  Meaning(p) \in Seq(Chars) /\ Meaning(p) = Sign(p) \o (Filled(Missing(p), p.fill) \o HexDigits(p))
<1>1. PICK a, b, c : a = Sign(p) /\ b = Filled(Missing(p), p.fill) /\ c = HexDigits(p)
  OBVIOUS
<1>2. a \in Seq(Chars) /\ b \in Seq(Chars) /\ c \in Seq(Chars)
  BY <1>1, HexParts, FilledType
<1>3. Meaning(p) = (a \o b) \o c
  <2>s. PICK s : s = Numeral(p.n, 16)
    OBVIOUS
  <2>1. Meaning(p) = (IF p.sign = "#" THEN <<"0", "x">> ELSE <<>>)
               \o [i \in 1 .. (IF Len(s) < p.width THEN p.width - Len(s) ELSE 0) |-> p.fill]
               \o [i \in DOMAIN s |-> (IF p.flag = "x" THEN Digits ELSE Upper)[s[i] + 1]]
    BY <2>s, Zenon DEF Meaning
  <2>2. a = IF p.sign = "#" THEN <<"0", "x">> ELSE <<>>
    BY <1>1 DEF Sign
  <2>3. b = [i \in 1 .. (IF Len(s) < p.width THEN p.width - Len(s) ELSE 0) |-> p.fill]
    BY <1>1, <2>s, Zenon DEF Filled, Missing
  <2>4. c = [i \in DOMAIN s |-> (IF p.flag = "x" THEN Digits ELSE Upper)[s[i] + 1]]
    BY <1>1, <2>s, Zenon DEF HexDigits, Glyphs, Tab
  <2> QED BY <2>1, <2>2, <2>3, <2>4, Zenon
<1>4. (a \o b) \o c = a \o (b \o c)
  BY <1>2, ConcatAssociative, SMTT(30)
<1>5. b \o c \in Seq(Chars)
  BY <1>2, ConcatProperties
<1>6. a \o (b \o c) \in Seq(Chars)
  BY <1>2, <1>5, ConcatProperties
<1> QED BY <1>1, <1>3, <1>4, <1>6

\* What %d means, int2string writes.
LEMMA SignedMeaning ==
  ASSUME NEW p \in Pieces, p.kind = "d"
  PROVE  Meaning(p) = int2string(p.n)
<1>1. p.n \in Ints
  BY PieceFacts
<1>m. PICK m : m = IF p.n < 0 THEN -p.n ELSE p.n
  OBVIOUS
<1>2. m \in 0 .. INT_MAX + 1 /\ (p.n < 0 => (0 - (p.n + 1)) + 1 = m) /\ (~ (p.n < 0) => p.n = m)
  BY <1>1, <1>m, Constants DEF Ints
<1>g. PICK g : g = Glyphs(Numeral(m, 10), Digits)
  OBVIOUS
<1>3. uint2string[m] = g
  BY <1>2, <1>g, DecimalIs
<1>4. Meaning(p) = (IF p.n < 0 THEN <<"-">> ELSE <<>>) \o g
  <2>1. Meaning(p) = (IF p.n < 0 THEN <<"-">> ELSE <<>>)
             \o [i \in DOMAIN Numeral(IF p.n < 0 THEN -p.n ELSE p.n, 10) |->
                   Digits[Numeral(IF p.n < 0 THEN -p.n ELSE p.n, 10)[i] + 1]]
    BY Zenon DEF Meaning
  <2>2. g = [i \in DOMAIN Numeral(IF p.n < 0 THEN -p.n ELSE p.n, 10) |->
                   Digits[Numeral(IF p.n < 0 THEN -p.n ELSE p.n, 10)[i] + 1]]
    BY <1>g, <1>m, Zenon DEF Glyphs
  <2> QED BY <2>1, <2>2, Zenon
<1>5. g \in Seq(Chars)
  BY <1>2, <1>3, DecimalStrings
<1>6. CASE p.n < 0
  BY <1>2, <1>3, <1>4, <1>6 DEF int2string
<1>7. CASE ~ (p.n < 0)
  <2>1. <<>> \o g = g
    BY <1>5, ConcatEmptySeq
  <2>2. Meaning(p) = <<>> \o g
    BY <1>4, <1>7
  <2> QED BY <1>2, <1>3, <1>7, <2>1, <2>2 DEF int2string
<1> QED BY <1>6, <1>7

\* The others mean their text.
LEMMA TextMeaning ==
  ASSUME NEW p \in Pieces, p.kind \in {"text", "c", "s", "other"}
  PROVE  Meaning(p) = p.text
<1>1. p.kind # "d" /\ p.kind # "x"
  OBVIOUS
<1> QED BY <1>1, Zenon DEF Meaning

\* A piece means characters.
LEMMA MeaningType ==
  ASSUME NEW p \in Pieces
  PROVE  Meaning(p) \in Seq(Chars)
BY PieceFacts, TextMeaning, SignedMeaning, SignedStrings, HexMeaning

----------------------------------------------------------------------------
(* What a call has to write                                                *)

\* The values that functions G[1], G[2], ... lead to from x
Iterates(f, n, T, x, G) ==
    f \in [0 .. n -> T] /\ f[0] = x /\ \A k \in 1 .. n : f[k] = G[k][f[k - 1]]

Maps(G, n, T) == \A k \in 1 .. n : G[k] \in [T -> T]

\* There are such values.
LEMMA Iterated ==
  ASSUME NEW n \in Nat, NEW T, NEW x \in T, NEW G, Maps(G, n, T)
  PROVE  \E f : Iterates(f, n, T, x, G)
<1>g. \A k \in 1 .. n : G[k] \in [T -> T]
  BY DEF Maps
<1> DEFINE Has(k) == \E f : f \in [0 .. k -> T] /\ f[0] = x /\ \A i \in 1 .. k : f[i] = G[i][f[i - 1]]
<1>s. PICK S : S = {k \in 0 .. n : Has(k)}
  OBVIOUS
<1>1. 0 \in S
  <2>1. PICK f : f = [i \in 0 .. 0 |-> x]
    OBVIOUS
  <2>2. f \in [0 .. 0 -> T] /\ f[0] = x /\ \A i \in 1 .. 0 : f[i] = G[i][f[i - 1]]
    BY <2>1
  <2> QED BY <1>s, <2>2
<1>2. ASSUME NEW k \in 0 .. n - 1, k \in S
      PROVE  k + 1 \in S
  <2>1. PICK f : f \in [0 .. k -> T] /\ f[0] = x /\ \A i \in 1 .. k : f[i] = G[i][f[i - 1]]
    BY <1>2, <1>s
  <2>y. PICK y : y = G[k + 1][f[k]]
    OBVIOUS
  <2>2. y \in T
    <3>1. k + 1 \in 1 .. n /\ f[k] \in T
      BY <2>1
    <3>2. G[k + 1] \in [T -> T]
      BY <1>g, <3>1
    <3> QED BY <2>y, <3>1, <3>2
  <2>w. PICK w : w = [i \in 0 .. k + 1 |-> IF i = k + 1 THEN y ELSE f[i]]
    OBVIOUS
  <2>3. w[k + 1] = y /\ \A i \in 0 .. k : w[i] = f[i]
    BY <2>w
  <2>4. w \in [0 .. k + 1 -> T] /\ w[0] = x
    BY <2>1, <2>2, <2>3, <2>w
  <2>5. ASSUME NEW i \in 1 .. k + 1
        PROVE  w[i] = G[i][w[i - 1]]
    <3>1. CASE i = k + 1
      <4>1. w[i - 1] = f[k]
        BY <2>3, <3>1
      <4> QED BY <2>3, <2>y, <3>1, <4>1
    <3>2. CASE i # k + 1
      <4>1. i \in 1 .. k /\ i \in 0 .. k /\ i - 1 \in 0 .. k
        BY <3>2
      <4> QED BY <2>1, <2>3, <4>1
    <3> QED BY <3>1, <3>2
  <2>6. Has(k + 1)
    BY <2>4, <2>5
  <2>7. k + 1 \in 0 .. n
    OBVIOUS
  <2> QED BY <1>s, <2>6, <2>7
<1>3. n \in S
  <2>1. \A k \in 0 .. n : k \in S
    BY <1>1, <1>2, UpTo
  <2> QED BY <2>1
<1> QED BY <1>3, <1>s DEF Iterates

\* The texts that the first pieces of a format mean
Wanted(W, f) ==
    /\ W \in [0 .. Len(f) -> Seq(Chars)] /\ W[0] = <<>>
    /\ \A i \in 1 .. Len(f) : W[i] = W[i - 1] \o Meaning(f[i])

\* There are such texts ...
LEMMA WantedExists ==
  ASSUME NEW f \in Seq(Pieces)
  PROVE  \E W : Wanted(W, f)
<1>n. PICK n \in Nat : n = Len(f)
  OBVIOUS
<1>t. PICK T : T = Seq(Chars)
  OBVIOUS
<1>0. <<>> \in T
  BY <1>t
<1>m. \A k \in 1 .. n : Meaning(f[k]) \in T
  <2>1. \A k \in 1 .. n : f[k] \in Pieces
    BY <1>n
  <2> QED BY <1>t, <2>1, MeaningType
<1>g. PICK G : G = [k \in 1 .. n |-> [s \in T |-> s \o Meaning(f[k])]]
  OBVIOUS
<1>1. ASSUME NEW k \in 1 .. n
      PROVE  G[k] \in [T -> T] /\ \A s \in T : G[k][s] = s \o Meaning(f[k])
  <2>1. G[k] = [s \in T |-> s \o Meaning(f[k])]
    BY <1>g
  <2>2. \A s \in T : s \o Meaning(f[k]) \in T
    BY <1>m, <1>t, ConcatProperties
  <2> QED BY <2>1, <2>2
<1>e. PICK e : e = <<>> /\ e \in T
  BY <1>0
<1>a. Maps(G, n, T)
  BY <1>1 DEF Maps
<1>2. PICK W : W \in [0 .. n -> T] /\ W[0] = e /\ \A k \in 1 .. n : W[k] = G[k][W[k - 1]]
  <2>1. e \in T /\ n \in Nat
    BY <1>e, <1>n
  <2> QED BY <1>a, <2>1, Iterated, SMTT(30) DEF Iterates
<1>3. \A k \in 1 .. n : W[k] = W[k - 1] \o Meaning(f[k])
  <2>1. \A k \in 1 .. n : W[k - 1] \in T
    BY <1>2
  <2> QED BY <1>1, <1>2, <2>1
<1> QED BY <1>2, <1>3, <1>e, <1>n, <1>t DEF Wanted

\* ... and the last of them is what is expected of the call.
LEMMA WantedIs ==
  ASSUME NEW f \in Formats, NEW W, Wanted(W, f)
  PROVE  Expected[f] = W[Len(f)]
<1>f. f \in Seq(Pieces)
  BY FormatsAssumption
<1>n. PICK n \in Nat : n = Len(f)
  BY <1>f
<1>g. PICK g : g = [i \in DOMAIN f |-> Meaning(f[i])]
  OBVIOUS
<1>1. Expected[f] = FlattenSeq(g)
  BY <1>g DEF Expected
<1>2. DOMAIN f = 1 .. n /\ g = [i \in 1 .. n |-> Meaning(f[i])]
  BY <1>f, <1>g, <1>n
<1>3. Len(g) = n /\ \A i \in 1 .. n : g[i] = Meaning(f[i])
  BY <1>2
<1>4. W \in [0 .. n -> Seq(Chars)] /\ W[0] = <<>> /\ \A i \in 1 .. n : W[i] = W[i - 1] \o g[i]
  BY <1>3, <1>n DEF Wanted
<1>5. CASE n = 0
  <2>1. FlattenSeq(g) = g
    BY <1>3, <1>5 DEF FlattenSeq
  <2>2. g = <<>>
    <3>1. 1 .. 0 = {}
      OBVIOUS
    <3> QED BY <1>2, <1>5, <3>1
  <2> QED BY <1>1, <1>4, <1>5, <1>n, <2>1, <2>2
<1>6. CASE n # 0
  <2> DEFINE E(h) == h = [i \in 1 .. n |-> IF i = 1 THEN g[i] ELSE h[i - 1] \o g[i]]
  <2>v. PICK v : v = [i \in 1 .. n |-> W[i]]
    OBVIOUS
  <2>1. E(v)
    <3>1. ASSUME NEW i \in 1 .. n
          PROVE  v[i] = IF i = 1 THEN g[i] ELSE v[i - 1] \o g[i]
      <4>1. v[i] = W[i] /\ W[i] = W[i - 1] \o g[i]
        BY <1>4, <2>v
      <4>2. CASE i = 1
        <5>1. g[1] \in Seq(Chars)
          <6>1. f[1] \in Pieces
            BY <1>f, <1>n, <4>2
          <6> QED BY <1>3, <4>2, <6>1, MeaningType
        <5>2. <<>> \o g[1] = g[1]
          BY <5>1, ConcatEmptySeq
        <5>3. W[i - 1] = <<>>
          BY <1>4, <4>2
        <5> QED BY <4>1, <4>2, <5>2, <5>3
      <4>3. CASE i # 1
        <5>1. i - 1 \in 1 .. n
          BY <4>3
        <5>2. v[i - 1] = W[i - 1]
          BY <2>v, <5>1
        <5> QED BY <4>1, <4>3, <5>2
      <4> QED BY <4>2, <4>3
    <3> QED BY <2>v, <3>1
  <2>2. PICK u : u = CHOOSE h : E(h)
    OBVIOUS
  <2>3. E(u)
    BY <2>1, <2>2
  <2>4. FlattenSeq(g) = u[Len(g)]
    BY <1>3, <1>6, <2>2 DEF FlattenSeq
  <2>5. \A i \in 1 .. n : u[i] = IF i = 1 THEN g[i] ELSE u[i - 1] \o g[i]
    BY <2>3, Zenon
  <2>6. \A i \in 1 .. n : v[i] = IF i = 1 THEN g[i] ELSE v[i - 1] \o g[i]
    BY <2>1, Zenon
  <2>b. PICK Bad : Bad = {i \in 1 .. n : u[i] # v[i]}
    OBVIOUS
  <2>7. Bad = {}
    <3>1. SUFFICES ASSUME Bad # {} PROVE FALSE
      OBVIOUS
    <3>a. Bad \subseteq Nat
      BY <2>b
    <3>2. PICK k \in Bad : \A j \in Bad : ~ (j < k)
      BY <3>1, <3>a, Least
    <3>3. k \in 1 .. n /\ u[k] # v[k]
      BY <2>b
    <3>4. CASE k = 1
      BY <2>5, <2>6, <3>3, <3>4
    <3>5. CASE k # 1
      <4>1. k - 1 \in 1 .. n /\ k - 1 < k
        BY <3>3, <3>5
      <4>2. u[k - 1] = v[k - 1]
        BY <2>b, <3>2, <4>1
      <4> QED BY <2>5, <2>6, <3>3, <3>5, <4>2
    <3> QED BY <3>4, <3>5
  <2>8. u[n] = v[n] /\ v[n] = W[n]
    BY <1>6, <2>7, <2>b, <2>v
  <2> QED BY <1>1, <1>3, <1>n, <2>4, <2>8
<1> QED BY <1>5, <1>6

\* They grow from piece to piece.
LEMMA WantedGrows ==
  ASSUME NEW f \in Seq(Pieces), NEW W, Wanted(W, f), NEW i \in 0 .. Len(f)
  PROVE  Len(W[i]) <= Len(W[Len(f)])
<1>n. PICK n \in Nat : n = Len(f)
  OBVIOUS
<1>1. (\A k \in 0 .. n : W[k] \in Seq(Chars)) /\ \A k \in 1 .. n : W[k] = W[k - 1] \o Meaning(f[k])
  BY <1>n DEF Wanted
<1>s. PICK S : S = {j \in 0 .. n : Len(W[n - j]) <= Len(W[n])}
  OBVIOUS
<1>2. 0 \in S
  <2>1. n - 0 = n /\ W[n] \in Seq(Chars)
    BY <1>1
  <2>2. Len(W[n]) <= Len(W[n])
    BY <2>1
  <2> QED BY <1>s, <2>1, <2>2
<1>3. ASSUME NEW j \in 0 .. n - 1, j \in S
      PROVE  j + 1 \in S
  <2>k. PICK k : k = n - j
    OBVIOUS
  <2>1. k \in 1 .. n /\ k - 1 \in 0 .. n /\ k \in 0 .. n /\ n - (j + 1) = k - 1 /\ j + 1 \in 0 .. n
    BY <2>k
  <2>2. f[k] \in Pieces
    BY <1>n, <2>1
  <2>3. Meaning(f[k]) \in Seq(Chars)
    BY <2>2, MeaningType
  <2>4. PICK a, b, c, d : a = W[k - 1] /\ b = Meaning(f[k]) /\ c = W[k] /\ d = W[n]
    OBVIOUS
  <2>5. a \in Seq(Chars) /\ b \in Seq(Chars) /\ d \in Seq(Chars) /\ c = a \o b
    <3>1. n \in 0 .. n
      OBVIOUS
    <3> QED BY <1>1, <2>1, <2>3, <2>4, <3>1
  <2>6. Len(c) = Len(a) + Len(b)
    BY <2>5, ConcatProperties
  <2>7. Len(c) <= Len(d)
    BY <1>3, <1>s, <2>4, <2>k
  <2>8. Len(a) \in Nat /\ Len(b) \in Nat /\ Len(d) \in Nat
    BY <2>5
  <2>9. PICK x, y, z : x = Len(a) /\ y = Len(b) /\ z = Len(d)
    OBVIOUS
  <2>10. x + y <= z /\ x \in Nat /\ y \in Nat /\ z \in Nat
    BY <2>6, <2>7, <2>8, <2>9
  <2>11. x <= z
    BY <2>10
  <2> QED BY <1>s, <2>1, <2>4, <2>9, <2>11
<1>4. \A j \in 0 .. n : j \in S
  BY <1>2, <1>3, UpTo
<1>5. n - i \in 0 .. n /\ n - (n - i) = i
  BY <1>n
<1> QED BY <1>4, <1>5, <1>n, <1>s

----------------------------------------------------------------------------
(* What a call has written                                                 *)

\* Character k of paper P is of call c of thread t.
Own(P, k, t, c) == P[k].thread = t /\ P[k].call = c

\* What the call has written after each character of the paper
Speaks(f, P, t, c) ==
    f = [k \in 0 .. Len(P) |-> IF k = 0 THEN <<>>
                               ELSE IF Own(P, k, t, c) THEN Append(f[k - 1], P[k].char) ELSE f[k - 1]]

Spoken(P, t, c) == (CHOOSE f : Speaks(f, P, t, c))[Len(P)]

\* Said is that, of the call the thread is in.
LEMMA SaidIs ==
  ASSUME NEW t
  PROVE  Said(t) = Spoken(paper, t, th[t].calls)
BY Zenon DEF Said, Spoken, Speaks, Own

\* There is such a function, and Spoken is its last value.
LEMMA SpeaksExists ==
  ASSUME NEW P \in Seq(Entries), NEW t, NEW c
  PROVE  \E f : Speaks(f, P, t, c) /\ f \in [0 .. Len(P) -> Seq(Chars)] /\ Spoken(P, t, c) = f[Len(P)]
<1>n. PICK n \in Nat : n = Len(P)
  OBVIOUS
<1>t. PICK T : T = Seq(Chars)
  OBVIOUS
<1>e. PICK e : e = <<>>
  OBVIOUS
<1>0. e \in T
  BY <1>e, <1>t
<1>c. \A k \in 1 .. n : P[k].char \in Chars
  <2>1. \A k \in 1 .. n : P[k] \in Entries
    BY <1>n
  <2> QED BY <2>1 DEF Entries
<1>g. PICK G : G = [k \in 1 .. n |-> [s \in T |-> IF Own(P, k, t, c) THEN Append(s, P[k].char) ELSE s]]
  OBVIOUS
<1>1. ASSUME NEW k \in 1 .. n
      PROVE  G[k] \in [T -> T] /\ \A s \in T : G[k][s] = IF Own(P, k, t, c) THEN Append(s, P[k].char) ELSE s
  <2>1. G[k] = [s \in T |-> IF Own(P, k, t, c) THEN Append(s, P[k].char) ELSE s]
    BY <1>g
  <2>2. \A s \in T : Append(s, P[k].char) \in T
    BY <1>c, <1>t, AppendProperties
  <2> QED BY <2>1, <2>2
<1>a. Maps(G, n, T)
  BY <1>1 DEF Maps
<1>2. PICK f : Iterates(f, n, T, e, G)
  BY <1>0, <1>a, <1>n, Iterated
<1>3. f \in [0 .. n -> T] /\ f[0] = e /\ \A k \in 1 .. n : f[k] = G[k][f[k - 1]]
  BY <1>2 DEF Iterates
<1>4. ASSUME NEW k \in 0 .. n
      PROVE  f[k] = IF k = 0 THEN <<>> ELSE IF Own(P, k, t, c) THEN Append(f[k - 1], P[k].char) ELSE f[k - 1]
  <2>1. CASE k = 0
    BY <1>3, <1>e, <2>1
  <2>2. CASE k # 0
    <3>1. k \in 1 .. n /\ k - 1 \in 0 .. n
      BY <1>n, <2>2
    <3>2. f[k - 1] \in T /\ f[k] = G[k][f[k - 1]]
      BY <1>3, <3>1
    <3> QED BY <1>1, <2>2, <3>1, <3>2
  <2> QED BY <2>1, <2>2
<1>5. f = [k \in 0 .. n |-> IF k = 0 THEN <<>>
                            ELSE IF Own(P, k, t, c) THEN Append(f[k - 1], P[k].char) ELSE f[k - 1]]
  BY <1>3, <1>4
<1>6. Speaks(f, P, t, c)
  BY <1>5, <1>n DEF Speaks
<1>7. PICK g : g = CHOOSE h : Speaks(h, P, t, c)
  OBVIOUS
<1>8. Speaks(g, P, t, c)
  BY <1>6, <1>7
<1>9. \A k \in 0 .. n : g[k] = IF k = 0 THEN <<>> ELSE IF Own(P, k, t, c) THEN Append(g[k - 1], P[k].char) ELSE g[k - 1]
  BY <1>8, <1>n, Zenon DEF Speaks
<1>s. PICK S : S = {k \in 0 .. n : g[k] = f[k]}
  OBVIOUS
<1>10. 0 \in S
  BY <1>4, <1>9, <1>n, <1>s
<1>11. ASSUME NEW k \in 0 .. n - 1, k \in S
       PROVE  k + 1 \in S
  <2>1. k + 1 \in 0 .. n /\ k + 1 # 0 /\ (k + 1) - 1 = k
    BY <1>n
  <2>2. g[k + 1] = IF Own(P, k + 1, t, c) THEN Append(g[k], P[k + 1].char) ELSE g[k]
    BY <1>9, <2>1
  <2>3. f[k + 1] = IF Own(P, k + 1, t, c) THEN Append(f[k], P[k + 1].char) ELSE f[k]
    BY <1>4, <2>1
  <2>4. g[k] = f[k]
    BY <1>11, <1>s
  <2>5. g[k + 1] = f[k + 1]
    BY <2>2, <2>3, <2>4
  <2> QED BY <1>s, <2>1, <2>5
<1>12. \A k \in 0 .. n : k \in S
  BY <1>10, <1>11, <1>n, UpTo
<1>13. g[n] = f[n]
  BY <1>12, <1>n, <1>s
<1>14. Spoken(P, t, c) = f[Len(P)]
  BY <1>13, <1>7, <1>n DEF Spoken
<1> QED BY <1>3, <1>6, <1>14, <1>n, <1>t

\* The functions of it, by their values
LEMMA SpeaksSteps ==
  ASSUME NEW P \in Seq(Entries), NEW t, NEW c
  PROVE  \E f : /\ f \in [0 .. Len(P) -> Seq(Chars)] /\ f[0] = <<>> /\ Spoken(P, t, c) = f[Len(P)]
                /\ \A k \in 1 .. Len(P) : f[k] = IF Own(P, k, t, c) THEN Append(f[k - 1], P[k].char) ELSE f[k - 1]
<1>n. PICK n \in Nat : n = Len(P)
  OBVIOUS
<1>1. PICK f : Speaks(f, P, t, c) /\ f \in [0 .. Len(P) -> Seq(Chars)] /\ Spoken(P, t, c) = f[Len(P)]
  BY SpeaksExists
<1>2. \A k \in 0 .. n : f[k] = IF k = 0 THEN <<>> ELSE IF Own(P, k, t, c) THEN Append(f[k - 1], P[k].char) ELSE f[k - 1]
  BY <1>1, <1>n, Zenon DEF Speaks
<1>3. f[0] = <<>>
  BY <1>2, <1>n
<1>4. \A k \in 1 .. n : f[k] = IF Own(P, k, t, c) THEN Append(f[k - 1], P[k].char) ELSE f[k - 1]
  <2>1. \A k \in 1 .. n : k \in 0 .. n /\ k # 0
    BY <1>n
  <2> QED BY <1>2, <2>1
<1> QED BY <1>1, <1>3, <1>4, <1>n

\* Nothing, when nothing is its own
LEMMA SpokenNone ==
  ASSUME NEW P \in Seq(Entries), NEW t, NEW c, \A k \in DOMAIN P : ~ Own(P, k, t, c)
  PROVE  Spoken(P, t, c) = <<>>
<1>n. PICK n \in Nat : n = Len(P) /\ DOMAIN P = 1 .. n
  OBVIOUS
<1>1. PICK f : /\ f[0] = <<>> /\ Spoken(P, t, c) = f[Len(P)]
               /\ \A k \in 1 .. Len(P) : f[k] = IF Own(P, k, t, c) THEN Append(f[k - 1], P[k].char) ELSE f[k - 1]
  BY SpeaksSteps
<1>s. PICK S : S = {k \in 0 .. n : f[k] = <<>>}
  OBVIOUS
<1>2. 0 \in S
  BY <1>1, <1>n, <1>s
<1>3. ASSUME NEW k \in 0 .. n - 1, k \in S
      PROVE  k + 1 \in S
  <2>1. k + 1 \in 0 .. n /\ k + 1 \in 1 .. n /\ (k + 1) - 1 = k
    BY <1>n
  <2>2. f[k + 1] = f[k]
    BY <1>1, <1>n, <2>1
  <2> QED BY <1>3, <1>s, <2>1, <2>2
<1>4. \A k \in 0 .. n : k \in S
  BY <1>2, <1>3, <1>n, UpTo
<1> QED BY <1>1, <1>4, <1>n, <1>s

\* It is as long as there are characters of the call.
LEMMA SpokenLength ==
  ASSUME paper \in Seq(Entries), NEW t, NEW c
  PROVE  Spoken(paper, t, c) \in Seq(Chars) /\ Len(Spoken(paper, t, c)) = Cardinality(Mine(t, c))
<1>p. PICK P \in Seq(Entries) : P = paper
  OBVIOUS
<1>n. PICK n \in Nat : n = Len(P) /\ DOMAIN P = 1 .. n
  BY <1>p
<1>1. PICK f : /\ f \in [0 .. Len(P) -> Seq(Chars)] /\ f[0] = <<>> /\ Spoken(P, t, c) = f[Len(P)]
               /\ \A k \in 1 .. Len(P) : f[k] = IF Own(P, k, t, c) THEN Append(f[k - 1], P[k].char) ELSE f[k - 1]
  BY <1>p, SpeaksSteps, SMTT(30)
<1>y. \A k \in 0 .. n : f[k] \in Seq(Chars)
  BY <1>1, <1>n
<1> DEFINE M(k) == {i \in 1 .. k : Own(P, i, t, c)}
<1>s. PICK S : S = {k \in 0 .. n : IsFiniteSet(M(k)) /\ Cardinality(M(k)) = Len(f[k])}
  OBVIOUS
<1>2. 0 \in S
  <2>1. M(0) = {}
    OBVIOUS
  <2>2. IsFiniteSet({}) /\ Cardinality({}) = 0
    BY FS_EmptySet
  <2>3. Len(f[0]) = 0
    BY <1>1
  <2>4. IsFiniteSet(M(0)) /\ Cardinality(M(0)) = Len(f[0])
    BY <2>1, <2>2, <2>3
  <2> HIDE DEF M
  <2> QED BY <1>n, <1>s, <2>4
<1>3. ASSUME NEW k \in 0 .. n - 1, k \in S
      PROVE  k + 1 \in S
  <2>1. k + 1 \in 0 .. n /\ k + 1 \in 1 .. n /\ (k + 1) - 1 = k /\ k \in 0 .. n /\ k \in Nat
    BY <1>n
  <2>2. f[k + 1] = IF Own(P, k + 1, t, c) THEN Append(f[k], P[k + 1].char) ELSE f[k]
    BY <1>1, <1>n, <2>1
  <2>3. IsFiniteSet(M(k)) /\ Cardinality(M(k)) = Len(f[k])
    <3> HIDE DEF M
    <3> QED BY <1>3, <1>s
  <2>4. CASE Own(P, k + 1, t, c)
    <3>1. M(k + 1) = M(k) \union {k + 1} /\ k + 1 \notin M(k)
      BY <2>1, <2>4
    <3>2. IsFiniteSet(M(k) \union {k + 1}) /\ Cardinality(M(k) \union {k + 1}) = Cardinality(M(k)) + 1
      <4> HIDE DEF M
      <4> QED BY <2>3, <3>1, FS_AddElement
    <3>3. Len(f[k + 1]) = Len(f[k]) + 1
      <4>1. P[k + 1] \in Entries
        BY <1>n, <2>1
      <4>2. P[k + 1].char \in Chars
        BY <4>1 DEF Entries
      <4>3. f[k] \in Seq(Chars)
        BY <1>y, <2>1
      <4>4. f[k + 1] = Append(f[k], P[k + 1].char)
        BY <2>2, <2>4
      <4> QED BY <4>2, <4>3, <4>4, AppendProperties
    <3> HIDE DEF M
    <3> QED BY <1>s, <2>1, <2>3, <3>1, <3>2, <3>3
  <2>5. CASE ~ Own(P, k + 1, t, c)
    <3>1. M(k + 1) = M(k)
      BY <2>1, <2>5
    <3>2. f[k + 1] = f[k]
      BY <2>2, <2>5
    <3> HIDE DEF M
    <3> QED BY <1>s, <2>1, <2>3, <3>1, <3>2
  <2> QED BY <2>4, <2>5
<1>4. \A k \in 0 .. n : k \in S
  <2> HIDE DEF M
  <2> QED BY <1>2, <1>3, <1>n, UpTo
<1>5. Cardinality(M(n)) = Len(f[n])
  <2> HIDE DEF M
  <2> QED BY <1>4, <1>n, <1>s
<1>6. Mine(t, c) = M(n)
  BY <1>n, <1>p DEF Mine, Own
<1> HIDE DEF M
<1> QED BY <1>1, <1>5, <1>6, <1>n, <1>p, <1>y

\* One more character on the paper
LEMMA SpokenAppend ==
  ASSUME NEW P \in Seq(Entries), NEW e \in Entries, NEW t, NEW c
  PROVE  Spoken(Append(P, e), t, c) = IF e.thread = t /\ e.call = c THEN Append(Spoken(P, t, c), e.char)
                                                                 ELSE Spoken(P, t, c)
<1>n. PICK n \in Nat : n = Len(P)
  OBVIOUS
<1>q. PICK Q : Q = Append(P, e)
  OBVIOUS
<1>1. Q \in Seq(Entries) /\ Len(Q) = n + 1 /\ Q[n + 1] = e /\ \A i \in 1 .. n : Q[i] = P[i]
  BY <1>n, <1>q, AppendProperties
<1>2. PICK f : /\ f[0] = <<>> /\ Spoken(P, t, c) = f[Len(P)]
               /\ \A k \in 1 .. Len(P) : f[k] = IF Own(P, k, t, c) THEN Append(f[k - 1], P[k].char) ELSE f[k - 1]
  BY SpeaksSteps
<1>3. PICK g : /\ g[0] = <<>> /\ Spoken(Q, t, c) = g[Len(Q)]
               /\ \A k \in 1 .. Len(Q) : g[k] = IF Own(Q, k, t, c) THEN Append(g[k - 1], Q[k].char) ELSE g[k - 1]
  BY <1>1, SpeaksSteps
<1>s. PICK S : S = {k \in 0 .. n : g[k] = f[k]}
  OBVIOUS
<1>4. 0 \in S
  BY <1>2, <1>3, <1>n, <1>s
<1>5. ASSUME NEW k \in 0 .. n - 1, k \in S
      PROVE  k + 1 \in S
  <2>1. k + 1 \in 0 .. n /\ k + 1 \in 1 .. n /\ k + 1 \in 1 .. n + 1 /\ (k + 1) - 1 = k
    BY <1>n
  <2>2. g[k + 1] = IF Own(Q, k + 1, t, c) THEN Append(g[k], Q[k + 1].char) ELSE g[k]
    BY <1>1, <1>3, <2>1
  <2>3. f[k + 1] = IF Own(P, k + 1, t, c) THEN Append(f[k], P[k + 1].char) ELSE f[k]
    BY <1>2, <1>n, <2>1
  <2>4. g[k] = f[k] /\ Q[k + 1] = P[k + 1]
    BY <1>1, <1>5, <1>s, <2>1
  <2>5. g[k + 1] = f[k + 1]
    BY <2>2, <2>3, <2>4 DEF Own
  <2> QED BY <1>s, <2>1, <2>5
<1>6. \A k \in 0 .. n : k \in S
  BY <1>4, <1>5, <1>n, UpTo
<1>7. g[n] = f[n]
  BY <1>6, <1>n, <1>s
<1>8. g[n + 1] = IF Own(Q, n + 1, t, c) THEN Append(g[n], Q[n + 1].char) ELSE g[n]
  <2>1. n + 1 \in 1 .. n + 1 /\ (n + 1) - 1 = n
    BY <1>n
  <2> QED BY <1>1, <1>3, <2>1
<1> QED BY <1>1, <1>2, <1>3, <1>7, <1>8, <1>n, <1>q DEF Own

----------------------------------------------------------------------------
(* A hex conversion that nobody disturbs                                   *)

\* The settings before the k-th are in the globals G.
Agrees(p, G, k) ==
    /\ k > 1 => G.flag = p.flag
    /\ k > 2 => G.digits_max = p.width
    /\ k > 3 => G.sign = p.sign
    /\ (k > 4 /\ p.width # 0) => G.complement = p.fill

\* How far the conversion is
Converting(L, G) ==
    /\ L.pc = "set" => Agrees(L.piece, G, L.k)
    /\ L.pc \in {"digits", "pad", "sign"} => Agrees(L.piece, G, 5)
    /\ L.pc = "digits" => \E d \in Seq(0 .. 15) : /\ Numeral(L.n, 16) \o d = Numeral(L.piece.n, 16)
                                                  /\ L.str = Glyphs(d, Tab(L.piece.flag))
    /\ L.pc = "pad" => \E m \in 0 .. Missing(L.piece) :
                          L.str = Filled(m, L.piece.fill) \o HexDigits(L.piece)
    /\ L.pc = "sign" => L.str = Filled(Missing(L.piece), L.piece.fill) \o HexDigits(L.piece)

\* The settings of a piece, one by one
LEMMA SettingsAre ==
  ASSUME NEW p
  PROVE  /\ Settings(p)[1] = <<"flag", p.flag>> /\ Settings(p)[2] = <<"digits_max", p.width>>
         /\ Settings(p)[3] = <<"sign", p.sign>>
         /\ p.width = 0 => Len(Settings(p)) = 3
         /\ p.width # 0 => Len(Settings(p)) = 4 /\ Settings(p)[4] = <<"complement", p.fill>>
<1>1. PICK a, b, c, d : /\ a = <<"flag", p.flag>> /\ b = <<"digits_max", p.width>>
                        /\ c = <<"sign", p.sign>> /\ d = <<"complement", p.fill>>
  OBVIOUS
<1>2. CASE p.width = 0
  <2>1. Settings(p) = <<a, b, c>> \o <<>>
    BY <1>1, <1>2 DEF Settings
  <2>2. PICK s : s = <<a, b, c>> \o <<>>
    OBVIOUS
  <2>3. Len(s) = 3 /\ s[1] = a /\ s[2] = b /\ s[3] = c
    BY <2>2
  <2> QED BY <1>1, <1>2, <2>1, <2>2, <2>3
<1>3. CASE p.width # 0
  <2>1. Settings(p) = <<a, b, c>> \o <<d>>
    BY <1>1, <1>3 DEF Settings
  <2>2. PICK s : s = <<a, b, c>> \o <<d>>
    OBVIOUS
  <2>3. Len(s) = 4 /\ s[1] = a /\ s[2] = b /\ s[3] = c /\ s[4] = d
    BY <2>2
  <2> QED BY <1>1, <1>3, <2>1, <2>2, <2>3
<1> QED BY <1>2, <1>3

\* A global is set.
LEMMA SetOneConverts ==
  ASSUME NEW t, NEW L, NEW N, WellFormed(L), DOMAIN hex = Globals, SetOne(t, L, N), Converting(L, hex)
  PROVE  Converting(N, hex') /\ N.pc \in {"set", "digits"} /\ N.piece = L.piece
<1>p. PICK p, k : p = L.piece /\ k = L.k
  OBVIOUS
<1>1. p \in Pieces /\ p.kind = "x" /\ k \in 1 .. 4 /\ k <= Len(Settings(p)) /\ L.pc = "set"
  BY <1>p DEF SetOne, WellFormed, ThreadOK
<1>2. Agrees(p, hex, k)
  BY <1>1, <1>p DEF Converting
<1>s. PICK s : s = Settings(p)[k]
  OBVIOUS
<1>3. hex' = [hex EXCEPT ![s[1]] = s[2]]
  BY <1>p, <1>s, Zenon DEF SetOne
<1>n. PICK n : n = Len(Settings(p))
  OBVIOUS
<1>w. n \in Nat /\ n >= 3 /\ (p.width # 0 => n = 4) /\ (p.width = 0 => n = 3)
  <2>1. (p.width # 0 => n = 4) /\ (p.width = 0 => n = 3)
    BY <1>n, SettingsAre
  <2> QED BY <2>1
<1>4. Agrees(p, hex', k + 1) /\ (k = n => Agrees(p, hex', 5))
  <2>1. CASE k = 1
    <3>1. s[1] = "flag" /\ s[2] = p.flag
      BY <1>s, <2>1, SettingsAre
    <3>2. k # n
      BY <1>w, <2>1
    <3> QED BY <1>2, <1>3, <2>1, <3>1, <3>2 DEF Agrees, Globals
  <2>2. CASE k = 2
    <3>1. s[1] = "digits_max" /\ s[2] = p.width
      BY <1>s, <2>2, SettingsAre
    <3>2. k # n
      BY <1>w, <2>2
    <3> QED BY <1>2, <1>3, <2>2, <3>1, <3>2 DEF Agrees, Globals
  <2>3. CASE k = 3
    <3>1. s[1] = "sign" /\ s[2] = p.sign
      BY <1>s, <2>3, SettingsAre
    <3>2. p.width # 0 => k # n
      BY <1>w, <2>3
    <3> QED BY <1>2, <1>3, <2>3, <3>1, <3>2 DEF Agrees, Globals
  <2>4. CASE k = 4
    <3>1. p.width # 0
      BY <1>1, <1>n, <1>w, <2>4
    <3>2. s[1] = "complement" /\ s[2] = p.fill
      BY <1>s, <2>4, <3>1, SettingsAre
    <3> QED BY <1>2, <1>3, <2>4, <3>2 DEF Agrees, Globals
  <2> QED BY <1>1, <2>1, <2>2, <2>3, <2>4
<1>5. CASE L.k < Len(Settings(L.piece))
  <2>1. N.pc = "set" /\ N.k = k + 1 /\ N.piece = p
    BY <1>5, <1>p DEF SetOne
  <2> QED BY <1>4, <1>p, <2>1 DEF Converting
<1>6. CASE ~ (L.k < Len(Settings(L.piece)))
  <2>1. N.pc = "digits" /\ N.n = p.n /\ N.str = <<>> /\ N.piece = p
    BY <1>6, <1>p DEF SetOne
  <2>2. k = n
    BY <1>1, <1>6, <1>n, <1>p, <1>w
  <2>3. Numeral(p.n, 16) \in Seq(0 .. 15) /\ Tab(p.flag) \in Tables /\ <<>> \in Seq(0 .. 15)
    BY <1>1, HexParts
  <2>4. Numeral(p.n, 16) \o <<>> = Numeral(p.n, 16)
    BY <2>3, ConcatEmptySeq
  <2>5. Glyphs(<<>>, Tab(p.flag)) = <<>>
    <3>1. Glyphs(<<>>, Tab(p.flag)) \in Seq(Chars) /\ Len(Glyphs(<<>>, Tab(p.flag))) = Len(<<>>)
      BY <2>3, GlyphsType
    <3> QED BY <3>1
  <2>6. \E d \in Seq(0 .. 15) : Numeral(N.n, 16) \o d = Numeral(N.piece.n, 16) /\ N.str = Glyphs(d, Tab(N.piece.flag))
    BY <2>1, <2>3, <2>4, <2>5
  <2> QED BY <1>4, <1>p, <2>1, <2>2, <2>6 DEF Converting
<1> QED BY <1>5, <1>6

\* A digit
LEMMA AddedDigitConverts ==
  ASSUME NEW L, NEW N, WellFormed(L), AddedDigit(L, N), Converting(L, hex)
  PROVE  Converting(N, hex') /\ N.pc \in {"digits", "pad"} /\ N.piece = L.piece
<1>p. PICK p, n, q, r, tab : p = L.piece /\ n = L.n /\ q = L.n \div 16 /\ r = L.n % 16 /\ tab = Tab(L.piece.flag)
  OBVIOUS
<1>1. p \in Pieces /\ p.kind = "x" /\ n \in Nat /\ L.pc = "digits" /\ N.piece = p /\ hex' = hex
  BY <1>p DEF AddedDigit, WellFormed, ThreadOK
<1>2. Agrees(p, hex, 5)
  BY <1>1, <1>p DEF Converting
<1>d. PICK d \in Seq(0 .. 15) : Numeral(n, 16) \o d = Numeral(p.n, 16) /\ L.str = Glyphs(d, tab)
  BY <1>1, <1>p DEF Converting
<1>3. r \in 0 .. 15 /\ q \in Nat /\ tab \in Tables /\ Numeral(p.n, 16) \in Seq(0 .. 15)
  <2>1. q \in Nat /\ r \in 0 .. 15
    <3>1. \A m \in Nat : m % 16 \in 0 .. 15 /\ m \div 16 \in Nat
      OBVIOUS
    <3> QED BY <1>1, <1>p, <3>1
  <2> QED BY <1>1, <1>p, <2>1, HexParts
<1>4. N.str = <<tab[r + 1]>> \o L.str
  <2>1. N.str = <<(IF hex.flag = "x" THEN Digits ELSE Upper)[(L.n % 16) + 1]>> \o L.str
    BY Zenon DEF AddedDigit
  <2>2. hex.flag = p.flag
    BY <1>2 DEF Agrees
  <2>3. (IF hex.flag = "x" THEN Digits ELSE Upper) = tab
    BY <1>p, <2>2 DEF Tab
  <2> QED BY <1>p, <2>1, <2>3, Zenon
<1>e. PICK e : e = <<r>> \o d
  OBVIOUS
<1>5. N.str = Glyphs(e, tab) /\ e \in Seq(0 .. 15)
  <2>1. Glyphs(<<r>> \o d, tab) = <<tab[r + 1]>> \o Glyphs(d, tab)
    BY <1>3, <1>d, GlyphsCons
  <2>2. <<r>> \in Seq(0 .. 15)
    BY <1>3
  <2>3. <<r>> \o d \in Seq(0 .. 15)
    BY <1>d, <2>2, ConcatProperties
  <2> QED BY <1>4, <1>d, <1>e, <2>1, <2>3
<1>6. Numeral(n, 16) = IF n < 16 THEN <<n>> ELSE Append(Numeral(q, 16), r)
  <2>1. 16 \in Nat /\ 16 >= 2
    OBVIOUS
  <2>2. Numeral(n, 16) = IF n < 16 THEN <<n>> ELSE Append(Numeral(n \div 16, 16), n % 16)
    BY <1>1, <2>1, NumeralRule
  <2> QED BY <1>p, <2>2, Zenon
<1>7. CASE q = 0
  <2>1. n < 16 /\ r = n
    <3>1. \A m \in Nat : m \div 16 = 0 => m < 16 /\ m % 16 = m
      OBVIOUS
    <3> QED BY <1>1, <1>7, <1>p, <3>1
  <2>2. e = Numeral(p.n, 16)
    BY <1>6, <1>d, <1>e, <2>1
  <2>3. N.pc = "pad"
    BY <1>7, <1>p DEF AddedDigit
  <2>4. N.str = HexDigits(p)
    BY <1>5, <1>p, <2>2 DEF HexDigits
  <2>5. N.str = Filled(0, p.fill) \o HexDigits(p)
    <3>1. HexDigits(p) \in Seq(Chars)
      BY <1>1, HexParts
    <3>2. Filled(0, p.fill) = <<>>
      <4>1. p.fill \in Chars
        BY <1>1, HexParts
      <4>2. Filled(0, p.fill) \in Seq(Chars) /\ Len(Filled(0, p.fill)) = 0
        BY <4>1, FilledType
      <4> QED BY <4>2
    <3> QED BY <2>4, <3>1, <3>2, ConcatEmptySeq
  <2>6. 0 \in 0 .. Missing(p)
    BY <1>1, HexParts
  <2> QED BY <1>1, <1>2, <1>p, <2>3, <2>5, <2>6 DEF Converting
<1>8. CASE q # 0
  <2>1. ~ (n < 16)
    <3>1. \A m \in Nat : m < 16 => m \div 16 = 0
      OBVIOUS
    <3> QED BY <1>1, <1>8, <1>p, <3>1
  <2>2. N.pc = "digits" /\ N.n = q
    BY <1>8, <1>p DEF AddedDigit
  <2>3. Numeral(q, 16) \o e = Numeral(p.n, 16)
    <3>s. PICK s : s = Numeral(q, 16)
      OBVIOUS
    <3>1. s \in Seq(0 .. 15)
      BY <1>3, <3>s, NumeralType
    <3>2. <<r>> \in Seq(0 .. 15) /\ Append(s, r) = s \o <<r>>
      BY <1>3, <3>1
    <3>3. (s \o <<r>>) \o d = s \o (<<r>> \o d)
      BY <1>d, <3>1, <3>2, ConcatAssociative
    <3>4. Numeral(n, 16) = Append(s, r)
      BY <1>6, <2>1, <3>s
    <3> QED BY <1>d, <1>e, <3>2, <3>3, <3>4, <3>s
  <2>4. \E x \in Seq(0 .. 15) : Numeral(N.n, 16) \o x = Numeral(N.piece.n, 16) /\ N.str = Glyphs(x, Tab(N.piece.flag))
    BY <1>1, <1>5, <1>p, <2>2, <2>3
  <2> QED BY <1>1, <1>2, <1>p, <2>2, <2>4 DEF Converting
<1> QED BY <1>7, <1>8

\* A fill character, or no more of them
LEMMA FilledUpConverts ==
  ASSUME NEW L, NEW N, WellFormed(L), FilledUp(L, N), Converting(L, hex)
  PROVE  Converting(N, hex') /\ N.pc \in {"pad", "sign"} /\ N.piece = L.piece
<1>p. PICK p : p = L.piece
  OBVIOUS
<1>1. p \in Pieces /\ p.kind = "x" /\ L.pc = "pad" /\ N.piece = p /\ hex' = hex
  BY <1>p DEF FilledUp, WellFormed, ThreadOK
<1>2. Agrees(p, hex, 5)
  BY <1>1, <1>p DEF Converting
<1>g. PICK g, l, w, M, c : g = HexDigits(p) /\ l = Len(Numeral(p.n, 16)) /\ w = p.width /\ M = Missing(p) /\ c = p.fill
  OBVIOUS
<1>3. g \in Seq(Chars) /\ Len(g) = l /\ l \in Nat /\ w \in Nat /\ M \in Nat /\ c \in Chars
  BY <1>1, <1>g, HexParts
<1>4. M = IF l < w THEN w - l ELSE 0
  BY <1>g DEF Missing
<1>m. PICK m \in 0 .. M : L.str = Filled(m, c) \o g
  BY <1>1, <1>g, <1>p DEF Converting
<1>5. m \in Nat /\ Filled(m, c) \in Seq(Chars) /\ Len(Filled(m, c)) = m /\ Filled(m + 1, c) = <<c>> \o Filled(m, c)
  <2>1. m \in Nat
    BY <1>3, <1>m
  <2> QED BY <1>3, <2>1, FilledType
<1>6. Len(L.str) = m + l
  BY <1>3, <1>5, <1>m, ConcatProperties
<1>7. hex.digits_max = w /\ (w # 0 => hex.complement = c)
  BY <1>2, <1>g DEF Agrees
<1>8. CASE m + l < w
  <2>1. w # 0 /\ m + 1 \in 0 .. M
    BY <1>3, <1>4, <1>5, <1>8
  <2>2. N.pc = "pad" /\ N.str = <<hex.complement>> \o L.str
    BY <1>6, <1>7, <1>8 DEF FilledUp
  <2>3. <<c>> \in Seq(Chars)
    BY <1>3
  <2>4. (<<c>> \o Filled(m, c)) \o g = <<c>> \o (Filled(m, c) \o g)
    BY <1>3, <1>5, <2>3, ConcatAssociative
  <2>5. N.str = Filled(m + 1, c) \o g
    BY <1>5, <1>7, <1>m, <2>1, <2>2, <2>4
  <2> QED BY <1>1, <1>2, <1>g, <1>p, <2>1, <2>2, <2>5 DEF Converting
<1>9. CASE ~ (m + l < w)
  <2>1. m = M
    BY <1>3, <1>4, <1>5, <1>9, <1>m
  <2>2. N.pc = "sign" /\ N.str = L.str
    BY <1>6, <1>7, <1>9 DEF FilledUp
  <2> QED BY <1>1, <1>2, <1>g, <1>m, <1>p, <2>1, <2>2 DEF Converting
<1> QED BY <1>8, <1>9

\* The sign, and the conversion is what it has to be.
LEMMA SignedConverts ==
  ASSUME NEW L, NEW N, WellFormed(L), Signed0x(L, N), Converting(L, hex)
  PROVE  N.str = Meaning(L.piece)
<1>p. PICK p : p = L.piece
  OBVIOUS
<1>1. p \in Pieces /\ p.kind = "x" /\ L.pc = "sign"
  BY <1>p DEF Signed0x, WellFormed, ThreadOK
<1>2. Agrees(p, hex, 5) /\ L.str = Filled(Missing(p), p.fill) \o HexDigits(p)
  BY <1>1, <1>p DEF Converting
<1>3. hex.sign = p.sign
  BY <1>2 DEF Agrees
<1>4. N.str = IF p.sign = "#" THEN <<"0", "x">> \o L.str ELSE L.str
  BY <1>3, Zenon DEF Signed0x
<1>5. L.str \in Seq(Chars)
  BY DEF WellFormed, ThreadOK
<1>6. <<>> \o L.str = L.str
  BY <1>5, ConcatEmptySeq
<1>7. N.str = Sign(p) \o L.str
  BY <1>4, <1>6 DEF Sign
<1>8. Meaning(p) = Sign(p) \o (Filled(Missing(p), p.fill) \o HexDigits(p))
  BY <1>1, HexMeaning
<1> QED BY <1>2, <1>7, <1>8, <1>p

----------------------------------------------------------------------------
(* What printf writes                                                      *)

\* A thread that converts a number for %x is at one of these.
HexPlaces == {"set", "digits", "pad", "sign"}

\* i pieces of the format are taken, the others are to be printed.
TakenUpTo(L, i) ==
    Len(L.todo) = Len(L.format) - i /\ \A j \in 1 .. Len(L.todo) : L.todo[j] = L.format[i + j]

\* S, which the call has written, and what it is about to write are the
\* meaning of these pieces.
SaidUpTo(L, S, G, W, i) ==
    /\ L.pc = "format" => S = W[i]
    /\ L.pc \in {"print", "putchar"} => S \o L.text = W[i]
    /\ L.pc = "str" => S \o L.str = W[i]
    /\ L.pc \in HexPlaces => i > 0 /\ L.piece = L.format[i] /\ S = W[i - 1] /\ Converting(L, G)

\* The call is over.
AllSaid(L, S, W) ==
    IF L.ret = -1 THEN Len(S) <= INT_MAX /\ Len(W[Len(L.format)]) > INT_MAX
                  ELSE S = W[Len(L.format)]

\* A thread with variables L that nobody disturbed
Exact(L, S, G) ==
    /\ L.format \in Formats
    /\ \E W : /\ Wanted(W, L.format)
              /\ IF L.pc = "idle" THEN AllSaid(L, S, W)
                 ELSE \E i \in 0 .. Len(L.format) : TakenUpTo(L, i) /\ SaidUpTo(L, S, G, W, i)

\* The inductive invariant of PrintfExact
Precise ==
    /\ Lengths
    /\ \A t \in Threads : (t \notin muddled /\ th[t].calls > 0)
                             => Exact(th[t], Spoken(paper, t, th[t].calls), hex)

\* The next piece is the one after those taken.
LEMMA TakesNext ==
  ASSUME NEW L, NEW N, ThreadOK(L), ThreadOK(N), NEW i \in 0 .. Len(L.format), TakenUpTo(L, i),
         L.todo # <<>>, N.format = L.format, N.todo = Tail(L.todo)
  PROVE  /\ i + 1 \in 1 .. Len(L.format) /\ Head(L.todo) = L.format[i + 1]
         /\ TakenUpTo(N, i + 1)
<1>1. PICK s \in Seq(Pieces), f \in Seq(Pieces) : s = L.todo /\ f = L.format
  BY DEF ThreadOK
<1>2. Len(s) = Len(f) - i /\ s # <<>> /\ i \in 0 .. Len(f) /\ \A j \in 1 .. Len(s) : s[j] = f[i + j]
  BY <1>1 DEF TakenUpTo
<1>n. PICK n \in Nat, m \in Nat : n = Len(f) /\ m = Len(s)
  OBVIOUS
<1>3. m > 0 /\ n - i = m /\ i \in Nat
  BY <1>2, <1>n
<1>4. i + 1 \in 1 .. n
  BY <1>3, <1>n
<1>5. Head(s) = f[i + 1]
  <2>1. Head(s) = s[1] /\ 1 \in 1 .. Len(s)
    BY <1>2, <1>3, <1>n
  <2> QED BY <1>2, <2>1
<1>r. PICK r : r = Tail(s)
  OBVIOUS
<1>6. r \in Seq(Pieces) /\ Len(r) = m - 1 /\ \A j \in 1 .. m - 1 : r[j] = s[j + 1]
  BY <1>2, <1>n, <1>r, HeadTailProperties
<1>7. ASSUME NEW j \in 1 .. m - 1
      PROVE  r[j] = f[(i + 1) + j]
  <2>1. j + 1 \in 1 .. m /\ i + (j + 1) = (i + 1) + j
    BY <1>3, <1>n
  <2>2. s[j + 1] = f[i + (j + 1)]
    BY <1>2, <1>n, <2>1
  <2> QED BY <1>6, <2>1, <2>2
<1>8. Len(r) = n - (i + 1)
  BY <1>3, <1>6, <1>n
<1>9. N.todo = r /\ N.format = f
  BY <1>1, <1>r
<1>10. TakenUpTo(N, i + 1)
  BY <1>6, <1>7, <1>8, <1>9, <1>n DEF TakenUpTo
<1> QED BY <1>1, <1>4, <1>5, <1>10, <1>n

\* A text that does not fit makes the whole longer than INT_MAX.
LEMMA TooLong ==
  ASSUME NEW f \in Seq(Pieces), NEW W, Wanted(W, f), NEW i \in 0 .. Len(f),
         NEW S \in Seq(Chars), NEW s \in Seq(Chars), W[i] = S \o s,
         Len(S) <= INT_MAX, ~ (Len(s) <= INT_MAX - Len(S))
  PROVE  Len(W[Len(f)]) > INT_MAX
<1>1. Len(W[i]) = Len(S) + Len(s)
  BY ConcatProperties
<1>2. Len(W[i]) <= Len(W[Len(f)])
  BY WantedGrows
<1>3. W[Len(f)] \in Seq(Chars)
  <2>1. Len(f) \in Nat
    OBVIOUS
  <2>2. Len(f) \in 0 .. Len(f)
    BY <2>1
  <2> QED BY <2>2 DEF Wanted
<1>4. PICK a, b, c, d : a = Len(S) /\ b = Len(s) /\ c = Len(W[Len(f)]) /\ d = Len(W[i])
  OBVIOUS
<1>5. a \in Nat /\ b \in Nat /\ c \in Nat /\ d = a + b /\ d <= c /\ ~ (b <= INT_MAX - a) /\ INT_MAX \in Nat
  BY <1>1, <1>2, <1>3, <1>4, Constants
<1>6. c > INT_MAX
  BY <1>5
<1> QED BY <1>4, <1>6

\* A step of printf outside print keeps to the format.
LEMMA QuietExact ==
  ASSUME NEW t \in Threads, NEW L, NEW N, WellFormed(L), Quiet(t, L, N), DOMAIN hex = Globals,
         NEW S \in Seq(Chars), Counts(L, Len(S)), Small(L, Len(S)), Exact(L, S, hex)
  PROVE  Exact(N, S, hex')
<1>0. ThreadOK(L) /\ ThreadOK(N) /\ WellFormed(N) /\ L.pc \notin {"idle", "print", "putchar"}
  BY DEF Quiet, WellFormed
<1>1. N.format = L.format
  BY DEF Quiet, Fails, Ends, Starts, Computes, Kept
<1>2. (N.pc # "idle" /\ L.pc = "format") => L.todo # <<>> /\ N.todo = Tail(L.todo)
  BY DEF Quiet, Fails, Ends, Starts, Computes, Takes
<1>3. (N.pc # "idle" /\ L.pc # "format") => N.todo = L.todo
  BY DEF Quiet, Fails, Ends, Starts, Computes
<1>f. PICK f \in Formats : f = L.format
  BY DEF Exact
<1>w. PICK W : Wanted(W, f) /\ \E i \in 0 .. Len(f) : TakenUpTo(L, i) /\ SaidUpTo(L, S, hex, W, i)
  BY <1>0, <1>f DEF Exact
<1>i. PICK i \in 0 .. Len(f) : TakenUpTo(L, i) /\ SaidUpTo(L, S, hex, W, i)
  BY <1>w
<1>4. f \in Seq(Pieces) /\ Len(f) \in Nat
  <2>1. f \in Seq(Pieces)
    BY <1>f, FormatsAssumption
  <2> QED BY <2>1
<1>5. \A j \in 1 .. Len(f) : W[j] = W[j - 1] \o Meaning(f[j]) /\ f[j] \in Pieces
  <2>1. \A j \in 1 .. Len(f) : f[j] \in Pieces
    BY <1>4
  <2>2. \A j \in 1 .. Len(f) : W[j] = W[j - 1] \o Meaning(f[j])
    BY <1>w DEF Wanted
  <2> QED BY <2>1, <2>2
<1>6. Len(S) <= INT_MAX /\ L.written = Len(S)
  <2>1. Len(S) <= INT_MAX /\ L.written = int(Len(S)) /\ Len(S) \in Nat
    BY <1>0 DEF Small, Counts
  <2>2. Len(S) \in Ints
    BY <2>1, Constants DEF Ints
  <2> QED BY <2>1, <2>2, IntFacts
<1>7. ASSUME NEW j \in 0 .. Len(f), TakenUpTo(N, j), SaidUpTo(N, S, hex', W, j), N.pc # "idle"
      PROVE  Exact(N, S, hex')
  BY <1>1, <1>7, <1>f, <1>w DEF Exact
<1>8. ASSUME N.pc = "idle", AllSaid(N, S, W)
      PROVE  Exact(N, S, hex')
  BY <1>1, <1>8, <1>f, <1>w DEF Exact
<1>9. (N.pc # "idle" /\ L.pc # "format") => TakenUpTo(N, i)
  BY <1>1, <1>3, <1>i DEF TakenUpTo
<1>10. CASE Took(L, N)
  <2>p. PICK p : p = Head(L.todo)
    OBVIOUS
  <2>1. L.pc = "format" /\ L.todo # <<>>
    BY <1>10 DEF Took
  <2>2. S = W[i]
    BY <1>i, <2>1 DEF SaidUpTo
  <2>m. PICK M : M = [L EXCEPT !.todo = Tail(L.todo)]
    OBVIOUS
  <2>3. ThreadOK(M) /\ M.format = L.format /\ M.todo = Tail(L.todo)
    <3>1. Tail(L.todo) \in Seq(Pieces)
      BY <1>0, <2>1, HeadTailProperties DEF ThreadOK
    <3> QED BY <1>0, <2>m, <3>1 DEF ThreadOK, Fields
  <2>4. i + 1 \in 1 .. Len(f) /\ p = f[i + 1] /\ TakenUpTo(M, i + 1)
    BY <1>0, <1>f, <1>i, <2>1, <2>3, <2>p, TakesNext
  <2>5. N.pc # "idle" => TakenUpTo(N, i + 1)
    BY <1>1, <1>2, <2>1, <2>3, <2>4 DEF TakenUpTo
  <2>6. i + 1 \in 0 .. Len(f) /\ (i + 1) - 1 = i /\ i + 1 > 0
    BY <1>4, <1>i, <2>4
  <2>7. p \in Pieces /\ W[i + 1] = S \o Meaning(p)
    BY <1>5, <2>2, <2>4, <2>6
  <2>8. CASE p.kind \in {"text", "c"} /\ N.pc = "print" /\ N.text = p.text
    <3>1. Meaning(p) = p.text
      BY <2>7, <2>8, TextMeaning
    <3>2. SaidUpTo(N, S, hex', W, i + 1)
      BY <2>7, <2>8, <3>1 DEF SaidUpTo, HexPlaces
    <3> QED BY <1>7, <2>5, <2>6, <2>8, <3>2
  <2>9. CASE /\ p.kind \in {"text", "c"} /\ N.pc = "idle" /\ N.ret = -1
             /\ ~ (Len(p.text) <= (INT_MAX - L.written) % WordSize)
    <3>1. Meaning(p) = p.text /\ p.text \in Seq(Chars)
      BY <2>7, <2>9, TextMeaning, PieceFacts
    <3>2. Len(S) \in 0 .. INT_MAX
      BY <1>6, Constants
    <3>3. ~ (Len(p.text) <= INT_MAX - Len(S))
      BY <1>6, <2>9, <3>2, Remaining
    <3>s. PICK s : s = p.text
      OBVIOUS
    <3>4. Len(W[Len(f)]) > INT_MAX
      <4>1. W[i + 1] = S \o s /\ s \in Seq(Chars) /\ ~ (Len(s) <= INT_MAX - Len(S))
        BY <2>7, <3>1, <3>3, <3>s
      <4> QED BY <1>4, <1>6, <1>w, <2>6, <4>1, TooLong
    <3>5. AllSaid(N, S, W)
      BY <1>1, <1>6, <1>f, <2>9, <3>4 DEF AllSaid
    <3> QED BY <1>8, <2>9, <3>5
  <2>10. CASE p.kind \in {"s", "other"} /\ N.pc = "str" /\ N.str = p.text
    <3>1. Meaning(p) = p.text
      BY <2>7, <2>10, TextMeaning
    <3>2. SaidUpTo(N, S, hex', W, i + 1)
      BY <2>7, <2>10, <3>1 DEF SaidUpTo, HexPlaces
    <3> QED BY <1>7, <2>5, <2>6, <2>10, <3>2
  <2>11. CASE p.kind = "d" /\ N.pc = "str" /\ N.str = int2string(p.n)
    <3>1. Meaning(p) = N.str
      BY <2>7, <2>11, SignedMeaning
    <3>2. SaidUpTo(N, S, hex', W, i + 1)
      BY <2>7, <2>11, <3>1 DEF SaidUpTo, HexPlaces
    <3> QED BY <1>7, <2>5, <2>6, <2>11, <3>2
  <2>12. CASE p.kind = "x" /\ N.pc = "set" /\ N.piece = p /\ N.k = 1
    <3>1. Converting(N, hex')
      BY <2>12 DEF Converting, Agrees
    <3>2. SaidUpTo(N, S, hex', W, i + 1)
      BY <1>1, <1>f, <2>2, <2>4, <2>6, <2>12, <3>1 DEF SaidUpTo, HexPlaces
    <3> QED BY <1>7, <2>5, <2>6, <2>12, <3>2
  <2> QED BY <1>10, <2>8, <2>9, <2>10, <2>11, <2>12, <2>p, Zenon DEF Took
<1>11. CASE TookStr(L, N)
  <2>1. L.pc = "str" /\ L.str \in Seq(Chars)
    BY <1>0, <1>11 DEF TookStr, ThreadOK
  <2>2. W[i] = S \o L.str
    BY <1>i, <2>1 DEF SaidUpTo
  <2>3. CASE N.pc = "print" /\ N.text = L.str
    <3>1. SaidUpTo(N, S, hex', W, i)
      BY <2>2, <2>3 DEF SaidUpTo, HexPlaces
    <3> QED BY <1>7, <1>9, <1>i, <2>1, <2>3, <3>1
  <2>4. CASE N.pc = "idle" /\ N.ret = -1 /\ ~ (Len(L.str) <= L.maxrem)
    <3>1. L.maxrem \in Nat
      BY <1>0, Constants DEF ThreadOK
    <3>2. L.str # <<>>
      <4>1. SUFFICES ASSUME L.str = <<>> PROVE FALSE
        OBVIOUS
      <4>2. Len(L.str) = 0
        BY <4>1
      <4> QED BY <2>4, <3>1, <4>2
    <3>3. L.maxrem = INT_MAX - Len(S)
      BY <2>1, <3>2 DEF Small
    <3>s. PICK s : s = L.str
      OBVIOUS
    <3>4. Len(W[Len(f)]) > INT_MAX
      <4>1. W[i] = S \o s /\ s \in Seq(Chars) /\ ~ (Len(s) <= INT_MAX - Len(S))
        BY <2>1, <2>2, <2>4, <3>3, <3>s
      <4> QED BY <1>4, <1>6, <1>i, <1>w, <4>1, TooLong
    <3>5. AllSaid(N, S, W)
      BY <1>1, <1>6, <1>f, <2>4, <3>4 DEF AllSaid
    <3> QED BY <1>8, <2>4, <3>5
  <2> QED BY <1>11, <2>3, <2>4 DEF TookStr
<1>12. CASE Finished(L, N)
  <2>1. L.pc = "format" /\ L.todo = <<>> /\ N.pc = "idle" /\ N.ret = Len(S)
    BY <1>6, <1>12 DEF Finished
  <2>2. i = Len(f)
    <3>1. Len(L.todo) = 0 /\ Len(L.todo) = Len(f) - i
      BY <1>f, <1>i, <2>1 DEF TakenUpTo
    <3> QED BY <1>4, <1>i, <3>1
  <2>3. S = W[Len(f)]
    BY <1>i, <2>1, <2>2 DEF SaidUpTo
  <2>4. N.ret # -1
    <3>1. Len(S) \in Nat
      OBVIOUS
    <3> QED BY <2>1, <3>1
  <2>5. AllSaid(N, S, W)
    BY <1>1, <1>f, <2>3, <2>4 DEF AllSaid
  <2> QED BY <1>8, <2>1, <2>5
<1>c. L.pc \in HexPlaces => i > 0 /\ L.piece = f[i] /\ S = W[i - 1] /\ Converting(L, hex)
  BY <1>f, <1>i DEF SaidUpTo
<1>13. ASSUME L.pc \in HexPlaces, N.pc \in HexPlaces, N.piece = L.piece, Converting(N, hex')
       PROVE  Exact(N, S, hex')
  <2>1. SaidUpTo(N, S, hex', W, i)
    BY <1>1, <1>13, <1>c, <1>f DEF SaidUpTo, HexPlaces
  <2>2. N.pc # "idle" /\ L.pc # "format"
    BY <1>13 DEF HexPlaces
  <2> QED BY <1>7, <1>9, <1>i, <2>1, <2>2
<1>14. CASE SetOne(t, L, N)
  <2>1. L.pc = "set" /\ L.pc \in HexPlaces
    BY <1>14 DEF SetOne, HexPlaces
  <2>2. Converting(N, hex') /\ N.pc \in {"set", "digits"} /\ N.piece = L.piece
    BY <1>14, <1>c, <2>1, SetOneConverts
  <2> QED BY <1>13, <2>1, <2>2 DEF HexPlaces
<1>15. CASE AddedDigit(L, N)
  <2>1. L.pc = "digits" /\ L.pc \in HexPlaces
    BY <1>15 DEF AddedDigit, HexPlaces
  <2>2. Converting(N, hex') /\ N.pc \in {"digits", "pad"} /\ N.piece = L.piece
    BY <1>15, <1>c, <2>1, AddedDigitConverts
  <2> QED BY <1>13, <2>1, <2>2 DEF HexPlaces
<1>16. CASE FilledUp(L, N)
  <2>1. L.pc = "pad" /\ L.pc \in HexPlaces
    BY <1>16 DEF FilledUp, HexPlaces
  <2>2. Converting(N, hex') /\ N.pc \in {"pad", "sign"} /\ N.piece = L.piece
    BY <1>16, <1>c, <2>1, FilledUpConverts
  <2> QED BY <1>13, <2>1, <2>2 DEF HexPlaces
<1>17. CASE Signed0x(L, N)
  <2>1. L.pc = "sign" /\ L.pc \in HexPlaces /\ N.pc = "str"
    BY <1>17 DEF Signed0x, HexPlaces
  <2>2. N.str = Meaning(L.piece)
    BY <1>17, <1>c, <2>1, SignedConverts
  <2>3. i \in 1 .. Len(f)
    BY <1>4, <1>c, <1>i, <2>1
  <2>4. S \o N.str = W[i]
    BY <1>5, <1>c, <2>1, <2>2, <2>3
  <2>5. SaidUpTo(N, S, hex', W, i)
    BY <2>1, <2>4 DEF SaidUpTo, HexPlaces
  <2> QED BY <1>7, <1>9, <1>i, <2>1, <2>5
<1> QED BY <1>10, <1>11, <1>12, <1>14, <1>15, <1>16, <1>17 DEF Quiet, Does

\* The globals matter to a conversion only.
LEMMA ExactAnyGlobals ==
  ASSUME NEW L, NEW S, NEW G, NEW H, Exact(L, S, G), L.pc \notin HexPlaces
  PROVE  Exact(L, S, H)
<1>w. PICK W : /\ Wanted(W, L.format)
               /\ IF L.pc = "idle" THEN AllSaid(L, S, W)
                  ELSE \E i \in 0 .. Len(L.format) : TakenUpTo(L, i) /\ SaidUpTo(L, S, G, W, i)
  BY DEF Exact
<1>1. CASE L.pc = "idle"
  BY <1>1, <1>w DEF Exact
<1>2. CASE L.pc # "idle"
  <2>1. PICK i \in 0 .. Len(L.format) : TakenUpTo(L, i) /\ SaidUpTo(L, S, G, W, i)
    BY <1>2, <1>w
  <2>2. SaidUpTo(L, S, H, W, i)
    BY <2>1 DEF SaidUpTo
  <2> QED BY <1>2, <1>w, <2>1, <2>2 DEF Exact
<1> QED BY <1>1, <1>2

\* A call begins with its whole format.
LEMMA CalledExact ==
  ASSUME NEW L, NEW N, NEW f \in Formats, Called(L, N, f), NEW G
  PROVE  Exact(N, <<>>, G)
<1>1. N.pc = "format" /\ N.format = f /\ N.todo = f /\ f \in Seq(Pieces)
  BY FormatsAssumption DEF Called
<1>2. Len(f) \in Nat
  BY <1>1
<1>3. PICK W : Wanted(W, f)
  BY <1>1, WantedExists
<1>4. TakenUpTo(N, 0)
  BY <1>1, <1>2 DEF TakenUpTo
<1>5. SaidUpTo(N, <<>>, G, W, 0)
  BY <1>1, <1>3 DEF SaidUpTo, Wanted, HexPlaces
<1>6. 0 \in 0 .. Len(f)
  BY <1>2
<1> QED BY <1>1, <1>3, <1>4, <1>5, <1>6 DEF Exact

\* The steps of print
LEMMA PrintExact ==
  ASSUME NEW L, NEW N, WellFormed(L), SameCall(L, N), NEW S \in Seq(Chars), NEW R, NEW G, Exact(L, S, G),
         L.pc \in {"print", "putchar"}, N.pc \in {"putchar", "format", "str"}, Small(L, Len(S)),
         \/ N.pc = "putchar" /\ L.pc = "print" /\ N.text = L.text /\ R = S
         \/ N.pc = "putchar" /\ L.text # <<>> /\ N.text = Tail(L.text) /\ R = Append(S, Head(L.text))
         \/ N.pc = L.then /\ L.text = <<>> /\ R = S
  PROVE  Exact(N, R, G)
<1>1. PICK W : /\ Wanted(W, L.format)
               /\ \E i \in 0 .. Len(L.format) : TakenUpTo(L, i) /\ SaidUpTo(L, S, G, W, i)
  BY DEF Exact
<1>2. PICK i \in 0 .. Len(L.format) : TakenUpTo(L, i) /\ SaidUpTo(L, S, G, W, i)
  BY <1>1
<1>3. N.format = L.format /\ N.todo = L.todo /\ N.str = L.str
  BY DEF SameCall, Kept
<1>4. TakenUpTo(N, i)
  BY <1>2, <1>3 DEF TakenUpTo
<1>5. S \o L.text = W[i] /\ L.text \in Seq(Chars)
  BY <1>2 DEF SaidUpTo, WellFormed, ThreadOK
<1>6. SUFFICES SaidUpTo(N, R, G, W, i)
  BY <1>1, <1>2, <1>3, <1>4, <1>6 DEF Exact
<1>7. CASE N.pc = "putchar" /\ L.pc = "print" /\ N.text = L.text /\ R = S
  BY <1>5, <1>7 DEF SaidUpTo, HexPlaces
<1>8. CASE N.pc = "putchar" /\ L.text # <<>> /\ N.text = Tail(L.text) /\ R = Append(S, Head(L.text))
  <2>s. PICK s, c, r : s = L.text /\ c = Head(L.text) /\ r = Tail(L.text)
    OBVIOUS
  <2>1. c \in Chars /\ r \in Seq(Chars) /\ s \in Seq(Chars)
    BY <1>5, <1>8, <2>s, HeadTailProperties
  <2>2. s = <<c>> \o r
    BY <1>5, <1>8, <2>s
  <2>3. <<c>> \in Seq(Chars) /\ Append(S, c) = S \o <<c>>
    BY <2>1
  <2>4. (S \o <<c>>) \o r = S \o (<<c>> \o r)
    BY <2>1, <2>3, ConcatAssociative
  <2>5. R \o N.text = W[i]
    BY <1>5, <1>8, <2>2, <2>3, <2>4, <2>s
  <2> QED BY <1>8, <2>5 DEF SaidUpTo, HexPlaces
<1>9. CASE N.pc = L.then /\ L.text = <<>> /\ R = S
  <2>1. S \o <<>> = S
    BY ConcatEmptySeq
  <2>2. S = W[i]
    BY <1>5, <1>9, <2>1
  <2>3. L.then = "str" => L.str = <<>>
    BY DEF Small
  <2>4. N.pc = "format" \/ (N.pc = "str" /\ N.str = <<>>)
    <3>1. L.then \in {"format", "str"}
      BY DEF WellFormed, ThreadOK
    <3> QED BY <1>3, <1>9, <2>3, <3>1
  <2> QED BY <1>9, <2>1, <2>2, <2>4 DEF SaidUpTo, HexPlaces
<1> QED BY <1>7, <1>8, <1>9

\* Each step keeps it.
LEMMA PreciseNext ==
  ASSUME Precise, [Next]_vars
  PROVE  Precise'
<1>0. Lengths /\ Lengths' /\ Shaped /\ InTurn /\ paper \in Seq(Entries)
  BY LengthsNext DEF Precise, Lengths, InTurn, Shaped
<1>w. DOMAIN hex = Globals /\ DOMAIN th = Threads /\ \A u \in Threads : WellFormed(th[u])
  BY <1>0 DEF Shaped
<1> DEFINE Sp(u) == Spoken(paper, u, th[u].calls)
           Fine(u) == (u \notin muddled /\ th[u].calls > 0) => Exact(th[u], Sp(u), hex)
<1>f. \A u \in Threads : Fine(u)
  BY DEF Precise
<1>s. SUFFICES ASSUME NEW u \in Threads PROVE Fine(u)'
  BY <1>0 DEF Precise
<1>1. CASE UNCHANGED <<th, paper, muddled, hex>>
  BY <1>1, <1>f
<1>2. ASSUME NEW t \in Threads, NEW N, Moves(t, N)
      PROVE  Fine(u)'
  <2>1. th'[t] = N /\ \A v \in Threads \ {t} : th'[v] = th[v]
    BY <1>2 DEF Moves, Changed
  <2>2. CASE u # t
    <3>1. th'[u] = th[u]
      BY <2>1, <2>2
    <3>2. u \notin muddled' => u \notin muddled
      BY <1>2, <2>2 DEF Moves, Quiet, CallMove, BeginMove, EndMove, PutMove
    <3>3. Spoken(paper', u, th[u].calls) = Sp(u)
      <4>1. CASE paper' = paper
        BY <4>1
      <4>2. CASE \E e \in Entries : e.thread = t /\ paper' = Append(paper, e)
        BY <1>0, <2>2, <4>2, SpokenAppend
      <4> QED BY <1>2, <4>1, <4>2 DEF Moves, Quiet, CallMove, BeginMove, EndMove, PutMove
    <3>4. hex' = hex \/ u \in muddled' \/ th[u].pc \notin HexPlaces
      <4>1. CASE Quiet(t, th[t], N)
        <5>1. hex' = hex \/ SetOne(t, th[t], N)
          BY <4>1 DEF Quiet, Does, Took, TookStr, Finished, AddedDigit, FilledUp, Signed0x
        <5> QED BY <2>2, <5>1 DEF SetOne, InHex, HexPlaces
      <4> QED BY <1>2, <4>1 DEF Moves, CallMove, BeginMove, EndMove, PutMove
    <3>5. (u \notin muddled' /\ th[u].calls > 0) => Exact(th[u], Sp(u), hex')
      <4> HIDE DEF Sp
      <4> QED BY <1>f, <3>2, <3>4, ExactAnyGlobals
    <3> QED BY <3>1, <3>3, <3>5
  <2>3. CASE u = t
    <3>l. PICK L, S : L = th[t] /\ S = Sp(t)
      OBVIOUS
    <3>1. S \in Seq(Chars) /\ Len(S) = Cardinality(Mine(t, L.calls)) /\ WellFormed(L)
      BY <1>0, <1>w, <3>l, SpokenLength
    <3>2. Counts(L, Len(S)) /\ (t \notin muddled => Small(L, Len(S)))
      BY <1>0, <3>1, <3>l DEF Lengths, Repeats
    <3>3. (t \notin muddled /\ L.calls > 0) => Exact(L, S, hex)
      <4> HIDE DEF Sp
      <4> QED BY <1>f, <3>l
    <3>4. SUFFICES ASSUME t \notin muddled', N.calls > 0
                   PROVE  Exact(N, Spoken(paper', t, N.calls), hex')
      BY <2>1, <2>3
    <3>5. ASSUME paper' = paper, N.calls = L.calls
          PROVE  Spoken(paper', t, N.calls) = S
      BY <3>5, <3>l
    <3>6. CASE Quiet(t, th[t], N)
      <4>1. paper' = paper /\ N.calls = L.calls /\ t \notin muddled
        BY <3>4, <3>6, <3>l DEF Quiet, Fails, Ends, Starts, Computes, Kept
      <4>2. Exact(L, S, hex) /\ Small(L, Len(S)) /\ Quiet(t, L, N)
        BY <3>2, <3>3, <3>4, <3>6, <3>l, <4>1
      <4>3. Exact(N, S, hex')
        BY <1>w, <3>1, <3>2, <4>2, QuietExact
      <4> QED BY <3>5, <4>1, <4>3
    <3>7. CASE \E f \in Formats : CallMove(t, N, f)
      <4>1. PICK f \in Formats : CallMove(t, N, f)
        BY <3>7
      <4>2. Called(L, N, f) /\ paper' = paper /\ N.calls = L.calls + 1 /\ L.calls \in Nat
        BY <3>1, <3>l, <4>1 DEF CallMove, Called, WellFormed, ThreadOK
      <4>3. \A i \in DOMAIN paper : ~ Own(paper, i, t, N.calls)
        <5>1. \A i \in DOMAIN paper : paper[i].thread = t => paper[i].call <= L.calls
          BY <1>0, <3>l DEF InTurn, OnPaper
        <5>2. \A i \in DOMAIN paper : paper[i] \in Entries
          BY <1>0
        <5>3. \A i \in DOMAIN paper : paper[i].call \in Nat
          BY <5>2 DEF Entries
        <5>4. \A i \in DOMAIN paper : paper[i].thread = t => paper[i].call # N.calls
          BY <4>2, <5>1, <5>3
        <5> QED BY <5>4 DEF Own
      <4>4. Spoken(paper', t, N.calls) = <<>>
        BY <1>0, <4>2, <4>3, SpokenNone
      <4>5. Exact(N, <<>>, hex')
        BY <4>1, <4>2, CalledExact
      <4> QED BY <4>4, <4>5
    <3>8. CASE BeginMove(t, N)
      <4>1. /\ paper' = paper /\ N.calls = L.calls /\ hex' = hex /\ muddled' = muddled /\ SameCall(L, N)
            /\ L.pc = "print" /\ N.pc = "putchar" /\ N.text = L.text
        BY <3>8, <3>l DEF BeginMove, SameCall, Kept
      <4>2. Exact(L, S, hex) /\ Small(L, Len(S))
        BY <3>2, <3>3, <3>4, <4>1
      <4>3. Exact(N, S, hex)
        BY <3>1, <4>1, <4>2, PrintExact
      <4> QED BY <3>5, <4>1, <4>3
    <3>9. CASE EndMove(t, N)
      <4>1. /\ paper' = paper /\ N.calls = L.calls /\ hex' = hex /\ muddled' = muddled /\ SameCall(L, N)
            /\ L.pc = "putchar" /\ N.pc = L.then /\ L.text = <<>> /\ N.pc \in {"format", "str"}
        BY <3>1, <3>9, <3>l DEF EndMove, SameCall, Kept, WellFormed, ThreadOK
      <4>2. Exact(L, S, hex) /\ Small(L, Len(S))
        BY <3>2, <3>3, <3>4, <4>1
      <4>3. Exact(N, S, hex)
        BY <3>1, <4>1, <4>2, PrintExact
      <4> QED BY <3>5, <4>1, <4>3
    <3>10. CASE \E e : PutMove(t, N, e)
      <4>1. PICK e : PutMove(t, N, e)
        BY <3>10
      <4>2. /\ N.calls = L.calls /\ hex' = hex /\ muddled' = muddled /\ SameCall(L, N)
            /\ L.pc = "putchar" /\ N.pc = "putchar" /\ L.text # <<>> /\ N.text = Tail(L.text)
            /\ e \in Entries /\ e.thread = t /\ e.call = L.calls /\ e.char = Head(L.text)
            /\ paper' = Append(paper, e)
        BY <3>l, <4>1 DEF PutMove, SameCall, Kept
      <4>3. Exact(L, S, hex) /\ Small(L, Len(S))
        BY <3>2, <3>3, <3>4, <4>2
      <4>r. PICK R : R = Append(S, Head(L.text))
        OBVIOUS
      <4>4. Spoken(paper', t, N.calls) = R
        BY <1>0, <3>l, <4>2, <4>r, SpokenAppend
      <4>5. Exact(N, R, hex)
        BY <3>1, <4>2, <4>3, <4>r, PrintExact
      <4> QED BY <4>2, <4>4, <4>5
    <3> QED BY <1>2, <3>6, <3>7, <3>8, <3>9, <3>10 DEF Moves
  <2> QED BY <2>2, <2>3
<1> QED BY <1>0, <1>1, <1>2, NextStepped DEF Stepped, Swap, printing

\* A call of printf that nobody disturbs writes what its format means, number
\* by number and text by text, and fails only when that is too long: for every
\* format, any size of int and whatever the other threads print.
THEOREM PrintfMeans == Spec => []PrintfExact
<1>1. Init => Precise
  <2>1. SUFFICES ASSUME Init PROVE Precise
    OBVIOUS
  <2>2. \A t \in Threads : th[t].calls = 0
    BY <2>1, IdleThread DEF Init
  <2>3. Lengths
    BY <2>1, LengthsInit
  <2>4. \A t \in Threads : ~ (th[t].calls > 0)
    BY <2>2
  <2> QED BY <2>3, <2>4 DEF Precise
<1>2. Precise /\ [Next]_vars => Precise'
  BY PreciseNext
<1>3. Precise => PrintfExact
  <2>1. SUFFICES ASSUME Precise, NEW t \in Threads, At(t, "idle"), th[t].calls > 0, t \notin muddled
                 PROVE  IF th[t].ret = -1
                           THEN Len(Said(t)) <= INT_MAX /\ Len(Expected[th[t].format]) > INT_MAX
                           ELSE Said(t) = Expected[th[t].format]
    BY DEF PrintfExact
  <2>l. PICK L, S : L = th[t] /\ S = Spoken(paper, t, th[t].calls)
    OBVIOUS
  <2>2. Exact(L, S, hex) /\ L.pc = "idle"
    BY <2>1, <2>l DEF Precise, At
  <2>3. L.format \in Formats
    BY <2>2 DEF Exact
  <2>4. PICK W : Wanted(W, L.format) /\ AllSaid(L, S, W)
    BY <2>2 DEF Exact
  <2>5. Expected[L.format] = W[Len(L.format)]
    BY <2>3, <2>4, WantedIs
  <2>6. Said(t) = S
    BY <2>l, SaidIs
  <2> QED BY <2>4, <2>5, <2>6, <2>l DEF AllSaid
<1> QED BY <1>1, <1>2, <1>3, PTL DEF Spec
=============================================================================
