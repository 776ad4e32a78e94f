------------------------------ MODULE Console ------------------------------
(***************************************************************************)
(* What threads print and what the screen shows: printf of libc/stdio,     *)
(* whose print takes io_lock for each piece of text; the terminal of       *)
(* kernel/kernel/terminal.c, which draws into a buffer and rolls it; and   *)
(* swap_buffer of vbe.c, a timer's callback that copies it to the screen.  *)
(*                                                                         *)
(* Threads are preempted between any two actions. A format is a sequence   *)
(* of pieces with their arguments; characters are strings, "nl" is '\n'.   *)
(* The buffer has a row per line of pixels, and in it a cell per column of *)
(* characters: blank, or one line of the glyph of a character.             *)
(***************************************************************************)
EXTENDS Integers, Sequences, FiniteSets, SequencesExt

CONSTANTS
    Threads,
    Chars,      \* the characters of a program
    Formats,    \* what threads print, sequences of pieces
    Calls,      \* bound: how many calls of printf each thread makes
    Yres,       \* lines of pixels of the screen
    FontHeight, \* lines of pixels of a character
    Cols,       \* characters in a row: Xres / font->width
    HexWidth,   \* the width of the formats with a width, 8
    INT_MAX,
    WordSize    \* size_t is computed modulo it, 2 * INT_MAX + 2

Rows == Yres \div FontHeight

ASSUME ConsoleAssumption ==
    /\ FontHeight \in Nat \ {0} /\ Yres \in Nat /\ Yres >= FontHeight
    /\ Cols \in Nat \ {0} /\ HexWidth \in Nat /\ Calls \in Nat
    /\ INT_MAX \in Nat /\ WordSize = 2 * INT_MAX + 2

\* An int that overflows wraps round.
int(n) == ((n + INT_MAX + 1) % WordSize) - (INT_MAX + 1)

\* The pieces of a format. Formats whose width is 0 do not say what to fill with.
Text(s)    == [kind |-> "text", text |-> s]
Char(c)    == [kind |-> "c", text |-> <<c>>]
Str(s)     == [kind |-> "s", text |-> s]
Signed(n)  == [kind |-> "d", n |-> n]
Hex(flag, width, fill, sign, n) ==
    [kind |-> "x", flag |-> flag, width |-> width, fill |-> fill, sign |-> sign, n |-> n]
Unknown(s) == [kind |-> "other", text |-> s]

VARIABLES
    vbe_buffer, charX, charY,  \* the terminal: main_terminal and its pixels
    vram,                      \* what the screen shows
    owners, waiting, try,      \* io_lock, see SleepingMutex
    broken,                    \* history: a tick fell between a failed retry and its sleep
    hex,                       \* the globals hex_flag, hex_digits_max, hex_complement, format_sign
    th,                        \* the threads: their local variables
    paper,                     \* history: <<thread, text, character>> in the order written
    muddled                    \* history: the threads whose call met another's globals, or
                               \* repeated a text

term  == <<vbe_buffer, charX, charY>>
waits == <<waiting, try, broken>>
vars  == <<vbe_buffer, charX, charY, vram, owners, hex, th, paper, muddled, waits>>

io_lock == INSTANCE SleepingMutex

Blank  == <<>>
Lines  == 0 .. Yres - 1
Clear  == [y \in Lines |-> [x \in 0 .. Cols - 1 |-> Blank]]

NoPiece == [kind |-> "none"]

\* The variables of a thread. Those from todo on last as long as its call.
Idle == [pc |-> "idle", calls |-> 0, format |-> <<>>, ret |-> 0,  \* its calls of printf
         todo |-> <<>>, written |-> 0, maxrem |-> 0, str |-> <<>>,
         text |-> <<>>, texts |-> 0, then |-> "format",  \* print: what is left, how many
                                                         \* texts, where to go on
         piece |-> NoPiece, k |-> 1, n |-> 0]            \* a hex conversion

\* init_vbe, init_main_terminal; no thread has called printf yet
Init ==
    /\ vbe_buffer = Clear /\ charX = 0 /\ charY = 0 /\ vram = Clear
    /\ io_lock!Init
    /\ hex = [flag |-> "x", digits_max |-> 0, complement |-> "0", sign |-> "#"]
    /\ th = [t \in Threads |-> Idle]
    /\ paper = <<>> /\ muddled = {}

----------------------------------------------------------------------------
(* terminal.c                                                              *)

\* A bug to be caught: the last row keeps its old pixels.
rolled_Unblanked(B) == [y \in Lines |-> IF y + FontHeight < Yres THEN B[y + FontHeight] ELSE B[y]]

\* main_terminal_roll: up by a row of characters, and the last FontHeight lines
\* of the screen blank
rolled(B) ==
    [y \in Lines |-> IF y < Yres - FontHeight THEN B[y + FontHeight] ELSE Clear[y]]

\* main_terminal_newline
newline(B) ==
    /\ charX' = 0
    /\ IF charY + 1 = Rows
          THEN vbe_buffer' = rolled(B) /\ charY' = Rows - 1
          ELSE vbe_buffer' = B /\ charY' = charY + 1

\* The buffer with the glyph of c at the cursor
drawn(c) ==
    [y \in Lines |->
        IF y \div FontHeight = charY
           THEN [vbe_buffer[y] EXCEPT ![charX] = <<c, y % FontHeight>>]
           ELSE vbe_buffer[y]]

main_terminal_putchar(c) ==
    IF c = "nl" THEN newline(vbe_buffer)
    ELSE IF charX + 1 = Cols THEN newline(drawn(c))
    ELSE vbe_buffer' = drawn(c) /\ charX' = charX + 1 /\ UNCHANGED charY

\* swap_buffer, in the timer interrupt
Swap ==
    /\ vram' = vbe_buffer
    /\ UNCHANGED <<term, owners, hex, th, paper, muddled, waits>>

----------------------------------------------------------------------------
(* print: a text under io_lock, character by character                     *)

At(t, place) == th[t].pc = place

\* The thread, with local variables L, goes on to print s and then to `then' ...
Prints(L, s, then) == [L EXCEPT !.pc = "print", !.text = s, !.texts = @ + 1, !.then = then]

\* ... or returns from printf.
Returns(L, value) == [Idle EXCEPT !.calls = L.calls, !.format = L.format, !.ret = value]

\* A bug to be caught: nobody waits for the mutex.
Lock_Not(t) == owners' = owners \union {t} /\ UNCHANGED waits

Lock(t) == io_lock!Acquire(t)

PrintBegin(t) ==
    /\ At(t, "print") /\ Lock(t)
    /\ th' = [th EXCEPT ![t].pc = "putchar"]
    /\ UNCHANGED <<term, vram, hex, paper, muddled>>

\* The thread cannot have io_lock.
PrintWait(t) ==
    /\ At(t, "print") /\ (io_lock!Block(t) \/ io_lock!Fail(t) \/ io_lock!SleepAgain(t))
    /\ UNCHANGED <<term, vram, hex, th, paper, muddled>>

Putchar(t) ==
    /\ At(t, "putchar") /\ th[t].text # <<>>
    /\ main_terminal_putchar(Head(th[t].text))
    /\ th' = [th EXCEPT ![t].text = Tail(@), ![t].written = int(@ + 1)]
    /\ paper' = Append(paper, [thread |-> t, call |-> th[t].calls, text |-> th[t].texts,
                               char |-> Head(th[t].text)])
    /\ UNCHANGED <<vram, owners, hex, muddled>>

Unlock(t) == io_lock!Release(t)

PrintEnd(t) ==
    /\ At(t, "putchar") /\ th[t].text = <<>> /\ Unlock(t)
    /\ th' = [th EXCEPT ![t].pc = th[t].then]
    /\ UNCHANGED <<term, vram, hex, paper, muddled>>

----------------------------------------------------------------------------
(* printf                                                                  *)

Digits == <<"0", "1", "2", "3", "4", "5", "6", "7", "8", "9", "a", "b", "c", "d", "e", "f">>
Upper  == <<"0", "1", "2", "3", "4", "5", "6", "7", "8", "9", "A", "B", "C", "D", "E", "F">>

Ints == -(INT_MAX + 1) .. INT_MAX

\* The pieces of formats: a %c has one character, numbers fit their type.
Pieces ==
    [kind : {"text", "s", "other"}, text : Seq(Chars)]
      \union [kind : {"c"}, text : [1 .. 1 -> Chars]]
      \union [kind : {"d"}, n : Ints]
      \union [kind : {"x"}, flag : {"x", "X"}, width : {0, HexWidth}, fill : {" ", "0"},
              sign : {" ", "#"}, n : 0 .. WordSize - 1]

ASSUME FormatsAssumption ==
    /\ {"-", " ", "x"} \union {Digits[i] : i \in 1 .. 16} \union {Upper[i] : i \in 1 .. 16} \subseteq Chars
    /\ Formats \subseteq Seq(Pieces)

uint2string[n \in 0 .. INT_MAX + 1] ==
    IF n < 10 THEN <<Digits[n + 1]>> ELSE Append(uint2string[n \div 10], Digits[(n % 10) + 1])

\* The detour keeps the least integer in range.
int2string(n) == IF n < 0 THEN <<"-">> \o uint2string[(0 - (n + 1)) + 1] ELSE uint2string[n]

Call(t, format) ==
    /\ At(t, "idle") /\ th[t].calls < Calls
    /\ th' = [th EXCEPT ![t].pc = "format", ![t].calls = @ + 1, ![t].format = format,
                        ![t].todo = format]
    /\ muddled' = muddled \ {t}
    /\ UNCHANGED <<term, vram, owners, hex, paper>>

\* A conversion that leaves its result in str; maxrem is computed before it.
Converts(L, p) ==
    CASE p.kind \in {"s", "other"} -> [L EXCEPT !.pc = "str", !.str = p.text]
      [] p.kind = "d" -> [L EXCEPT !.pc = "str", !.str = int2string(p.n)]
      [] p.kind = "x" -> [L EXCEPT !.pc = "set", !.piece = p]
      [] OTHER -> L

\* A bug to be caught: one character too many fits.
Fits_OneMore(L, len) == len <= L.maxrem + 1

Fits(L, len) == len <= L.maxrem

\* The next piece of the format. After a %c what str holds of an earlier
\* piece is printed too.
Format(t) ==
    /\ At(t, "format") /\ th[t].todo # <<>>
    /\ LET p == Head(th[t].todo)
           L == [th[t] EXCEPT !.todo = Tail(@), !.maxrem = (INT_MAX - th[t].written) % WordSize]
       IN  /\ th' = [th EXCEPT ![t] =
                CASE p.kind = "text" -> IF Fits(L, Len(p.text)) THEN Prints(L, p.text, "format")
                                                               ELSE Returns(L, -1)
                  [] p.kind = "c"    -> IF Fits(L, 1) THEN Prints(L, p.text, "str")
                                                      ELSE Returns(L, -1)
                  [] OTHER           -> Converts(L, p)]
           /\ muddled' = IF p.kind = "c" /\ L.str # <<>> THEN muddled \union {t} ELSE muddled
    /\ UNCHANGED <<term, vram, owners, hex, paper>>

PrintStr(t) ==
    /\ At(t, "str")
    /\ th' = [th EXCEPT ![t] = IF Fits(@, Len(@.str)) THEN Prints(@, @.str, "format") ELSE Returns(@, -1)]
    /\ UNCHANGED <<term, vram, owners, hex, paper, muddled>>

Return(t) ==
    /\ At(t, "format") /\ th[t].todo = <<>>
    /\ th' = [th EXCEPT ![t] = Returns(@, @.written)]
    /\ UNCHANGED <<term, vram, owners, hex, paper, muddled>>

----------------------------------------------------------------------------
(* The hex formats: printf sets the globals one by one, hex2string reads   *)
(* them, all without the lock.                                             *)

InHex(t) == th[t].pc \in {"set", "digits", "pad", "sign"}

\* A bug to be caught: hex_digits_max keeps the width of the format before.
Settings_NoWidth(p) ==
    <<<<"flag", p.flag>>, <<"sign", p.sign>>>>
      \o (IF p.width = 0 THEN <<>> ELSE <<<<"digits_max", p.width>>, <<"complement", p.fill>>>>)

\* What piece p sets, in order
Settings(p) ==
    <<<<"flag", p.flag>>, <<"digits_max", p.width>>, <<"sign", p.sign>>>>
      \o (IF p.width = 0 THEN <<>> ELSE <<<<"complement", p.fill>>>>)

HexSet(t) ==
    /\ At(t, "set")
    /\ LET p == th[t].piece
           s == Settings(p)[th[t].k]
       IN  /\ hex' = [hex EXCEPT ![s[1]] = s[2]]
           /\ th' = [th EXCEPT ![t] =
                 IF th[t].k < Len(Settings(p)) THEN [th[t] EXCEPT !.k = @ + 1]
                 ELSE [th[t] EXCEPT !.pc = "digits", !.k = 1, !.n = p.n, !.str = <<>>]]
    /\ muddled' = muddled \union {u \in Threads \ {t} : InHex(u) /\ hex' # hex}
    /\ UNCHANGED <<term, vram, owners, paper>>

HexDigit(t) ==
    /\ At(t, "digits")
    /\ LET digit == (IF hex.flag = "x" THEN Digits ELSE Upper)[(th[t].n % 16) + 1]
           rest  == th[t].n \div 16
       IN  th' = [th EXCEPT ![t].str = <<digit>> \o @, ![t].n = rest,
                            ![t].pc = IF rest = 0 THEN "pad" ELSE @]
    /\ UNCHANGED <<term, vram, owners, hex, paper, muddled>>

HexPad(t) ==
    /\ At(t, "pad")
    /\ th' = [th EXCEPT ![t] = IF Len(@.str) < hex.digits_max
                                  THEN [th[t] EXCEPT !.str = <<hex.complement>> \o @]
                                  ELSE [th[t] EXCEPT !.pc = "sign"]]
    /\ UNCHANGED <<term, vram, owners, hex, paper, muddled>>

HexSign(t) ==
    /\ At(t, "sign")
    /\ th' = [th EXCEPT ![t].pc = "str", ![t].piece = NoPiece,
                        ![t].str = IF hex.sign = "#" THEN <<"0", "x">> \o @ ELSE @]
    /\ UNCHANGED <<term, vram, owners, hex, paper, muddled>>

----------------------------------------------------------------------------
\* Thread t has the processor: no thread is left in the middle of its way to
\* sleep, but by Tick.
OnCpu(t) == broken \/ \A u \in Threads \ {t} : try[u] # "failed"

\* task_schedule, called by the timer, takes the processor from such a thread.
Tick ==
    /\ ~broken /\ \E t \in Threads : try[t] = "failed"
    /\ broken' = TRUE /\ waiting' = {}
    /\ UNCHANGED <<term, vram, owners, try, hex, th, paper, muddled>>

\* What a thread does without io_lock, or with it
Works(t) ==
    \/ Format(t) \/ PrintStr(t) \/ Return(t)
    \/ HexSet(t) \/ HexDigit(t) \/ HexPad(t) \/ HexSign(t)
    \/ Putchar(t)

Step(t) ==
    /\ OnCpu(t)
    /\ \/ Works(t) /\ UNCHANGED waits
       \/ PrintBegin(t) \/ PrintWait(t) \/ PrintEnd(t)

Next ==
    \/ Swap \/ Tick
    \/ \E t \in Threads :
          Step(t) \/ \E f \in Formats : OnCpu(t) /\ Call(t, f) /\ UNCHANGED waits

\* The timer keeps calling swap_buffer, and every thread on the run ring gets
\* its turn: one that cannot have io_lock goes to sleep in it.
Spec ==
    /\ Init /\ [][Next]_vars
    /\ WF_vars(Swap) /\ \A t \in Threads : WF_vars(Step(t))

----------------------------------------------------------------------------
(* Properties                                                              *)

\* Every field keeps to its range: the cursor is on the screen, the globals
\* are ones of a format.
TypeOK ==
    /\ charX \in 0 .. Cols - 1 /\ charY \in 0 .. Rows - 1
    /\ DOMAIN vbe_buffer = Lines /\ DOMAIN vram = Lines
    /\ hex.flag \in {"x", "X"} /\ hex.digits_max \in {0, HexWidth}
    /\ hex.complement \in {" ", "0"} /\ hex.sign \in {" ", "#"}
    /\ \A t \in Threads : th[t].written \in Ints

\* The text on endless paper: its rows, a new one after each newline and when
\* a row is full
PaperRows ==
    LET after[k \in 0 .. Len(paper)] ==  \* the first k characters
          IF k = 0 THEN << <<>> >>
          ELSE LET rows == after[k - 1]
                   c    == paper[k].char
                   row  == IF c = "nl" THEN Last(rows) ELSE Append(Last(rows), c)
                   next == IF c = "nl" \/ Len(row) = Cols THEN << <<>> >> ELSE <<>>
               IN  Front(rows) \o <<row>> \o next
    IN  after[Len(paper)]

\* The screen is a window on the end of the paper: after any sequence of
\* characters, wraps and rolls the buffer has the last rows of what was
\* written, line of pixels by line of pixels, nothing of earlier rows is left
\* behind (also where Yres is no multiple of the font's height), and the
\* cursor is behind the last character.
ScreenIsTail ==
    LET rows == PaperRows
        top  == IF Len(rows) > Rows THEN Len(rows) - Rows ELSE 0
        cell(r, x, y) == IF top + r + 1 <= Len(rows) /\ r < Rows /\ x < Len(rows[top + r + 1])
                            THEN <<rows[top + r + 1][x + 1], y>> ELSE Blank
    IN  /\ \A y \in Lines : \A x \in 0 .. Cols - 1 :
              vbe_buffer[y][x] = cell(y \div FontHeight, x, y % FontHeight)
        /\ charY = Len(rows) - top - 1 /\ charX = Len(Last(rows))

\* Texts are not mixed: a character that is not the first of its text comes
\* right behind another of the same text, whichever threads print meanwhile.
TextsWhole ==
    LET same(i, k) == /\ paper[i].thread = paper[k].thread /\ paper[i].call = paper[k].call
                      /\ paper[i].text = paper[k].text
    IN  \A k \in DOMAIN paper : (\E i \in 1 .. k - 1 : same(i, k)) => same(k - 1, k)

\* The number that digits mean in the given base
Value(s, base) ==
    LET upto[i \in 0 .. Len(s)] == IF i = 0 THEN 0 ELSE base * upto[i - 1] + s[i]
    IN  upto[Len(s)]

\* The digits of n: of the right value, without a leading zero
Numeral(n, base) ==
    LET long(k) == {s \in [1 .. k -> 0 .. base - 1] : Value(s, base) = n /\ (k > 1 => s[1] # 0)}
    IN  CHOOSE s \in long(CHOOSE k \in 1 .. n + 1 : long(k) # {}) : TRUE

\* What the comment above printf says of a piece
Meaning(p) ==
    CASE p.kind = "d" -> (IF p.n < 0 THEN <<"-">> ELSE <<>>)
             \o [i \in DOMAIN Numeral(IF p.n < 0 THEN -p.n ELSE p.n, 10) |->
                   Digits[Numeral(IF p.n < 0 THEN -p.n ELSE p.n, 10)[i] + 1]]
      [] p.kind = "x" ->
           LET s == Numeral(p.n, 16)
           IN  (IF p.sign = "#" THEN <<"0", "x">> ELSE <<>>)
               \o [i \in 1 .. (IF Len(s) < p.width THEN p.width - Len(s) ELSE 0) |-> p.fill]
               \o [i \in DOMAIN s |-> (IF p.flag = "x" THEN Digits ELSE Upper)[s[i] + 1]]
      [] OTHER -> p.text

\* What a call has to write
Expected == [f \in Formats |-> FlattenSeq([i \in DOMAIN f |-> Meaning(f[i])])]

\* What the last call of a thread has written
Said(t) ==
    LET upto[k \in 0 .. Len(paper)] ==
          IF k = 0 THEN <<>>
          ELSE IF paper[k].thread = t /\ paper[k].call = th[t].calls
             THEN Append(upto[k - 1], paper[k].char) ELSE upto[k - 1]
    IN  upto[Len(paper)]

\* A call of printf that has returned wrote what its format means, whatever
\* the other threads printed in between, and failed only when that is more than
\* INT_MAX characters: unless another thread set the hex globals during one of
\* its conversions, or a %c repeated a text.
PrintfExact ==
    \A t \in Threads : (At(t, "idle") /\ th[t].calls > 0 /\ t \notin muddled) =>
        IF th[t].ret = -1
           THEN Len(Said(t)) <= INT_MAX /\ Len(Expected[th[t].format]) > INT_MAX
           ELSE Said(t) = Expected[th[t].format]

\* The characters of a call of printf
Mine(t, call) == {k \in DOMAIN paper : paper[k].thread = t /\ paper[k].call = call}

\* A %c of the call may have repeated a text.
Repeats(t) == t \in muddled /\ \E i \in DOMAIN th[t].format : th[t].format[i].kind = "c"

\* What printf returns, when it does not fail, is the number of characters its
\* call wrote, whatever other threads printed and whichever hex globals it met:
\* at most INT_MAX. A %c that repeats a text is not counted before it is
\* printed: then the number may be larger, and is returned wrapped to an int.
ReturnsLength ==
    TypeOK /\ \A t \in Threads : (At(t, "idle") /\ th[t].calls > 0 /\ th[t].ret # -1) =>
        LET count == Cardinality(Mine(t, th[t].calls))
        IN  th[t].ret = int(count) /\ (~Repeats(t) => count <= INT_MAX)

\* If no tick falls between a failed retry of io_lock and the sleep on it, every
\* call of printf returns, no thread is left asleep on io_lock, and when
\* printing has stopped the screen comes to show all that was written.
ShownAtLast ==
    []~broken => <>[]((\A t \in Threads : At(t, "idle")) /\ vram = vbe_buffer)
=============================================================================
