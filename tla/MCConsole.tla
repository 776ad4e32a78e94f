------------------------------ MODULE MCConsole ------------------------------
EXTENDS Console

\* Those that the formats below print
MCChars ==
    {"nl", "-", " ", "x", "%", "t", "o", "l", "n", "g"}
        \union {Digits[i] : i \in 1 .. 16} \union {Upper[i] : i \in 1 .. 16}

\* With a width of 2, INT_MAX 9 and a screen of two rows of three characters:
\* hex formats that leave and that need each global, the least integer, more
\* than INT_MAX characters, %c before a number and after one, which it repeats
\* until written wraps round, an unknown format
MCFormats ==
    {<<Text(<<"nl">>), Hex("X", 2, "0", "#", 10)>>,
     <<Hex("x", 0, " ", " ", 11), Signed(-10)>>,
     <<Char("c"), Hex("x", 2, " ", " ", 0), Str(<<"t", "o", "o", "l", "o", "n", "g">>)>>,
     <<Text(<<"a", "b", "c">>), Signed(-10), Char("d"), Unknown(<<"%">>)>>}

\* What happens once a tick has lost a thread that waits for io_lock is left out.
UntilBroken == ~broken
=============================================================================
