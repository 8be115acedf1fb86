--------------------------- MODULE MCBrowseLaunch ---------------------------
EXTENDS BrowseLaunch

CONSTANTS c1, c2

\* Every two commands, up to which invocation has which; two pages also with
\* different flags.
Pair(a, b) == [c \in {c1, c2} |-> <<IF c = c1 THEN a ELSE b, "plain">>]
Flagged(a, b) == [c \in {c1, c2} |-> IF c = c1 THEN <<a, "plain">> ELSE <<b, "headed">>]
AllPairs ==
    {Pair("page", k) : k \in Command}
    \union {Pair("stop", k) : k \in {"stop", "connect", "disconnect"}}
    \union {Pair("connect", "disconnect")}
    \union {Pair("connect", "connect"), Pair("disconnect", "disconnect")}
    \union {Flagged("page", "page")}
TwoPages == {Pair("page", "page")}
=============================================================================
