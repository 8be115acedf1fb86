---------------------------- MODULE MCBrowseTabs ----------------------------
EXTENDS BrowseTabs

CONSTANTS r1, r2, a1

Ask(c, w, p, g) == [cmd |-> c, who |-> w, pin |-> p, arg |-> g]

\* Requests that replace the tabs, and commands that use them.
Replacing ==
    {Ask("scale", Root, 0, 2), Ask("handoff", Root, 0, 0), Ask("load", Root, 0, 0)}
Using ==
    {Ask("newtab", w, p, 0) : w \in {Root, a1}, p \in {0, 2}}
    \union {Ask("close", Root, 0, g) : g \in {0, 1}} \union {Ask("close", a1, 2, 0)}
    \union {Ask("tab", Root, 0, 2), Ask("page", Root, 0, 0), Ask("page", a1, 2, 0),
            Ask("page", a1, 1, 0)}
Both(x, y) == [r \in {r1, r2} |-> IF r = r1 THEN x ELSE y]

\* A replacing command beside any other, or two changes of scale, or two commands
\* that use the tabs.
AllCommands ==
    {Both(x, y) : x \in Replacing, y \in Using}
    \union {Both(x, y) : x \in Using, y \in Using}
    \union {Both(Ask("scale", Root, 0, 2), y) : y \in (Replacing \ {Ask("scale", Root, 0, 2)})
                                                      \union {Ask("scale", Root, 0, 3)}}
=============================================================================
