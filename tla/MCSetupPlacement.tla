--------------------------- MODULE MCSetupPlacement ---------------------------
(***************************************************************************)
(* Two setups and a rule for SetupPlacement.  The second version of tools  *)
(* moves its hook to another event, adds a script and a server and drops   *)
(* its statusLine; it shares an event with guard, which has a statusLine   *)
(* as well.                                                                *)
(***************************************************************************)
EXTENDS SetupPlacement

CONSTANTS tools, guard, style, tools1, tools2, guard1, style1, run, check, pre, post, docs, logs, scan

Packages == {tools, guard, style}
RulePackages == {style}
Bundles == {tools1, tools2, guard1, style1}
Files == {run, check}
Events == {pre, post}
Names == {docs, logs, scan}

Contents ==
    [b \in Bundles |->
        CASE b = tools1 -> [owner |-> tools, scripts |-> <<run>>, events |-> {pre},
                            line |-> TRUE, mcps |-> <<docs>>]
          [] b = tools2 -> [owner |-> tools, scripts |-> <<run, check>>, events |-> {post},
                            line |-> FALSE, mcps |-> <<docs, logs>>]
          [] b = guard1 -> [owner |-> guard, scripts |-> <<run>>, events |-> {pre},
                            line |-> TRUE, mcps |-> <<scan>>]
          [] b = style1 -> [owner |-> style, scripts |-> <<>>, events |-> {},
                            line |-> FALSE, mcps |-> <<>>]]

\* acme/tools, acme/guard and style: none is a prefix of another.
Siblings == [r \in Packages |-> {r}]

\* Everywhere but between a codex server and the record of its owner.
Recorded == Tasks \ {"recordOwner"}

===============================================================================
