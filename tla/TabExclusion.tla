---------------------------- MODULE TabExclusion ----------------------------
(***************************************************************************)
(* What the two-tier lock of the browse daemon promises its callers        *)
(* (gstack/skills/browse/src/browser-manager.ts): calls on one tab one at  *)
(* a time, a browser-wide call alone, and everyone in the order in which   *)
(* they asked.                                                             *)
(***************************************************************************)
EXTENDS Naturals

CONSTANTS
    Tab,          \* tab ids
    Browser,      \* the scope of calls that concern the whole browser, not a tab
    MaxCalls      \* bound: calls ever made

Ticket == 1..MaxCalls
Scope == Tab \union {Browser}

VARIABLES
    scope,   \* what each call locks
    phase    \* where it is: not made, waiting, held, free

Conflict(i, k) == scope[i] = scope[k] \/ scope[i] = Browser \/ scope[k] = Browser

Init ==
    /\ scope = [k \in Ticket |-> Browser]
    /\ phase = [k \in Ticket |-> "none"]

Request(k, s) ==
    /\ phase[k] = "none"
    /\ \A i \in Ticket : i < k => phase[i] # "none"
    /\ scope' = [scope EXCEPT ![k] = s]
    /\ phase' = [phase EXCEPT ![k] = "waiting"]

Grant(k) ==
    /\ phase[k] = "waiting"
    /\ \A i \in Ticket : Conflict(i, k) =>
         /\ i < k => phase[i] = "free"
         /\ i > k => phase[i] # "held"
    /\ phase' = [phase EXCEPT ![k] = "held"]
    /\ UNCHANGED scope

\* A call that is through, or that gives up waiting.
Free(k) ==
    /\ phase[k] \in {"waiting", "held"}
    /\ phase' = [phase EXCEPT ![k] = "free"]
    /\ UNCHANGED scope

Next == \E k \in Ticket : (\E s \in Scope : Request(k, s)) \/ Grant(k) \/ Free(k)

Spec == Init /\ [][Next]_<<scope, phase>>
=============================================================================
