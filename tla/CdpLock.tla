------------------------------ MODULE CdpLock ------------------------------
(***************************************************************************)
(* The two-tier lock around raw CDP calls: acquireTabLock and              *)
(* acquireGlobalCdpLock of browser-manager.ts, as dispatchCdpCall of       *)
(* cdp-bridge.ts uses them (gstack/skills/browse/src).                     *)
(*                                                                         *)
(* A lock is a chain of promises.  Each call takes a ticket and waits for  *)
(* the tails it finds; its own link becomes the tail, and resolves when    *)
(* what it waits for has resolved and the call has released it.            *)
(***************************************************************************)
EXTENDS Naturals

CONSTANTS Tab, Browser, MaxCalls

ASSUME LockAssumption == Browser \notin Tab /\ MaxCalls \in Nat

Ticket == 1..MaxCalls
Scope == Tab \union {Browser}

VARIABLES
    calls,     \* calls made so far
    scope,     \* the tab of each call, or Browser
    st,        \* where each call is
    waits,     \* the links each call found at the tails
    tail,      \* the last link of each tab, and of the browser; 0 is a resolved promise
    resolved   \* links that have resolved

lockVars == <<calls, scope, st, waits, tail, resolved>>

LockInit ==
    /\ calls = 0
    /\ scope = [k \in Ticket |-> Browser]
    /\ st = [k \in Ticket |-> "none"]
    /\ waits = [k \in Ticket |-> {}]
    /\ tail = [s \in Scope |-> 0]
    /\ resolved = {0}

\* Mutant: a tab call does not look at the browser's tail.
TailsOwn(s) == IF s = Browser THEN {tail[u] : u \in Scope} ELSE {tail[s]}

\* The tails a call waits for: its tab's and the browser's, or all of them.
Tails(s) == IF s = Browser THEN {tail[u] : u \in Scope} ELSE {tail[s], tail[Browser]}

\* Mutant: the tails are read after the new link has become one of them.
AcquireLate(s) ==
    /\ calls < MaxCalls
    /\ calls' = calls + 1
    /\ scope' = [scope EXCEPT ![calls + 1] = s]
    /\ st' = [st EXCEPT ![calls + 1] = "waiting"]
    /\ waits' = [waits EXCEPT ![calls + 1] = Tails(s) \union {calls + 1}]
    /\ tail' = [tail EXCEPT ![s] = calls + 1]
    /\ UNCHANGED resolved

\* acquireTabLock and acquireGlobalCdpLock, up to their await.
Acquire(s) ==
    /\ calls < MaxCalls
    /\ calls' = calls + 1
    /\ scope' = [scope EXCEPT ![calls + 1] = s]
    /\ st' = [st EXCEPT ![calls + 1] = "waiting"]
    /\ waits' = [waits EXCEPT ![calls + 1] = Tails(s)]
    /\ tail' = [tail EXCEPT ![s] = calls + 1]
    /\ UNCHANGED resolved

CallGoes(k, a, b) ==
    /\ st[k] = a
    /\ st' = [st EXCEPT ![k] = b]
    /\ UNCHANGED <<calls, scope, waits, tail, resolved>>

Granted(k) == waits[k] \subseteq resolved /\ CallGoes(k, "waiting", "held")

\* Mutant: whoever gives up leaves its link in the chain as it is.
AcquireTimeoutKeeps(k) == CallGoes(k, "waiting", "lost")

\* Whoever gives up releases the link it has put into the chain.
AcquireTimeout(k) == CallGoes(k, "waiting", "released")

\* The tab is still there and has a session; otherwise the call fails, and
\* releases its link as every call does.
SendCall(k) == CallGoes(k, "held", "sending")
NoTab(k) == CallGoes(k, "held", "released")
Answer(k) == CallGoes(k, "sending", "released")

\* The call is abandoned: Chromium may still be working on it.
BridgeTimeout(k) == CallGoes(k, "sending", "abandoned")

\* Mutant: a link resolves with the release of its own call.
ResolveOwn(k) ==
    /\ st[k] \in {"released", "abandoned"} /\ k \notin resolved
    /\ resolved' = resolved \union {k}
    /\ UNCHANGED <<calls, scope, st, waits, tail>>

\* tail.then(() => next)
Resolve(k) ==
    /\ st[k] \in {"released", "abandoned"} /\ k \notin resolved
    /\ waits[k] \subseteq resolved
    /\ resolved' = resolved \union {k}
    /\ UNCHANGED <<calls, scope, st, waits, tail>>

LockStep(k) == Granted(k) \/ SendCall(k) \/ NoTab(k) \/ Answer(k) \/ BridgeTimeout(k) \/ Resolve(k)

LockNext ==
    \/ \E s \in Scope : Acquire(s)
    \/ \E k \in Ticket : LockStep(k) \/ AcquireTimeout(k)

LockSpec == LockInit /\ [][LockNext]_lockVars

\* Promises resolve, and a call ends by its own timeout, before which Chromium has to
\* give it a session (getCdpSession, cdp-bridge.ts:162): that await has no timeout, and
\* that it settles is assumed of Chromium.  That a waiting call gives up is not relied on.
LockFairSpec == LockSpec /\ \A k \in Ticket : WF_lockVars(LockStep(k))

(***************************************************************************)
(* Properties.                                                             *)
(***************************************************************************)

\* Every variable keeps its type: a call only ever waits for calls made
\* before it, never for its own link.
LockTypeOK ==
    /\ calls \in 0..MaxCalls
    /\ scope \in [Ticket -> Scope]
    /\ st \in [Ticket -> {"none", "waiting", "held", "sending", "released", "abandoned"}]
    /\ waits \in [Ticket -> SUBSET (0..MaxCalls)]
    /\ \A k \in Ticket : \A w \in waits[k] : w < k
    /\ tail \in [Scope -> 0..MaxCalls]
    /\ resolved \subseteq 0..MaxCalls

Holds(k) == st[k] \in {"held", "sending"}
Conflict(i, k) == scope[i] = scope[k] \/ scope[i] = Browser \/ scope[k] = Browser

\* "While the global lock is held, no tab lock can be acquired (and vice
\* versa)": two calls on one tab, or any call and a browser-wide one, never
\* have the lock together, whoever gave up waiting in between.
Exclusive ==
    \A i, k \in Ticket : i # k /\ Holds(i) /\ Holds(k) => ~Conflict(i, k)

\* The calls the callers see: a link is part of the lock only to its call.
Phase ==
    [k \in Ticket |-> CASE st[k] \in {"released", "abandoned"} -> "free"
                        [] st[k] \in {"held", "sending"} -> "held"
                        [] OTHER -> st[k]]

Abstract == INSTANCE TabExclusion WITH phase <- Phase

\* The chains implement the lock: who asks is granted it in order, when no
\* conflicting call has it.
Implements == Abstract!Spec

\* No call waits for ever, even when none gives up by itself: a call that gave
\* up, failed or was abandoned does not block those behind it ("so we don't
\* deadlock the queue").
Served == \A k \in Ticket : st[k] = "waiting" ~> st[k] # "waiting"
=============================================================================
