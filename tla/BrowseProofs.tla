---------------------------- MODULE BrowseProofs ----------------------------
(***************************************************************************)
(* Theorems about the browse daemon: the lock around its CDP calls, its    *)
(* launch by many invocations of the command line, and its tabs.           *)
(***************************************************************************)
EXTENDS CdpLock, BrowseLaunch, BrowseTabs, WellFoundedInduction, TLAPS

(***************************************************************************)
(* The lock of CdpLock excludes, and implements TabExclusion, for any set  *)
(* of tabs and any number of calls.                                        *)
(*                                                                         *)
(* A call does not wait for every conflicting call before it, only for the *)
(* tails.  That is enough because each earlier one is at a tail or behind  *)
(* one that conflicts with it too (Covered), so that a link resolves only  *)
(* after all the conflicting ones before it (InOrder).                     *)
(***************************************************************************)

Counted == \A k \in Ticket : st[k] = "none" <=> k > calls

TailsLast ==
    \A s \in Scope :
        /\ tail[s] \in Ticket => scope[tail[s]] = s
        /\ tail[s] <= calls
        /\ \A i \in Ticket : i <= calls /\ scope[i] = s => i <= tail[s]

Covered ==
    \A i, k \in Ticket : i < k /\ k <= calls /\ Conflict(i, k) =>
        \E w \in waits[k] : w = i \/ (i < w /\ Conflict(i, w))

ResolvedFree ==
    \A k \in Ticket : k \in resolved => st[k] \in {"released", "abandoned"}

InOrder ==
    \A i, k \in Ticket : i < k /\ k \in resolved /\ Conflict(i, k) => i \in resolved

HeldAfterWaits == \A k \in Ticket : Holds(k) => waits[k] \subseteq resolved

IInv == LockTypeOK /\ Counted /\ TailsLast /\ Covered /\ ResolvedFree /\ InOrder /\ HeldAfterWaits

LEMMA InitInv == LockInit => IInv
  BY LockAssumption
  DEF LockInit, IInv, LockTypeOK, Counted, TailsLast, Covered, ResolvedFree, InOrder,
      HeldAfterWaits, Ticket, Scope, Holds

\* What a call waits for has resolved: then so have all conflicting ones before it.
LEMMA EarlierResolved ==
    ASSUME IInv, NEW k \in Ticket, k <= calls, waits[k] \subseteq resolved
    PROVE  \A i \in Ticket : i < k /\ Conflict(i, k) => i \in resolved
<1> SUFFICES ASSUME NEW i \in Ticket, i < k, Conflict(i, k) PROVE i \in resolved
  OBVIOUS
<1>1. PICK w \in waits[k] : w = i \/ (i < w /\ Conflict(i, w))
  BY DEF IInv, Covered
<1>2. w \in resolved
  BY <1>1
<1>3. CASE i < w
  <2>1. w \in Ticket
    BY <1>1, <1>3 DEF IInv, LockTypeOK, Ticket
  <2> QED
    BY <1>1, <1>2, <1>3, <2>1 DEF IInv, InOrder, Ticket
<1> QED
  BY <1>1, <1>2, <1>3

\* A new call finds every conflicting one before it at the tails, or behind them.
LEMMA AcquireInv ==
    ASSUME IInv, NEW s \in Scope, Acquire(s)
    PROVE  IInv'
<1> DEFINE n == calls + 1
<1>1. n \in Ticket /\ calls' = n /\ st[n] = "none" /\ calls \in Nat
  BY LockAssumption DEF Acquire, IInv, LockTypeOK, Counted, Ticket
<1>2. \A w \in Tails(s) : w \in 0..calls
  BY DEF IInv, LockTypeOK, TailsLast, Tails, Scope, Ticket
<1>3. \A i \in Ticket : i # n =>
        scope'[i] = scope[i] /\ st'[i] = st[i] /\ waits'[i] = waits[i]
  BY DEF Acquire, IInv, LockTypeOK
<1>4. scope'[n] = s /\ st'[n] = "waiting" /\ waits'[n] = Tails(s) /\ resolved' = resolved
  BY <1>1 DEF Acquire, IInv, LockTypeOK
<1>5. \A u \in Scope : tail'[u] = IF u = s THEN n ELSE tail[u]
  BY DEF Acquire, IInv, LockTypeOK
<1>6. LockTypeOK'
  <2>0. Tails(s) \in SUBSET (0..MaxCalls)
    <3>1. calls \in 0..MaxCalls
      BY DEF IInv, LockTypeOK
    <3>2. \A w \in Tails(s) : w \in 0..MaxCalls
      BY <3>1, <1>2, LockAssumption
    <3> QED
      BY <3>2
  <2>1. waits' \in [Ticket -> SUBSET (0..MaxCalls)]
    BY <2>0 DEF Acquire, IInv, LockTypeOK
  <2>2. \A k \in Ticket : \A w \in waits'[k] : w < k
    BY <1>1, <1>2, <1>3, <1>4 DEF IInv, LockTypeOK, Ticket
  <2> QED
    BY <1>1, <2>1, <2>2 DEF Acquire, IInv, LockTypeOK, Ticket
<1>7. Counted'
  BY <1>1, <1>3, <1>4 DEF IInv, Counted, Ticket
<1>8. TailsLast'
  <2> SUFFICES ASSUME NEW u \in Scope
               PROVE /\ tail'[u] \in Ticket => scope'[tail'[u]] = u
                     /\ tail'[u] <= calls'
                     /\ \A i \in Ticket : i <= calls' /\ scope'[i] = u => i <= tail'[u]
    BY DEF TailsLast
  <2>1. CASE u = s
    BY <2>1, <1>1, <1>4, <1>5 DEF Ticket
  <2>2. CASE u # s
    <3>1. tail'[u] = tail[u] /\ tail[u] \in Nat /\ tail[u] <= calls
      BY <2>2, <1>5 DEF IInv, LockTypeOK, TailsLast
    <3>2. tail[u] # n
      BY <3>1, <1>1
    <3> QED
      BY <2>2, <3>1, <3>2, <1>1, <1>3, <1>4 DEF IInv, TailsLast, Ticket
  <2> QED
    BY <2>1, <2>2
<1>9. Covered'
  <2> SUFFICES ASSUME NEW i \in Ticket, NEW k \in Ticket, i < k, k <= n, Conflict(i, k)'
               PROVE \E w \in waits'[k] : w = i \/ (i < w /\ Conflict(i, w)')
    BY <1>1 DEF Covered
  <2>1. CASE k # n
    <3>1. k <= calls /\ i # n
      BY <2>1, <1>1 DEF Ticket
    <3>2. Conflict(i, k)
      BY <2>1, <3>1, <1>3 DEF Conflict
    <3>3. PICK w \in waits[k] : w = i \/ (i < w /\ Conflict(i, w))
      BY <3>1, <3>2 DEF IInv, Covered
    <3>4. w < k
      BY <3>3 DEF IInv, LockTypeOK
    <3>5. i < w => w \in Ticket /\ w # n
      BY <3>3, <3>4, <3>1, <1>1 DEF IInv, LockTypeOK, Ticket
    <3>6. i < w => Conflict(i, w)'
      BY <3>3, <3>5, <3>1, <1>3 DEF Conflict
    <3> QED
      BY <3>3, <3>6, <2>1, <1>3
  <2>2. CASE k = n
    <3>1. i <= calls /\ i # n /\ scope'[i] = scope[i] /\ scope[i] \in Scope
      BY <2>2, <1>1, <1>3 DEF Ticket, IInv, LockTypeOK
    <3>2. scope[i] = s \/ scope[i] = Browser \/ s = Browser
      BY <2>2, <3>1, <1>4 DEF Conflict
    <3>3. PICK w \in Tails(s) : w = tail[scope[i]]
      BY <3>1, <3>2 DEF Tails, Scope
    <3>4. i <= w /\ w <= calls /\ w \in Nat
      BY <3>1, <3>3 DEF IInv, LockTypeOK, TailsLast
    <3>5. w \in Ticket /\ w # n /\ scope[w] = scope[i]
      BY <3>1, <3>3, <3>4, <1>1 DEF IInv, TailsLast, LockTypeOK, Ticket
    <3>6. Conflict(i, w)'
      BY <3>1, <3>5, <1>3 DEF Conflict
    <3>7. w = i \/ i < w
      BY <3>4 DEF Ticket
    <3> QED
      BY <2>2, <3>3, <3>6, <3>7, <1>4
  <2> QED
    BY <2>1, <2>2
<1>10. n \notin resolved
  BY <1>1 DEF IInv, ResolvedFree
<1>11. ResolvedFree'
  BY <1>1, <1>3, <1>4, <1>10 DEF IInv, ResolvedFree
<1>12. InOrder'
  <2> SUFFICES ASSUME NEW i \in Ticket, NEW k \in Ticket, i < k, k \in resolved, Conflict(i, k)'
               PROVE i \in resolved
    BY <1>4 DEF InOrder
  <2>1. k # n /\ st[k] # "none"
    BY <1>10 DEF IInv, ResolvedFree
  <2>2. k <= calls /\ i # n
    BY <2>1, <1>1 DEF IInv, Counted, Ticket
  <2> QED
    BY <2>1, <2>2, <1>3 DEF IInv, InOrder, Conflict
<1>13. HeldAfterWaits'
  BY <1>3, <1>4 DEF IInv, HeldAfterWaits, Holds
<1> QED
  BY <1>6, <1>7, <1>8, <1>9, <1>11, <1>12, <1>13 DEF IInv

\* A call that moves on, without having released before.
LEMMA MoveInv ==
    ASSUME IInv, NEW k \in Ticket, NEW a, NEW b, CallGoes(k, a, b),
           a \in {"waiting", "held", "sending"},
           b \in {"held", "sending", "released", "abandoned"},
           b \in {"held", "sending"} => waits[k] \subseteq resolved
    PROVE  IInv'
<1>1. \A i \in Ticket : i # k => st'[i] = st[i]
  BY DEF CallGoes, IInv, LockTypeOK
<1>2. st'[k] = b /\ st[k] = a /\ k \notin resolved
  BY DEF CallGoes, IInv, LockTypeOK, ResolvedFree
<1>3. LockTypeOK'
  BY DEF CallGoes, IInv, LockTypeOK
<1>4. Counted'
  BY <1>1, <1>2 DEF CallGoes, IInv, Counted
<1>5. TailsLast' /\ Covered' /\ InOrder'
  BY DEF CallGoes, IInv, TailsLast, Covered, InOrder, Conflict
<1>6. ResolvedFree'
  BY <1>1, <1>2 DEF CallGoes, IInv, ResolvedFree
<1>7. HeldAfterWaits'
  BY <1>1, <1>2 DEF CallGoes, IInv, HeldAfterWaits, Holds
<1> QED
  BY <1>3, <1>4, <1>5, <1>6, <1>7 DEF IInv

\* A link resolves when all the conflicting ones before it have.
LEMMA ResolveInv ==
    ASSUME IInv, NEW k \in Ticket, Resolve(k)
    PROVE  IInv'
<1>1. k <= calls
  BY DEF Resolve, IInv, LockTypeOK, Counted, Ticket
<1>2. \A i \in Ticket : i < k /\ Conflict(i, k) => i \in resolved
  BY <1>1, EarlierResolved DEF Resolve
<1>3. LockTypeOK'
  BY DEF Resolve, IInv, LockTypeOK, Ticket
<1>4. Counted' /\ TailsLast' /\ Covered'
  BY DEF Resolve, IInv, Counted, TailsLast, Covered, Conflict
<1>5. ResolvedFree' /\ HeldAfterWaits'
  BY DEF Resolve, IInv, ResolvedFree, HeldAfterWaits, Holds
<1>6. InOrder'
  BY <1>2 DEF Resolve, IInv, InOrder, Conflict
<1> QED
  BY <1>3, <1>4, <1>5, <1>6 DEF IInv

LEMMA NextInv == IInv /\ [LockNext]_lockVars => IInv'
<1> SUFFICES ASSUME IInv, [LockNext]_lockVars PROVE IInv'
  OBVIOUS
<1>1. ASSUME NEW s \in Scope, Acquire(s) PROVE IInv'
  BY <1>1, AcquireInv
<1>2. ASSUME NEW k \in Ticket, Granted(k) PROVE IInv'
  BY <1>2, MoveInv DEF Granted
<1>3. ASSUME NEW k \in Ticket, SendCall(k) PROVE IInv'
  <2>1. waits[k] \subseteq resolved
    BY <1>3 DEF SendCall, CallGoes, IInv, HeldAfterWaits, Holds
  <2> QED
    BY <1>3, <2>1, MoveInv DEF SendCall
<1>4. ASSUME NEW k \in Ticket, NoTab(k) PROVE IInv'
  BY <1>4, MoveInv DEF NoTab
<1>5. ASSUME NEW k \in Ticket, Answer(k) PROVE IInv'
  BY <1>5, MoveInv DEF Answer
<1>6. ASSUME NEW k \in Ticket, BridgeTimeout(k) PROVE IInv'
  BY <1>6, MoveInv DEF BridgeTimeout
<1>7. ASSUME NEW k \in Ticket, AcquireTimeout(k) PROVE IInv'
  BY <1>7, MoveInv DEF AcquireTimeout
<1>8. ASSUME NEW k \in Ticket, Resolve(k) PROVE IInv'
  BY <1>8, ResolveInv
<1>9. CASE UNCHANGED lockVars
  BY <1>9 DEF lockVars, IInv, LockTypeOK, Counted, TailsLast, Covered, ResolvedFree, InOrder,
      HeldAfterWaits, Holds, Conflict
<1> QED
  BY <1>1, <1>2, <1>3, <1>4, <1>5, <1>6, <1>7, <1>8, <1>9 DEF LockNext, LockStep

THEOREM Invariance == LockSpec => []IInv
  BY InitInv, NextInv, PTL DEF LockSpec

\* Every variable keeps its type, for any set of tabs and number of calls: in
\* particular no call ever waits for its own link or a later one.
THEOREM LockTypeCorrect == LockSpec => []LockTypeOK
<1>1. IInv => LockTypeOK
  BY DEF IInv
<1> QED
  BY <1>1, Invariance, PTL

\* Of two conflicting calls, the later holds the lock only after the link of
\* the earlier has resolved, so that the earlier no longer holds it.
LEMMA HeldOrder ==
    ASSUME IInv, NEW i \in Ticket, NEW k \in Ticket, i < k, Holds(k), Conflict(i, k)
    PROVE  st[i] \in {"released", "abandoned"}
<1>1. k <= calls
  BY DEF Holds, IInv, Counted, LockTypeOK, Ticket
<1>2. waits[k] \subseteq resolved
  BY DEF IInv, HeldAfterWaits
<1>3. i \in resolved
  BY <1>1, <1>2, EarlierResolved
<1> QED
  BY <1>3 DEF IInv, ResolvedFree

\* Two conflicting calls never have the lock together: Exclusive of the run,
\* for any set of tabs and number of calls.
THEOREM MutualExclusion == LockSpec => []Exclusive
<1>1. IInv => Exclusive
  <2> SUFFICES ASSUME IInv, NEW i \in Ticket, NEW k \in Ticket, i # k,
                      Holds(i), Holds(k), Conflict(i, k)
               PROVE FALSE
    BY DEF Exclusive
  <2>1. CASE i < k
    BY <2>1, HeldOrder DEF Holds
  <2>2. CASE k < i
    <3>1. Conflict(k, i)
      BY DEF Conflict
    <3> QED
      BY <2>2, <3>1, HeldOrder DEF Holds
  <2> QED
    BY <2>1, <2>2 DEF Ticket
<1> QED
  BY <1>1, Invariance, PTL

\* The chains of promises implement the lock: calls ask one after the other
\* and are granted it in that order.
THEOREM Refinement == LockSpec => Implements
<1>1. LockInit => Abstract!Init
  BY DEF LockInit, Abstract!Init, Abstract!Ticket, Ticket, Phase
<1>2. ASSUME IInv, [LockNext]_lockVars PROVE [Abstract!Next]_<<scope, Phase>>
  <2> USE <1>2
  <2>1. ASSUME NEW s \in Scope, Acquire(s) PROVE Abstract!Next
    <3> DEFINE n == calls + 1
    <3>1. n \in Ticket /\ st[n] = "none" /\ \A i \in Ticket : i < n => st[i] # "none"
      BY <2>1, LockAssumption DEF Acquire, IInv, LockTypeOK, Counted, Ticket
    <3>2. Phase[n] = "none" /\ \A i \in Ticket : i < n => Phase[i] # "none"
      BY <3>1 DEF Phase
    <3>3. Phase' = [Phase EXCEPT ![n] = "waiting"]
      BY <2>1, <3>1 DEF Acquire, Phase, IInv, LockTypeOK
    <3>4. Abstract!Request(n, s)
      BY <2>1, <3>2, <3>3 DEF Acquire, Abstract!Request, Abstract!Ticket, Ticket
    <3> QED
      BY <3>1, <3>4 DEF Abstract!Next, Abstract!Ticket, Abstract!Scope, Ticket, Scope
  <2>2. ASSUME NEW k \in Ticket, Granted(k) PROVE Abstract!Next
    <3>1. k <= calls /\ waits[k] \subseteq resolved /\ st[k] = "waiting"
      BY <2>2 DEF Granted, CallGoes, IInv, LockTypeOK, Counted, Ticket
    <3>2. \A i \in Ticket : i < k /\ Conflict(i, k) => Phase[i] = "free"
      BY <3>1, EarlierResolved DEF IInv, ResolvedFree, Phase
    <3>3. ASSUME NEW i \in Ticket, k < i, Conflict(i, k), Holds(i) PROVE FALSE
      <4>1. Conflict(k, i)
        BY <3>3 DEF Conflict
      <4> QED
        BY <3>1, <3>3, <4>1, HeldOrder
    <3>4. \A i \in Ticket : i > k /\ Conflict(i, k) => Phase[i] # "held"
      BY <3>3 DEF Phase, Holds, Ticket, IInv, LockTypeOK
    <3>5. Phase[k] = "waiting" /\ Phase' = [Phase EXCEPT ![k] = "held"]
      BY <2>2, <3>1 DEF Granted, CallGoes, Phase, IInv, LockTypeOK
    <3>6. Abstract!Grant(k)
      BY <2>2, <3>2, <3>4, <3>5
      DEF Granted, CallGoes, Abstract!Grant, Abstract!Conflict, Conflict, Abstract!Ticket, Ticket
    <3> QED
      BY <3>6 DEF Abstract!Next, Abstract!Ticket, Ticket
  <2>3. ASSUME NEW k \in Ticket, NEW a \in {"waiting", "held", "sending"},
               NEW b \in {"released", "abandoned"}, CallGoes(k, a, b)
        PROVE Abstract!Next
    <3>1. Phase[k] \in {"waiting", "held"} /\ Phase' = [Phase EXCEPT ![k] = "free"]
      BY <2>3 DEF CallGoes, Phase, IInv, LockTypeOK
    <3>2. Abstract!Free(k)
      BY <2>3, <3>1 DEF CallGoes, Abstract!Free
    <3> QED
      BY <3>2 DEF Abstract!Next, Abstract!Ticket, Ticket
  <2>4. ASSUME NEW k \in Ticket, SendCall(k) PROVE UNCHANGED <<scope, Phase>>
    BY <2>4 DEF SendCall, CallGoes, Phase, IInv, LockTypeOK
  <2>5. ASSUME NEW k \in Ticket, Resolve(k) PROVE UNCHANGED <<scope, Phase>>
    BY <2>5 DEF Resolve, Phase
  <2>6. CASE UNCHANGED lockVars
    BY <2>6 DEF lockVars, Phase
  <2> QED
    BY <2>1, <2>2, <2>3, <2>4, <2>5, <2>6
    DEF LockNext, LockStep, NoTab, Answer, BridgeTimeout, AcquireTimeout
<1> QED
  BY <1>1, <1>2, Invariance, PTL DEF LockSpec, Implements, Abstract!Spec

(***************************************************************************)
(* The launch of the daemon: BrowseLaunch.                                 *)
(***************************************************************************)

LaunchTyped == TypeOK /\ version <= faults

LEMMA InitLaunchTyped == Init => LaunchTyped
<1> SUFFICES ASSUME Init PROVE LaunchTyped
  OBVIOUS
<1>0. MaxServers \in Nat \ {0} /\ MaxFaults \in Nat /\ None \notin Nat
  BY LaunchAssumption
<1>1. PICK k \in Config, n \in 0..1 :
        /\ srv = [s \in Server |-> IF s <= n THEN Left(k) ELSE Unused]
        /\ stateFile = IF n = 0 THEN None ELSE n
        /\ spawned = n
  BY DEF Init
<1>2. PICK f \in Commands : cmd = [c \in Cli |-> f[c][1]] /\ config = [c \in Cli |-> f[c][2]]
  BY DEF Init
<1>3. \A c \in Cli : f[c][1] \in Command /\ f[c][2] \in Config
  BY <1>2, LaunchAssumption
<1>r. /\ Unused \in [st : {"unused", "booting", "up", "hung", "closing", "dead"},
                     fixed : BOOLEAN, recorded : BOOLEAN, headed : BOOLEAN,
                     config : Config \union {None}, version : 0..MaxFaults]
      /\ Left(k) \in [st : {"unused", "booting", "up", "hung", "closing", "dead"},
                     fixed : BOOLEAN, recorded : BOOLEAN, headed : BOOLEAN,
                     config : Config \union {None}, version : 0..MaxFaults]
  BY <1>0 DEF Left, Unused
<1>4. srv \in [Server -> [st : {"unused", "booting", "up", "hung", "closing", "dead"},
                     fixed : BOOLEAN, recorded : BOOLEAN, headed : BOOLEAN,
                     config : Config \union {None}, version : 0..MaxFaults]]
  BY <1>1, <1>r
<1>5. stateFile \in Server \union {None} /\ spawned \in 0..MaxServers
  BY <1>0, <1>1 DEF Server
<1> QED
  BY <1>0, <1>2, <1>3, <1>4, <1>5 DEF Init, LaunchTyped, TypeOK

\* What a step of the launch may be.
LEMMA LaunchSteps ==
    ASSUME Next
    PROVE  \/ \E c \in Cli :
                \/ ReadState(c) \/ Probe(c) \/ AcquireServerLock(c)
                \/ RemoveStaleLock(c) \/ UnderLock(c) \/ Term(c)
                \/ Kill(c) \/ Spawn(c) \/ Await(c) \/ Wait(c)
                \/ Timeout(c) \/ Send(c) \/ WrongToken(c)
                \/ NoAnswer(c) \/ LostConnection(c) \/ Connect(c)
                \/ Disconnect(c) \/ Die(c) \/ Handoff(c)
           \/ \E s \in Server :
                \/ Boot(s) \/ BootFails(s) \/ EndShutdown(s)
                \/ Hang(s) \/ BeginShutdown(s) \/ Crash(s)
           \/ Upgrade
BY DEF Next, Step, EnsureServer, SendCommand, Lifecycle,
       Trouble

\* A daemon that goes from one state to another keeps its type.
LEMMA StateTyped ==
    ASSUME TypeOK, NEW s \in Server,
           NEW v \in {"unused", "booting", "up", "hung", "closing", "dead"},
           srv' = [srv EXCEPT ![s].st = v]
    PROVE  srv' \in [Server -> [st : {"unused", "booting", "up", "hung", "closing", "dead"},
                     fixed : BOOLEAN, recorded : BOOLEAN, headed : BOOLEAN,
                     config : Config \union {None}, version : 0..MaxFaults]]
BY DEF TypeOK

\* A step keeps the types.
LEMMA NextLaunchTyped ==
    ASSUME LaunchTyped, [Next]_vars
    PROVE  LaunchTyped'
<1> USE DEF LaunchTyped, TypeOK, files, cli, Goto, Use,
            Is, Ended
<1>0. /\ MaxServers \in Nat \ {0} /\ MaxFaults \in Nat /\ None \notin Nat
      /\ None \notin Server /\ None \notin Cli
      /\ Booting \subseteq Server /\ Running \subseteq Server
      /\ Healthy(None) = FALSE
  BY LaunchAssumption DEF Server, Booting, Running, Healthy,
         AtPort
<1>1. ASSUME NEW c \in Cli, ReadState(c) PROVE LaunchTyped'
  BY <1>0, <1>1 DEF ReadState
<1>2. ASSUME NEW c \in Cli, Probe(c) PROVE LaunchTyped'
  BY <1>0, <1>2 DEF Probe, HeadedStuck, Alive
<1>3. ASSUME NEW c \in Cli, AcquireServerLock(c) PROVE LaunchTyped'
  BY <1>0, <1>3 DEF AcquireServerLock
<1>4. ASSUME NEW c \in Cli, RemoveStaleLock(c) PROVE LaunchTyped'
  BY <1>0, <1>4 DEF RemoveStaleLock
<1>5. ASSUME NEW c \in Cli, UnderLock(c) PROVE LaunchTyped'
  BY <1>0, <1>5 DEF UnderLock, Release
<1>6. ASSUME NEW c \in Cli, Term(c) PROVE LaunchTyped'
  BY <1>0, <1>6 DEF Term
<1>7. ASSUME NEW c \in Cli, Kill(c) PROVE LaunchTyped'
  BY <1>0, <1>7 DEF Kill, Alive, RemoveStateFile, Excuse
<1>8. ASSUME NEW c \in Cli, Spawn(c) PROVE LaunchTyped'
  BY <1>0, <1>8 DEF Spawn, Shown, Server
<1>9. ASSUME NEW c \in Cli, Await(c) PROVE LaunchTyped'
  BY <1>0, <1>9 DEF Await, Release
<1>10. ASSUME NEW c \in Cli, Wait(c) PROVE LaunchTyped'
  BY <1>0, <1>10 DEF Wait
<1>11. ASSUME NEW c \in Cli, Timeout(c) PROVE LaunchTyped'
  BY <1>0, <1>11 DEF Timeout, Release
<1>12. ASSUME NEW c \in Cli, Send(c) PROVE LaunchTyped'
  <2>1. target[c] \in Server /\ ran' = [ran EXCEPT ![c] = target[c]]
    BY <1>12 DEF Send, Run
  <2>2. srv' = srv \/ srv' = [srv EXCEPT ![target[c]].st = "closing"]
    BY <1>12 DEF Send
  <2>3. srv' \in [Server -> [st : {"unused", "booting", "up", "hung", "closing", "dead"},
                     fixed : BOOLEAN, recorded : BOOLEAN, headed : BOOLEAN,
                     config : Config \union {None}, version : 0..MaxFaults]]
    BY <2>1, <2>2, StateTyped
  <2> QED
    BY <1>0, <1>12, <2>1, <2>3 DEF Send
<1>13. ASSUME NEW c \in Cli, WrongToken(c) PROVE LaunchTyped'
  BY <1>0, <1>13 DEF WrongToken
<1>14. ASSUME NEW c \in Cli, NoAnswer(c) PROVE LaunchTyped'
  BY <1>0, <1>14 DEF NoAnswer
<1>15. ASSUME NEW c \in Cli, LostConnection(c) PROVE LaunchTyped'
  BY <1>0, <1>15 DEF LostConnection
<1>16. ASSUME NEW c \in Cli, Connect(c) PROVE LaunchTyped'
  BY <1>0, <1>16 DEF Connect
<1>17. ASSUME NEW c \in Cli, Disconnect(c) PROVE LaunchTyped'
  BY <1>0, <1>17 DEF Disconnect
<1>18. ASSUME NEW c \in Cli, Die(c) PROVE LaunchTyped'
  BY <1>0, <1>18 DEF Die, Fault
<1>19. ASSUME NEW s \in Server, Boot(s) PROVE LaunchTyped'
  <2>1. srv' = [srv EXCEPT ![s].st = "up"]
    BY <1>19 DEF Boot
  <2>2. srv' \in [Server -> [st : {"unused", "booting", "up", "hung", "closing", "dead"},
                     fixed : BOOLEAN, recorded : BOOLEAN, headed : BOOLEAN,
                     config : Config \union {None}, version : 0..MaxFaults]]
    BY <2>1, StateTyped
  <2> QED
    BY <1>0, <1>19, <2>2 DEF Boot, Excuse
<1>20. ASSUME NEW s \in Server, BootFails(s) PROVE LaunchTyped'
  <2>1. srv' = [srv EXCEPT ![s].st = "dead"]
    BY <1>20 DEF BootFails
  <2>2. srv' \in [Server -> [st : {"unused", "booting", "up", "hung", "closing", "dead"},
                     fixed : BOOLEAN, recorded : BOOLEAN, headed : BOOLEAN,
                     config : Config \union {None}, version : 0..MaxFaults]]
    BY <2>1, StateTyped
  <2> QED
    BY <1>0, <1>20, <2>2 DEF BootFails, Fault
<1>21. ASSUME NEW s \in Server, EndShutdown(s) PROVE LaunchTyped'
  <2>1. srv' = [srv EXCEPT ![s].st = "dead"]
    BY <1>21 DEF EndShutdown
  <2>2. srv' \in [Server -> [st : {"unused", "booting", "up", "hung", "closing", "dead"},
                     fixed : BOOLEAN, recorded : BOOLEAN, headed : BOOLEAN,
                     config : Config \union {None}, version : 0..MaxFaults]]
    BY <2>1, StateTyped
  <2> QED
    BY <1>0, <1>21, <2>2 DEF EndShutdown, RemoveStateFile, Excuse
<1>22. ASSUME NEW s \in Server, Hang(s) PROVE LaunchTyped'
  <2>1. srv' = [srv EXCEPT ![s].st = "hung"]
    BY <1>22 DEF Hang
  <2>2. srv' \in [Server -> [st : {"unused", "booting", "up", "hung", "closing", "dead"},
                     fixed : BOOLEAN, recorded : BOOLEAN, headed : BOOLEAN,
                     config : Config \union {None}, version : 0..MaxFaults]]
    BY <2>1, StateTyped
  <2> QED
    BY <1>0, <1>22, <2>2 DEF Hang, Fault
<1>23. ASSUME NEW s \in Server, BeginShutdown(s) PROVE LaunchTyped'
  <2>1. srv' = [srv EXCEPT ![s].st = "closing"]
    BY <1>23 DEF BeginShutdown
  <2>2. srv' \in [Server -> [st : {"unused", "booting", "up", "hung", "closing", "dead"},
                     fixed : BOOLEAN, recorded : BOOLEAN, headed : BOOLEAN,
                     config : Config \union {None}, version : 0..MaxFaults]]
    BY <2>1, StateTyped
  <2> QED
    BY <1>0, <1>23, <2>2 DEF BeginShutdown, Fault
<1>24. ASSUME NEW s \in Server, Crash(s) PROVE LaunchTyped'
  <2>1. srv' = [srv EXCEPT ![s].st = "dead"]
    BY <1>24 DEF Crash
  <2>2. srv' \in [Server -> [st : {"unused", "booting", "up", "hung", "closing", "dead"},
                     fixed : BOOLEAN, recorded : BOOLEAN, headed : BOOLEAN,
                     config : Config \union {None}, version : 0..MaxFaults]]
    BY <2>1, StateTyped
  <2> QED
    BY <1>0, <1>24, <2>2 DEF Crash, Fault, RemoveStateFile, Excuse
<1>25. ASSUME Upgrade PROVE LaunchTyped'
  BY <1>0, <1>25 DEF Upgrade, Fault
<1>26. ASSUME UNCHANGED vars PROVE LaunchTyped'
  BY <1>26 DEF vars
<1>27. ASSUME NEW c \in Cli, Handoff(c) PROVE LaunchTyped'
  <2>1. target[c] \in Server /\ ran' = [ran EXCEPT ![c] = target[c]]
    BY <1>27 DEF Handoff, Run
  <2>2. srv' = [srv EXCEPT ![target[c]].headed = TRUE]
    BY <1>27 DEF Handoff
  <2> DEFINE shown == [srv[target[c]] EXCEPT !.headed = TRUE]
  <2>3. srv' = [srv EXCEPT ![target[c]] = shown]
    BY <2>2
  <2>4. shown \in [st : {"unused", "booting", "up", "hung", "closing", "dead"},
                     fixed : BOOLEAN, recorded : BOOLEAN, headed : BOOLEAN,
                     config : Config \union {None}, version : 0..MaxFaults]
    <3>1. PICK r \in [st : {"unused", "booting", "up", "hung", "closing", "dead"},
                      fixed : BOOLEAN, recorded : BOOLEAN, headed : BOOLEAN,
                      config : Config \union {None}, version : 0..MaxFaults] : r = srv[target[c]]
      BY <2>1
    <3>2. [r EXCEPT !.headed = TRUE] \in
            [st : {"unused", "booting", "up", "hung", "closing", "dead"},
             fixed : BOOLEAN, recorded : BOOLEAN, headed : BOOLEAN,
             config : Config \union {None}, version : 0..MaxFaults]
      OBVIOUS
    <3> QED
      BY <3>1, <3>2
  <2> HIDE DEF shown
  <2>5. srv' \in [Server -> [st : {"unused", "booting", "up", "hung", "closing", "dead"},
                     fixed : BOOLEAN, recorded : BOOLEAN, headed : BOOLEAN,
                     config : Config \union {None}, version : 0..MaxFaults]]
    BY <2>1, <2>3, <2>4
  <2> QED
    BY <1>0, <1>27, <2>1, <2>5 DEF Handoff
<1> QED
  BY <1>1, <1>2, <1>3, <1>4, <1>5, <1>6, <1>7, <1>8, <1>9, <1>10, <1>11, <1>12, <1>13, <1>14, <1>15, <1>16, <1>17, <1>18, <1>19, <1>20, <1>21, <1>22, <1>23, <1>24, <1>25, <1>26, <1>27, LaunchSteps

\* Every variable of the launch keeps its type, for any number of invocations,
\* daemons and faults: no file, no invocation and no command ever names a daemon
\* that cannot be, and no connection is retried twice.
THEOREM TypeCorrect == Spec => []TypeOK
<1>1. Init => LaunchTyped
  BY InitLaunchTyped
<1>2. LaunchTyped /\ [Next]_vars => LaunchTyped'
  BY NextLaunchTyped
<1>3. LaunchTyped => TypeOK
  BY DEF LaunchTyped
<1> QED
  BY <1>1, <1>2, <1>3, PTL DEF Spec

(***************************************************************************)
(* One daemon.  Those neither lost sight of nor started without the lock   *)
(* are booting while its holder waits for them, or named in the file.      *)
(***************************************************************************)

HolderAt ==
    \A c \in Cli : lock = c =>
        \/ pc[c] \in Ended \union {"created"}
        \/ c \in releaseLock /\ pc[c] \in {"locked", "term", "kill", "spawn", "await"}

HolderWaits ==
    \A s \in Server \ excused : srv[s].st = "booting" => lock # None /\ pc[lock] = "await"

InFile == \A s \in Server \ excused : srv[s].st \in {"up", "hung"} => stateFile = s

\* Who has found no healthy daemon under the lock is right, until it has started one.
NoneUp ==
    \A c \in Cli : lock = c /\ pc[c] \in {"term", "kill", "spawn"} =>
        \A s \in Server \ excused : srv[s].st # "up"

Single ==
    \A s, t \in Server \ excused :
        /\ srv[s].st \in {"booting", "up", "hung"}
        /\ srv[t].st \in {"booting", "up", "hung"}
        => s = t

OneInv == HolderAt /\ HolderWaits /\ InFile /\ NoneUp /\ Single

LEMMA NextOne ==
    ASSUME LaunchTyped, LaunchTyped', OneInv, [Next]_vars
    PROVE  OneInv'
<1> USE DEF LaunchTyped, TypeOK, files, cli, Goto, Use,
            Is, Ended, OneInv, HolderAt, HolderWaits, InFile, NoneUp, Single
<1>0. /\ None \notin Server /\ None \notin Cli
      /\ Booting = {s \in Server : srv[s].st = "booting"}
      /\ Running = {s \in Server : srv[s].st \in {"booting", "up", "hung"}}
      /\ \A s \in Server : srv[s].st = "up" => Healthy(s)
  <2>1. None \notin Server /\ None \notin Cli
    BY LaunchAssumption DEF Server
  <2>2. ASSUME NEW s \in Server, srv[s].st = "up" PROVE Healthy(s)
    <3>1. s # None
      BY <2>1
    <3>2. s \in AtPort(s)
      BY <2>2, <3>1, Zenon DEF AtPort
    <3> QED
      BY <2>2, <3>2, Zenon DEF Healthy
  <2> QED
    BY <2>1, <2>2, Zenon DEF Booting, Running
<1>1. ASSUME NEW c \in Cli, ReadState(c) PROVE OneInv'
  BY <1>0, <1>1 DEF ReadState
<1>2. ASSUME NEW c \in Cli, Probe(c) PROVE OneInv'
  BY <1>0, <1>2 DEF Probe, HeadedStuck, Alive
<1>3. ASSUME NEW c \in Cli, AcquireServerLock(c) PROVE OneInv'
  BY <1>0, <1>3 DEF AcquireServerLock
<1>4. ASSUME NEW c \in Cli, RemoveStaleLock(c) PROVE OneInv'
  BY <1>0, <1>4 DEF RemoveStaleLock
<1>5. ASSUME NEW c \in Cli, UnderLock(c) PROVE OneInv'
  BY <1>0, <1>5 DEF UnderLock, Release
<1>6. ASSUME NEW c \in Cli, Term(c) PROVE OneInv'
  BY <1>0, <1>6 DEF Term
<1>7. ASSUME NEW c \in Cli, Kill(c) PROVE OneInv'
  BY <1>0, <1>7 DEF Kill, Alive, RemoveStateFile, Excuse
<1>8. ASSUME NEW c \in Cli, Spawn(c) PROVE OneInv'
  BY <1>0, <1>8 DEF Spawn, Shown, Server
<1>9. ASSUME NEW c \in Cli, Await(c) PROVE OneInv'
  BY <1>0, <1>9 DEF Await, Release
<1>10. ASSUME NEW c \in Cli, Wait(c) PROVE OneInv'
  BY <1>0, <1>10 DEF Wait
<1>11. ASSUME NEW c \in Cli, Timeout(c) PROVE OneInv'
  BY <1>0, <1>11 DEF Timeout, Release
<1>12. ASSUME NEW c \in Cli, Send(c) PROVE OneInv'
  <2>1. target[c] \in Server
    BY <1>12 DEF Send
  <2>2. srv' = srv \/ srv' = [srv EXCEPT ![target[c]].st = "closing"]
    BY <1>12 DEF Send
  <2>3. \A s \in Server : srv'[s].st = srv[s].st \/ srv'[s].st = "closing"
    BY <2>1, <2>2
  <2>4. /\ pc[c] = "send" /\ UNCHANGED <<stateFile, lock, releaseLock, excused>>
        /\ \A d \in Cli \ {c} : pc'[d] = pc[d]
    BY <1>12 DEF Send
  <2> QED
    BY <1>0, <2>3, <2>4
<1>13. ASSUME NEW c \in Cli, WrongToken(c) PROVE OneInv'
  BY <1>0, <1>13 DEF WrongToken
<1>14. ASSUME NEW c \in Cli, NoAnswer(c) PROVE OneInv'
  BY <1>0, <1>14 DEF NoAnswer
<1>15. ASSUME NEW c \in Cli, LostConnection(c) PROVE OneInv'
  BY <1>0, <1>15 DEF LostConnection
<1>16. ASSUME NEW c \in Cli, Connect(c) PROVE OneInv'
  BY <1>0, <1>16 DEF Connect
<1>17. ASSUME NEW c \in Cli, Disconnect(c) PROVE OneInv'
  BY <1>0, <1>17 DEF Disconnect
<1>18. ASSUME NEW c \in Cli, Die(c) PROVE OneInv'
  BY <1>0, <1>18 DEF Die, Fault
<1>19. ASSUME NEW s \in Server, Boot(s) PROVE OneInv'
  BY <1>0, <1>19 DEF Boot, Excuse
<1>20. ASSUME NEW s \in Server, BootFails(s) PROVE OneInv'
  BY <1>0, <1>20 DEF BootFails, Fault
<1>21. ASSUME NEW s \in Server, EndShutdown(s) PROVE OneInv'
  BY <1>0, <1>21 DEF EndShutdown, RemoveStateFile, Excuse
<1>22. ASSUME NEW s \in Server, Hang(s) PROVE OneInv'
  BY <1>0, <1>22 DEF Hang, Fault
<1>23. ASSUME NEW s \in Server, BeginShutdown(s) PROVE OneInv'
  BY <1>0, <1>23 DEF BeginShutdown, Fault
<1>24. ASSUME NEW s \in Server, Crash(s) PROVE OneInv'
  BY <1>0, <1>24 DEF Crash, Fault, Alive, RemoveStateFile, Excuse
<1>25. ASSUME Upgrade PROVE OneInv'
  BY <1>0, <1>25 DEF Upgrade, Fault
<1>26. ASSUME UNCHANGED vars PROVE OneInv'
  BY <1>26 DEF vars
<1>27. ASSUME NEW c \in Cli, Handoff(c) PROVE OneInv'
  <2>1. target[c] \in Server
    BY <1>27 DEF Handoff
  <2>2. srv' = [srv EXCEPT ![target[c]].headed = TRUE]
    BY <1>27 DEF Handoff
  <2>3. \A s \in Server : srv'[s].st = srv[s].st
    BY <2>1, <2>2
  <2>4. /\ pc[c] = "send" /\ pc'[c] = "done"
        /\ UNCHANGED <<stateFile, lock, releaseLock, excused>>
        /\ \A d \in Cli \ {c} : pc'[d] = pc[d]
    BY <1>27 DEF Handoff
  <2> QED
    BY <1>0, <2>3, <2>4
<1> QED
  BY <1>1, <1>2, <1>3, <1>4, <1>5, <1>6, <1>7, <1>8, <1>9, <1>10, <1>11, <1>12, <1>13, <1>14, <1>15, <1>16, <1>17, <1>18, <1>19, <1>20, <1>21, <1>22, <1>23, <1>24, <1>25, <1>26, <1>27, LaunchSteps

LEMMA InitOne ==
    ASSUME Init
    PROVE  OneInv
<1>0. None \notin Cli /\ None \notin Server
  BY LaunchAssumption DEF Server
<1>1. PICK k \in Config, n \in 0..1 :
        /\ srv = [s \in Server |-> IF s <= n THEN Left(k) ELSE Unused]
        /\ stateFile = IF n = 0 THEN None ELSE n
  BY DEF Init
<1>2. \A s \in Server : srv[s].st # "unused" => n = 1 /\ s = 1 /\ srv[s].st = "up"
  BY <1>1 DEF Left, Unused, Server
<1>3. lock = None
  BY DEF Init
<1>4. HolderAt /\ NoneUp
  BY <1>0, <1>3 DEF HolderAt, NoneUp
<1>5. HolderWaits /\ InFile /\ Single
  BY <1>1, <1>2 DEF HolderWaits, InFile, Single
<1> QED
  BY <1>4, <1>5 DEF OneInv

\* "Acquire an exclusive lockfile": of the daemons that were started under it and
\* that the state file has not lost, at most one runs, however many invocations
\* race, whatever crashes, hangs or is updated, and although the lock itself may
\* be taken from its holder.
THEOREM OneDaemon == Spec => []OneServer
<1>1. Init => LaunchTyped /\ OneInv
  BY InitLaunchTyped, InitOne
<1>2. LaunchTyped /\ OneInv /\ [Next]_vars => (LaunchTyped /\ OneInv)'
  BY NextLaunchTyped, NextOne
<1>3. OneInv => OneServer
  BY DEF OneInv, Single, OneServer, Running
<1> QED
  BY <1>1, <1>2, <1>3, PTL DEF Spec

(***************************************************************************)
(* Headed daemons.  An invocation told neither to connect nor to           *)
(* disconnect kills the daemon it read of only if that one is dead or was  *)
(* not started headed, of an older version, or was lost by a connection.   *)
(***************************************************************************)

Launched == \A s \in Server : srv[s].st = "unused" <=> s > spawned
NotNewer == \A s \in Server : srv[s].version <= version

\* What a daemon keeps: how it was started, and that it has ended.
Lasting(s) ==
    /\ srv'[s].recorded = srv[s].recorded /\ srv'[s].version = srv[s].version
    /\ srv[s].st = "dead" => srv'[s].st = "dead"

Evolves ==
    /\ spawned <= spawned' /\ version <= version'
    /\ \A s \in Server : s <= spawned => Lasting(s)

LEMMA NextLaunched ==
    ASSUME LaunchTyped, LaunchTyped', Launched, NotNewer,
           [Next]_vars
    PROVE  Launched' /\ NotNewer' /\ Evolves
<1> USE DEF LaunchTyped, TypeOK, files, cli, Goto, Use,
            Is, Ended, Launched, NotNewer, Evolves, Lasting
<1>0. /\ None \notin Server /\ MaxServers \in Nat /\ MaxFaults \in Nat
      /\ Server \subseteq Nat
      /\ \A s \in Server : srv[s].version \in Nat
      /\ version \in Nat /\ spawned \in Nat
  BY LaunchAssumption DEF Server
<1>1. ASSUME NEW c \in Cli,
                 \/ ReadState(c) \/ Probe(c) \/ AcquireServerLock(c)
                 \/ RemoveStaleLock(c) \/ UnderLock(c) \/ Await(c)
                 \/ Wait(c) \/ Timeout(c) \/ WrongToken(c)
                 \/ NoAnswer(c) \/ LostConnection(c) \/ Connect(c)
                 \/ Die(c)
      PROVE  Launched' /\ NotNewer' /\ Evolves
  <2>1. UNCHANGED <<srv, spawned, version>>
    BY <1>1 DEF ReadState, Probe, AcquireServerLock, RemoveStaleLock, UnderLock, Await, Wait, Timeout, WrongToken, NoAnswer, LostConnection, Connect, Die
  <2> QED
    BY <1>0, <2>1
<1>2. ASSUME NEW c \in Cli, Term(c) PROVE Launched' /\ NotNewer' /\ Evolves
  BY <1>0, <1>2 DEF Term
<1>3. ASSUME NEW c \in Cli, Kill(c) PROVE Launched' /\ NotNewer' /\ Evolves
  BY <1>0, <1>3 DEF Kill, Alive, RemoveStateFile
<1>4. ASSUME NEW c \in Cli, Spawn(c) PROVE Launched' /\ NotNewer' /\ Evolves
  BY <1>0, <1>4 DEF Spawn, Shown, Server
<1>5. ASSUME NEW c \in Cli, Send(c) PROVE Launched' /\ NotNewer' /\ Evolves
  <2>1. target[c] \in Server /\ srv[target[c]].st = "up"
    BY <1>5 DEF Send
  <2>2. srv' = srv \/ srv' = [srv EXCEPT ![target[c]].st = "closing"]
    BY <1>5 DEF Send
  <2>3. \A s \in Server :
           /\ Lasting(s)
           /\ srv'[s].st = "unused" <=> srv[s].st = "unused"
    BY <2>1, <2>2
  <2>4. UNCHANGED <<spawned, version>>
    BY <1>5 DEF Send
  <2> QED
    BY <1>0, <2>3, <2>4
<1>6. ASSUME NEW c \in Cli, Disconnect(c) PROVE Launched' /\ NotNewer' /\ Evolves
  BY <1>0, <1>6 DEF Disconnect
<1>7. ASSUME NEW s \in Server, Boot(s) PROVE Launched' /\ NotNewer' /\ Evolves
  BY <1>0, <1>7 DEF Boot
<1>8. ASSUME NEW s \in Server, BootFails(s) PROVE Launched' /\ NotNewer' /\ Evolves
  BY <1>0, <1>8 DEF BootFails
<1>9. ASSUME NEW s \in Server, EndShutdown(s) PROVE Launched' /\ NotNewer' /\ Evolves
  BY <1>0, <1>9 DEF EndShutdown, RemoveStateFile
<1>10. ASSUME NEW s \in Server, Hang(s) PROVE Launched' /\ NotNewer' /\ Evolves
  BY <1>0, <1>10 DEF Hang
<1>11. ASSUME NEW s \in Server, BeginShutdown(s) PROVE Launched' /\ NotNewer' /\ Evolves
  BY <1>0, <1>11 DEF BeginShutdown
<1>12. ASSUME NEW s \in Server, Crash(s) PROVE Launched' /\ NotNewer' /\ Evolves
  BY <1>0, <1>12 DEF Crash, Alive, RemoveStateFile
<1>13. ASSUME Upgrade PROVE Launched' /\ NotNewer' /\ Evolves
  BY <1>0, <1>13 DEF Upgrade, Fault
<1>14. ASSUME UNCHANGED vars PROVE Launched' /\ NotNewer' /\ Evolves
  BY <1>0, <1>14 DEF vars
<1>15. ASSUME NEW c \in Cli, Handoff(c) PROVE Launched' /\ NotNewer' /\ Evolves
  <2>1. target[c] \in Server /\ srv' = [srv EXCEPT ![target[c]].headed = TRUE]
    BY <1>15 DEF Handoff
  <2>2. \A s \in Server :
           /\ Lasting(s)
           /\ srv'[s].st = "unused" <=> srv[s].st = "unused"
    BY <2>1
  <2>3. UNCHANGED <<spawned, version>>
    BY <1>15 DEF Handoff
  <2> QED
    BY <1>0, <2>2, <2>3
<1> QED
  BY <1>1, <1>2, <1>3, <1>4, <1>5, <1>6, <1>7, <1>8, <1>9, <1>10, <1>11, <1>12, <1>13, <1>14, <1>15, LaunchSteps

Named ==
    /\ stateFile # None => stateFile <= spawned
    /\ \A c \in Cli : saw[c] # None => saw[c] <= spawned

InRole ==
    \A c \in Cli : /\ pc[c] = "connect" => cmd[c] = "connect"
                   /\ pc[c] = "disconnect" => cmd[c] = "disconnect"

NoneToKeep(c) == saw[c] # None => srv[saw[c]].st = "dead" \/ ~srv[saw[c]].recorded

MayKill ==
    \A c \in Cli :
        /\ pc[c] \in {"lock", "created", "stale", "locked", "wait"} => NoneToKeep(c)
        /\ pc[c] \in {"term", "kill"} =>
               \/ cmd[c] \in {"connect", "disconnect"} \/ retries[c] = 1 \/ NoneToKeep(c)
               \/ srv[saw[c]].version # version

KeepInv == Launched /\ NotNewer /\ Named /\ InRole /\ MayKill

LEMMA NextKeep ==
    ASSUME LaunchTyped, LaunchTyped', KeepInv, [Next]_vars
    PROVE  KeepInv'
<1> USE DEF LaunchTyped, TypeOK, files, cli, Goto, Use,
            Is, Ended, Named, InRole, MayKill, NoneToKeep
<1>0. /\ None \notin Server /\ Server \subseteq Nat
      /\ \A s \in Server : srv[s].version \in Nat
      /\ version \in Nat /\ spawned \in Nat /\ version' \in Nat /\ spawned' \in Nat
  BY LaunchAssumption DEF Server
<1>e. Launched /\ NotNewer /\ Launched' /\ NotNewer' /\ Evolves
  BY NextLaunched DEF KeepInv
<1>f. Named /\ InRole /\ MayKill
  BY DEF KeepInv
<1>g. \A s \in Server : s <= spawned =>
         /\ s <= spawned'
         /\ srv'[s].recorded = srv[s].recorded
         /\ srv[s].st = "dead" => srv'[s].st = "dead"
         /\ srv[s].version # version => srv'[s].version # version'
         /\ srv[s].st # "unused"
  BY <1>0, <1>e DEF Evolves, Lasting, Launched, NotNewer
<1>h. SUFFICES Named' /\ InRole' /\ MayKill'
  BY <1>e DEF KeepInv
<1>1. ASSUME NEW c \in Cli, ReadState(c) PROVE Named' /\ InRole' /\ MayKill'
  BY <1>0, <1>f, <1>g, <1>1 DEF ReadState
<1>2. ASSUME NEW c \in Cli, Probe(c) PROVE Named' /\ InRole' /\ MayKill'
  <2>1. /\ UNCHANGED <<srv, stateFile, cmd, saw, retries, spawned, version>>
        /\ \A d \in Cli \ {c} : pc'[d] = pc[d]
        /\ pc'[c] \in {"refused", "term", "done", "send", "lock"}
    BY <1>2 DEF Probe
  <2>2. pc'[c] = "term" => srv[saw[c]].version # version
    BY <1>2 DEF Probe
  <2>3. ASSUME pc'[c] = "lock" PROVE NoneToKeep(c)
    <3>1. ~HeadedStuck(saw[c])
      BY <1>2, <2>3 DEF Probe
    <3> QED
      BY <1>f, <1>g, <3>1 DEF HeadedStuck, Alive
  <2> QED
    BY <1>f, <2>1, <2>2, <2>3
<1>3. ASSUME NEW c \in Cli, AcquireServerLock(c) PROVE Named' /\ InRole' /\ MayKill'
  BY <1>0, <1>f, <1>g, <1>3 DEF AcquireServerLock
<1>4. ASSUME NEW c \in Cli, RemoveStaleLock(c) PROVE Named' /\ InRole' /\ MayKill'
  BY <1>0, <1>f, <1>g, <1>4 DEF RemoveStaleLock
<1>5. ASSUME NEW c \in Cli, UnderLock(c) PROVE Named' /\ InRole' /\ MayKill'
  BY <1>0, <1>f, <1>g, <1>5 DEF UnderLock, Release
<1>6. ASSUME NEW c \in Cli, Term(c) PROVE Named' /\ InRole' /\ MayKill'
  BY <1>0, <1>f, <1>g, <1>6 DEF Term
<1>7. ASSUME NEW c \in Cli, Kill(c) PROVE Named' /\ InRole' /\ MayKill'
  BY <1>0, <1>f, <1>g, <1>7 DEF Kill, Alive, RemoveStateFile
<1>8. ASSUME NEW c \in Cli, Spawn(c) PROVE Named' /\ InRole' /\ MayKill'
  BY <1>0, <1>f, <1>g, <1>8 DEF Spawn, Shown, Server
<1>9. ASSUME NEW c \in Cli, Await(c) PROVE Named' /\ InRole' /\ MayKill'
  BY <1>0, <1>f, <1>g, <1>9 DEF Await, Release
<1>10. ASSUME NEW c \in Cli, Wait(c) PROVE Named' /\ InRole' /\ MayKill'
  BY <1>0, <1>f, <1>g, <1>10 DEF Wait
<1>11. ASSUME NEW c \in Cli, Timeout(c) PROVE Named' /\ InRole' /\ MayKill'
  BY <1>0, <1>f, <1>g, <1>11 DEF Timeout, Release
<1>12. ASSUME NEW c \in Cli, Send(c) PROVE Named' /\ InRole' /\ MayKill'
  BY <1>0, <1>f, <1>g, <1>12 DEF Send
<1>13. ASSUME NEW c \in Cli, WrongToken(c) PROVE Named' /\ InRole' /\ MayKill'
  BY <1>0, <1>f, <1>g, <1>13 DEF WrongToken
<1>14. ASSUME NEW c \in Cli, NoAnswer(c) PROVE Named' /\ InRole' /\ MayKill'
  BY <1>0, <1>f, <1>g, <1>14 DEF NoAnswer
<1>15. ASSUME NEW c \in Cli, LostConnection(c) PROVE Named' /\ InRole' /\ MayKill'
  BY <1>0, <1>f, <1>g, <1>15 DEF LostConnection
<1>16. ASSUME NEW c \in Cli, Connect(c) PROVE Named' /\ InRole' /\ MayKill'
  BY <1>0, <1>f, <1>g, <1>16 DEF Connect
<1>17. ASSUME NEW c \in Cli, Disconnect(c) PROVE Named' /\ InRole' /\ MayKill'
  BY <1>0, <1>f, <1>g, <1>17 DEF Disconnect
<1>18. ASSUME NEW c \in Cli, Die(c) PROVE Named' /\ InRole' /\ MayKill'
  BY <1>0, <1>f, <1>g, <1>18 DEF Die
<1>19. ASSUME NEW s \in Server, Boot(s) PROVE Named' /\ InRole' /\ MayKill'
  <2>1. s <= spawned
    BY <1>0, <1>e, <1>19 DEF Boot, Launched
  <2>2. /\ stateFile' = s /\ spawned' = spawned
        /\ UNCHANGED <<pc, cmd, saw, retries, version>>
    BY <1>19 DEF Boot
  <2> QED
    BY <1>0, <1>f, <1>g, <2>1, <2>2
<1>20. ASSUME NEW s \in Server, BootFails(s) PROVE Named' /\ InRole' /\ MayKill'
  BY <1>0, <1>e, <1>f, <1>g, <1>20 DEF BootFails
<1>21. ASSUME NEW s \in Server, EndShutdown(s) PROVE Named' /\ InRole' /\ MayKill'
  BY <1>0, <1>e, <1>f, <1>g, <1>21 DEF EndShutdown, RemoveStateFile
<1>22. ASSUME NEW s \in Server, Hang(s) PROVE Named' /\ InRole' /\ MayKill'
  BY <1>0, <1>e, <1>f, <1>g, <1>22 DEF Hang
<1>23. ASSUME NEW s \in Server, BeginShutdown(s) PROVE Named' /\ InRole' /\ MayKill'
  BY <1>0, <1>e, <1>f, <1>g, <1>23 DEF BeginShutdown
<1>24. ASSUME NEW s \in Server, Crash(s) PROVE Named' /\ InRole' /\ MayKill'
  BY <1>0, <1>e, <1>f, <1>g, <1>24 DEF Crash, Alive, RemoveStateFile
<1>25. ASSUME Upgrade PROVE Named' /\ InRole' /\ MayKill'
  BY <1>0, <1>f, <1>g, <1>25 DEF Upgrade
<1>26. ASSUME UNCHANGED vars PROVE Named' /\ InRole' /\ MayKill'
  BY <1>f, <1>g, <1>26 DEF vars
<1>27. ASSUME NEW c \in Cli, Handoff(c) PROVE Named' /\ InRole' /\ MayKill'
  BY <1>0, <1>f, <1>g, <1>27 DEF Handoff
<1> QED
  BY <1>1, <1>2, <1>3, <1>4, <1>5, <1>6, <1>7, <1>8, <1>9, <1>10, <1>11, <1>12, <1>13, <1>14, <1>15, <1>16, <1>17, <1>18, <1>19, <1>20, <1>21, <1>22, <1>23, <1>24, <1>25, <1>26, <1>27, LaunchSteps

LEMMA InitKeep ==
    ASSUME Init
    PROVE  KeepInv
<1>0. None \notin Server
  BY LaunchAssumption DEF Server
<1>1. PICK k \in Config, n \in 0..1 :
        /\ srv = [s \in Server |-> IF s <= n THEN Left(k) ELSE Unused]
        /\ stateFile = IF n = 0 THEN None ELSE n
        /\ spawned = n
  BY DEF Init
<1>2. /\ Launched
      /\ \A s \in Server : srv[s].version = 0
  BY <1>1 DEF Left, Unused, Server, Launched
<1>3. version = 0 /\ \A c \in Cli : pc[c] = "start" /\ saw[c] = None
  BY DEF Init
<1> QED
  BY <1>1, <1>2, <1>3 DEF KeepInv, NotNewer, Named, InRole, MayKill, NoneToKeep

\* Who steps away from ending a daemon has ended that one, and no other.
LEMMA EndsTheOne ==
    ASSUME LaunchTyped, KeepInv, [Next]_vars,
           NEW s \in Server, NEW c \in Cli,
           srv[s].st \in {"up", "hung"}, srv'[s].st \in {"closing", "dead"},
           pc[c] \in {"term", "kill"}, pc'[c] # pc[c]
    PROVE  saw[c] = s
<1> USE DEF LaunchTyped, TypeOK, files, cli, Goto, Use,
            Is, Ended
<1>1. None \notin Server
  BY LaunchAssumption DEF Server
<1>2. Term(c) \/ Kill(c) \/ Die(c)
  <2>1. ASSUME NEW d \in Cli \ {c},
               \/ ReadState(d) \/ Probe(d) \/ AcquireServerLock(d)
               \/ RemoveStaleLock(d) \/ UnderLock(d) \/ Term(d)
               \/ Kill(d) \/ Spawn(d) \/ Await(d) \/ Wait(d)
               \/ Timeout(d) \/ Send(d) \/ WrongToken(d)
               \/ NoAnswer(d) \/ LostConnection(d) \/ Connect(d)
               \/ Disconnect(d) \/ Die(d) \/ Handoff(d)
        PROVE  pc'[c] = pc[c]
    <3>1. \E l : pc' = [pc EXCEPT ![d] = l] \/ pc' = pc
      BY <2>1 DEF ReadState, Probe, AcquireServerLock, RemoveStaleLock, UnderLock, Term, Kill, Spawn, Await, Wait, Timeout, Send, WrongToken, NoAnswer, LostConnection, Connect, Disconnect, Die, Handoff
    <3> QED
      BY <3>1
  <2>2. ASSUME ReadState(c) \/ Probe(c) \/ AcquireServerLock(c)
               \/ RemoveStaleLock(c) \/ UnderLock(c)
               \/ Spawn(c) \/ Await(c) \/ Wait(c)
               \/ Timeout(c) \/ Send(c) \/ WrongToken(c)
               \/ NoAnswer(c) \/ LostConnection(c) \/ Connect(c)
               \/ Disconnect(c) \/ Handoff(c)
        PROVE  FALSE
    BY <2>2 DEF ReadState, Probe, AcquireServerLock, RemoveStaleLock, UnderLock, Spawn, Await, Wait, Timeout, Send, WrongToken, NoAnswer, LostConnection, Connect, Disconnect, Handoff
  <2>3. ASSUME NEW t \in Server,
               \/ Boot(t) \/ BootFails(t) \/ EndShutdown(t)
               \/ Hang(t) \/ BeginShutdown(t) \/ Crash(t)
        PROVE  pc' = pc
    BY <2>3 DEF Boot, BootFails, EndShutdown, Hang,
                BeginShutdown, Crash
  <2>4. Upgrade \/ UNCHANGED vars => pc' = pc
    BY DEF Upgrade, vars
  <2> QED
    BY <2>1, <2>2, <2>3, <2>4, LaunchSteps
<1>3. ~Die(c)
  BY DEF Die
<1>4. CASE Term(c)
  BY <1>1, <1>4 DEF Term
<1>5. CASE Kill(c)
  BY <1>1, <1>5 DEF Kill, Alive
<1> QED
  BY <1>2, <1>3, <1>4, <1>5

\* "Never silently replace a headed server with a headless one", of daemons started
\* headed: an invocation ends one that runs only if it was told to connect or
\* disconnect, found it older than itself, or lost its connection (ensureServer,
\* sendCommand), whatever others do between its look and its kill.  It says
\* nothing of a daemon started headless that a handoff has shown: the state file
\* still calls that one launched, and ShownKept fails of it.
THEOREM HeadedSurvives == Spec => HeadedKept
<1>1. Init => LaunchTyped /\ KeepInv
  BY InitLaunchTyped, InitKeep
<1>2. LaunchTyped /\ KeepInv /\ [Next]_vars => (LaunchTyped /\ KeepInv)'
  BY NextLaunchTyped, NextKeep
<1>3. LaunchTyped /\ KeepInv /\ [Next]_vars =>
        [\A s \in Server : \A c \in Cli :
           /\ Is(s, {"up", "hung"}) /\ srv[s].recorded /\ srv'[s].st \in {"closing", "dead"}
           /\ pc[c] \in {"term", "kill"} /\ pc'[c] # pc[c]
           => cmd[c] \in {"connect", "disconnect"} \/ retries[c] = 1 \/ srv[s].version # version]_vars
  <2> SUFFICES ASSUME LaunchTyped, KeepInv, [Next]_vars,
                      NEW s \in Server, NEW c \in Cli,
                      Is(s, {"up", "hung"}), srv[s].recorded, srv'[s].st \in {"closing", "dead"},
                      pc[c] \in {"term", "kill"}, pc'[c] # pc[c]
               PROVE  cmd[c] \in {"connect", "disconnect"} \/ retries[c] = 1 \/ srv[s].version # version
    OBVIOUS
  <2>1. saw[c] = s /\ s # None
    BY EndsTheOne DEF Is
  <2> QED
    BY <2>1 DEF KeepInv, MayKill, NoneToKeep, Is
<1> QED
  BY <1>1, <1>2, <1>3, PTL DEF Spec, HeadedKept

(***************************************************************************)
(* The tabs: BrowseTabs.                                                   *)
(***************************************************************************)

\* The least and the greatest of finitely many ids.
LEMMA LeastId ==
    ASSUME NEW S, S \subseteq Nat, S # {}
    PROVE  \E x \in S : \A y \in S : x <= y
<1> DEFINE less == OpToRel(<, Nat)
<1>1. IsWellFoundedOn(less, Nat)
  BY NatLessThanWellFounded
<1>2. \A x, y \in Nat : x < y <=> <<x, y>> \in less
  BY DEF OpToRel
<1> HIDE DEF less
<1>3. \E x \in S : \A y \in S : ~(<<y, x>> \in less)
  BY <1>1, WFMin
<1>4. PICK x \in S : \A y \in S : ~(<<y, x>> \in less)
  BY <1>3
<1>5. ASSUME NEW y \in S PROVE x <= y
  <2>1. x \in Nat /\ y \in Nat /\ ~(y < x)
    BY <1>2, <1>4
  <2> QED
    BY <2>1
<1> QED
  BY <1>4, <1>5

LEMMA MinId ==
    ASSUME NEW S, S \subseteq Nat, S # {}
    PROVE  Min(S) \in S
BY LeastId DEF Min

LEMMA MaxId ==
    ASSUME NEW n \in Nat, NEW S, S \subseteq 1..n, S # {}
    PROVE  Max(S) \in S
<1> DEFINE T == {x \in 0..n : n - x \in S}
<1>1. T \subseteq Nat /\ T # {}
  <2>1. PICK x \in S : x \in 1..n
    OBVIOUS
  <2>2. n - x \in 0..n /\ n - (n - x) = x
    BY <2>1
  <2>3. n - x \in T
    BY <2>1, <2>2, Zenon
  <2>4. \A u \in T : u \in Nat
    OBVIOUS
  <2> HIDE DEF T
  <2> QED
    BY <2>3, <2>4
<1>2. PICK t \in T : \A u \in T : t <= u
  <2> HIDE DEF T
  <2> QED
    BY <1>1, LeastId
<1>3. \A y \in S : n - t >= y
  <2> TAKE y \in S
  <2>1. n - y \in T
    BY DEF T
  <2> QED
    BY <1>2, <2>1
<1>4. \E x \in S : \A y \in S : x >= y
  BY <1>2, <1>3
<1> QED
  BY <1>4 DEF Max

TabCommand == {"newtab", "close", "tab", "page", "scale", "handoff", "load"}

SavedTab == [tab : Nat, owner : Agent \union {NoOwner}, active : BOOLEAN, by : Client]

MapsTyped ==
    /\ nextId \in 1..(MaxTabs + 1) /\ listed \subseteq 1..(nextId - 1)
    /\ orphaned \subseteq 1..(nextId - 1)
    /\ owner \in [0..MaxTabs -> Agent \union {NoOwner}]
    /\ active \in 0..(nextId - 1)
    /\ at \in [Id -> 0..MaxContexts] /\ by \in [Id -> Client]

ContextTyped ==
    /\ context \in Context /\ mode \in {"launched", "headed"} /\ scale \in Scales
    /\ contexts \in [Context -> {0} \union Scales]

AskTyped ==
    /\ ask \in [Req -> [cmd : TabCommand, who : Client, pin : 0..MaxTabs, arg : Nat]]
    /\ \A r \in Req : ask[r].cmd = "scale" => ask[r].arg \in Scales

TabPc ==
    {"start", "done", "end", "page", "newPage", "close", "load", "save", "closing", "context",
     "launch", "owners", "restore", "fallback", "blank", "undo"}

Locals ==
    [pc : TabPc, saved : Nat, tab : Nat, ctx : 0..MaxContexts, left : SUBSET SavedTab,
     mark : Nat, prev : {0} \union Scales, round : 0..1]

\* Which command may be at l.
CommandAt(r, l) ==
    /\ l \in {"closing", "context", "fallback", "blank"} => ask[r].cmd = "scale"
    /\ l \in {"launch", "undo"} => ask[r].cmd = "handoff"
    /\ l = "save" => ask[r].cmd \in {"scale", "handoff"}

\* A command with local variables v, when ids below n have been used.
AskedTo(r, v, n) ==
    /\ v.saved < n /\ v.mark < n
    /\ v.pc # "start" => v.prev # 0
    /\ CommandAt(r, v.pc)

ReqTyped ==
    /\ req \in [Req -> Locals]
    /\ \A r \in Req : AskedTo(r, req[r], nextId)

TabsTyped == MapsTyped /\ ContextTyped /\ AskTyped /\ ReqTyped

LEMMA ClosedMaps ==
    ASSUME MapsTyped, NEW gone, Closed(gone), UNCHANGED <<nextId, orphaned, at, by>>,
           owner' \in [0..MaxTabs -> Agent \union {NoOwner}]
    PROVE  MapsTyped'
<1>0. nextId \in Nat /\ nextId - 1 \in Nat
  BY TabAssumption DEF MapsTyped
<1>1. listed' \subseteq listed /\ listed' = listed \ gone
  BY DEF Closed
<1>2. listed' # {} => Max(listed') \in listed'
  <2>1. listed' \subseteq 1..(nextId - 1)
    BY <1>1 DEF MapsTyped
  <2> QED
    BY <1>0, <2>1, MaxId
<1>3. active' = active \/ active' = 0 \/ (listed' # {} /\ active' = Max(listed'))
  BY <1>1 DEF Closed
<1>4. active' \in 0..(nextId - 1)
  <2>1. \A i \in listed' : i \in 0..(nextId - 1)
    BY <1>0, <1>1 DEF MapsTyped
  <2>2. active \in 0..(nextId - 1) /\ 0 \in 0..(nextId - 1)
    BY <1>0 DEF MapsTyped
  <2>3. CASE listed' # {} /\ active' = Max(listed')
    BY <1>2, <2>1, <2>3, Zenon
  <2> QED
    BY <1>3, <2>2, <2>3, Zenon
<1> QED
  BY <1>1, <1>4 DEF MapsTyped

LEMMA RegisterMaps ==
    ASSUME MapsTyped, NEW c \in 0..MaxContexts, NEW client \in Client, Register(c, client),
           orphaned' = orphaned, active' \in {active, nextId},
           owner' \in [0..MaxTabs -> Agent \union {NoOwner}]
    PROVE  MapsTyped' /\ nextId < nextId' /\ nextId <= nextId'
<1>1. nextId \in 1..MaxTabs /\ nextId' = nextId + 1 /\ MaxTabs \in Nat
  BY TabAssumption DEF Register, Id
<1>2. at' \in [Id -> 0..MaxContexts] /\ by' \in [Id -> Client]
  BY DEF MapsTyped, Register
<1>3. listed' = listed \union {nextId}
  BY DEF Register
<1> QED
  BY <1>1, <1>2, <1>3 DEF MapsTyped

LEMMA SameMaps ==
    ASSUME MapsTyped, UNCHANGED <<listed, owner, active, nextId, orphaned, at, by>>
    PROVE  MapsTyped' /\ nextId <= nextId'
<1>1. nextId \in Nat
  BY TabAssumption DEF MapsTyped
<1> QED
  BY <1>1 DEF MapsTyped

\* A step of one command, seen in its local variables.
LEMMA StepTyped ==
    ASSUME AskTyped, ReqTyped, MapsTyped', nextId <= nextId', nextId \in Nat, ask' = ask,
           NEW r \in Req, NEW v \in Locals, req' = [req EXCEPT ![r] = v], AskedTo(r, v, nextId')
    PROVE  AskTyped' /\ ReqTyped'
<1>1. AskTyped'
  BY DEF AskTyped
<1>2. req' \in [Req -> Locals]
  BY DEF ReqTyped
<1>3. nextId' \in Nat
  BY TabAssumption DEF MapsTyped
<1>4. ASSUME NEW q \in Req PROVE AskedTo(q, req'[q], nextId')
  <2>1. CASE q = r
    <3>1. req'[q] = v
      BY <2>1 DEF ReqTyped
    <3> QED
      BY <2>1, <3>1, Zenon
  <2>2. CASE q # r
    <3>1. req'[q] = req[q] /\ req[q] \in Locals /\ AskedTo(q, req[q], nextId)
      BY <2>2 DEF ReqTyped
    <3>2. req[q].saved \in Nat /\ req[q].mark \in Nat
      BY <3>1 DEF Locals
    <3> QED
      BY <1>3, <3>1, <3>2 DEF AskedTo
  <2> QED
    BY <2>1, <2>2
<1> QED
  <2>1. ASSUME NEW q \in Req PROVE AskedTo(q, req[q], nextId)'
    BY <1>4 DEF AskedTo, CommandAt
  <2> QED
    BY <1>1, <1>2, <2>1 DEF ReqTyped

LEMMA EntryOf ==
    ASSUME NEW a, a.cmd \in TabCommand
    PROVE  /\ Entry(a) \in {"newPage", "save", "end", "close", "page", "load"}
           /\ Entry(a) = "save" => a.cmd \in {"scale", "handoff"} /\ mode = "launched"
BY DEF Entry, TabCommand

LEMMA StartTyped ==
    ASSUME TabsTyped, NEW r \in Req, Start(r)
    PROVE  TabsTyped'
<1> DEFINE a == ask[r]
           pinned == IF a.pin \in listed THEN a.pin ELSE active
           goal == IF a.pin # 0 THEN a.pin ELSE active
           scoped == a.who \in Agent /\ a.cmd = "newtab"
           go == CASE Denied(r, goal) -> "done"
                   [] scoped -> "newPage"
                   [] pinned \notin listed -> "end"
                   [] OTHER -> Entry(a)
           sv == IF a.pin = 0 THEN 0 ELSE active
           tb == IF a.cmd = "close" /\ a.arg # 0 THEN a.arg ELSE pinned
           v == [req[r] EXCEPT !.pc = go, !.saved = sv, !.tab = tb, !.ctx = context, !.prev = scale]
<1>1. /\ a.cmd \in TabCommand /\ a.pin \in 0..MaxTabs /\ a.arg \in Nat
      /\ a.cmd = "scale" => a.arg \in Scales
      /\ req[r] \in Locals /\ nextId \in Nat /\ nextId >= 1 /\ MaxTabs \in Nat /\ MaxContexts \in Nat
      /\ AskedTo(r, req[r], nextId)
  BY TabAssumption DEF TabsTyped, AskTyped, ReqTyped, MapsTyped
<1>2. pinned \in 0..(nextId - 1) /\ active \in 0..(nextId - 1)
  BY <1>1 DEF TabsTyped, MapsTyped
<1>3. /\ go \in {"done", "newPage", "save", "end", "close", "page", "load"}
      /\ go = "save" => a.cmd \in {"scale", "handoff"}
  BY <1>1, EntryOf
<1>4. /\ active' = (IF go = "end" /\ a.cmd = "tab" /\ a.arg \in listed THEN a.arg ELSE pinned)
      /\ scale' = (IF go = "save" /\ a.cmd = "scale" THEN a.arg ELSE scale)
      /\ UNCHANGED <<ask, listed, owner, nextId, context, mode, at, contexts, by, orphaned>>
  BY DEF Start, browser
<1>5. req' = [req EXCEPT ![r].pc = go, ![r].saved = sv, ![r].tab = tb,
                         ![r].ctx = context, ![r].prev = scale]
  BY DEF Start
<1>6. sv \in 0..(nextId - 1) /\ tb \in Nat
  BY <1>1, <1>2
<1> HIDE DEF go, pinned, sv, tb
<1>7. MapsTyped' /\ ContextTyped'
  <2>1. active' \in 0..(nextId - 1)
    BY <1>1, <1>2, <1>4 DEF TabsTyped, MapsTyped
  <2>2. scale' \in Scales
    BY <1>1, <1>4 DEF TabsTyped, ContextTyped
  <2> QED
    BY <1>4, <2>1, <2>2 DEF TabsTyped, MapsTyped, ContextTyped
<1>8. req' = [req EXCEPT ![r] = v]
  BY <1>5 DEF TabsTyped, ReqTyped, Locals
<1>9. v \in Locals
  <2>1. go \in TabPc
    BY <1>3 DEF TabPc
  <2>2. sv \in Nat /\ tb \in Nat
    BY <1>1, <1>6
  <2>3. context \in 0..MaxContexts /\ scale \in {0} \union Scales
    BY <1>1 DEF TabsTyped, ContextTyped, Context
  <2> QED
    BY <1>1, <2>1, <2>2, <2>3 DEF Locals
<1>10. AskedTo(r, v, nextId)
  <2>1. /\ v.pc = go /\ v.saved = sv /\ v.mark = req[r].mark /\ v.prev = scale
    BY <1>1 DEF Locals
  <2>2. sv < nextId /\ scale # 0
    BY <1>1, <1>6, TabAssumption DEF TabsTyped, ContextTyped
  <2> QED
    BY <1>1, <1>3, <2>1, <2>2 DEF AskedTo, CommandAt
<1> HIDE DEF v
<1> QED
  <2>1. AskTyped /\ ReqTyped /\ nextId' = nextId /\ ask' = ask
    BY <1>4 DEF TabsTyped
  <2>2. nextId <= nextId' /\ nextId \in Nat
    BY <1>1, <2>1
  <2>3. AskTyped' /\ ReqTyped'
    BY <1>7, <1>8, <1>9, <1>10, <2>1, <2>2, StepTyped
  <2> QED
    BY <1>7, <2>3 DEF TabsTyped

\* A later step of a command: what it saved, and the scale it found, stay.
LEMMA MovedTyped ==
    ASSUME TabsTyped, MapsTyped', ContextTyped', nextId <= nextId', ask' = ask,
           NEW r \in Req, ~At(r, "start"), NEW v \in Locals, req' = [req EXCEPT ![r] = v],
           v.saved = req[r].saved, v.prev = req[r].prev, v.mark < nextId', CommandAt(r, v.pc)
    PROVE  TabsTyped'
<1>1. /\ AskTyped /\ ReqTyped /\ AskedTo(r, req[r], nextId) /\ req[r].saved \in Nat
      /\ nextId \in Nat /\ nextId' \in Nat
  BY TabAssumption DEF TabsTyped, ReqTyped, Locals, MapsTyped
<1>2. AskedTo(r, v, nextId')
  BY <1>1 DEF AskedTo, At
<1>3. AskTyped' /\ ReqTyped'
  BY <1>1, <1>2, StepTyped
<1> QED
  BY <1>3 DEF TabsTyped

LEMMA ProceedTyped ==
    ASSUME TabsTyped, MapsTyped', ContextTyped', nextId <= nextId', ask' = ask,
           NEW r \in Req, ~At(r, "start"), NEW l \in TabPc, Proceed(r, l), CommandAt(r, l)
    PROVE  TabsTyped'
<1> DEFINE v == [req[r] EXCEPT !.pc = l]
<1>1. /\ req[r] \in Locals /\ req[r].mark < nextId /\ nextId \in Nat /\ nextId' \in Nat
      /\ req[r].mark \in Nat
  BY TabAssumption DEF TabsTyped, ReqTyped, AskedTo, Locals, MapsTyped
<1>2. req' = [req EXCEPT ![r] = v]
  BY DEF Proceed, TabsTyped, ReqTyped, Locals
<1>3. /\ v \in Locals /\ v.saved = req[r].saved /\ v.prev = req[r].prev
      /\ v.mark = req[r].mark /\ v.pc = l
  BY <1>1 DEF Locals
<1> HIDE DEF v
<1>4. v.mark < nextId'
  BY <1>1, <1>3
<1>5. CommandAt(r, v.pc)
  BY <1>3
<1> QED
  BY <1>2, <1>3, <1>4, <1>5, MovedTyped

LEMMA TypedAt ==
    ASSUME TabsTyped, NEW r \in Req
    PROVE  /\ req[r] \in Locals /\ AskedTo(r, req[r], nextId) /\ CommandAt(r, req[r].pc)
           /\ req[r].saved \in 0..(nextId - 1) /\ req[r].mark \in 0..(nextId - 1)
           /\ ask[r].cmd \in TabCommand /\ ask[r].who \in Client
           /\ nextId \in Nat /\ MaxTabs \in Nat /\ MaxContexts \in Nat /\ nextId <= MaxTabs + 1
BY TabAssumption DEF TabsTyped, AskTyped, ReqTyped, MapsTyped, AskedTo, Locals

LEMMA ReplaceTyped ==
    ASSUME ContextTyped, NEW old \in {0} \union Scales, NEW fresh \in {0} \union Scales, Replace(old, fresh),
           mode' \in {"launched", "headed"}, scale' \in Scales
    PROVE  ContextTyped'
<1>1. context' \in Context /\ context' = FreshContext
  BY DEF Replace
<1>2. contexts' \in [Context -> {0} \union Scales]
  BY <1>1 DEF Replace, ContextTyped
<1> QED
  BY <1>1, <1>2 DEF ContextTyped

LEMMA EndTyped ==
    ASSUME TabsTyped, NEW r \in Req, End(r) \/ RunOnPage(r) \/ ClearOwners(r)
    PROVE  TabsTyped'
<1>1. /\ nextId' = nextId /\ UNCHANGED <<ask, listed, at, by, context, mode, scale, contexts>>
      /\ ~At(r, "start")
  BY DEF End, RunOnPage, ClearOwners, tabs, browser, At
<1>2. /\ active' \in {active, req[r].saved}
      /\ owner' \in {owner, [i \in 0..MaxTabs |-> NoOwner]}
      /\ orphaned' \in {orphaned, orphaned \union listed}
  BY DEF End, RunOnPage, ClearOwners, tabs
<1>3. MapsTyped' /\ ContextTyped'
  <2>1. active' \in 0..(nextId' - 1)
    BY <1>1, <1>2, TypedAt DEF TabsTyped, MapsTyped
  <2>2. owner' \in [0..MaxTabs -> Agent \union {NoOwner}]
    BY <1>2 DEF TabsTyped, MapsTyped
  <2>3. orphaned' \subseteq 1..(nextId' - 1)
    BY <1>1, <1>2 DEF TabsTyped, MapsTyped
  <2> QED
    BY <1>1, <2>1, <2>2, <2>3 DEF TabsTyped, MapsTyped, ContextTyped
<1>4. nextId <= nextId'
  BY <1>1, TypedAt
<1>5. PICK l \in {"done", "end", "restore", Failed(r)} : Proceed(r, l)
  BY DEF End, RunOnPage, ClearOwners
<1>6. l \in TabPc /\ CommandAt(r, l)
  BY DEF TabPc, CommandAt, Failed
<1> QED
  BY <1>1, <1>3, <1>4, <1>5, <1>6, ProceedTyped

LEMMA NewTabTyped ==
    ASSUME TabsTyped, NEW r \in Req, NewTab(r)
    PROVE  TabsTyped'
<1> DEFINE who == ask[r].who
           mine == who \in Agent /\ ask[r].cmd = "newtab"
<1>1. /\ UNCHANGED <<ask, context, mode, scale, contexts, orphaned>> /\ ~At(r, "start")
      /\ Proceed(r, IF mine THEN "done" ELSE "end")
  BY DEF NewTab, At
<1>2. MapsTyped' /\ nextId <= nextId'
  <2>1. CASE contexts[req[r].ctx] # 0
    <3>1. /\ Register(req[r].ctx, IF mine THEN who ELSE Root) /\ active' = nextId
          /\ owner' = IF mine THEN [owner EXCEPT ![nextId] = who] ELSE owner
      BY <2>1 DEF NewTab
    <3>2. req[r].ctx \in 0..MaxContexts /\ (IF mine THEN who ELSE Root) \in Client
      BY TypedAt DEF Locals, Client
    <3>3. owner' \in [0..MaxTabs -> Agent \union {NoOwner}]
      BY <3>1 DEF TabsTyped, MapsTyped
    <3> QED
      BY <1>1, <3>1, <3>2, <3>3, RegisterMaps DEF TabsTyped
  <2>2. CASE contexts[req[r].ctx] = 0
    <3>1. UNCHANGED <<listed, owner, active, nextId, at, by>>
      BY <2>2 DEF NewTab, tabs
    <3> QED
      BY <1>1, <3>1, SameMaps DEF TabsTyped
  <2> QED
    BY <2>1, <2>2
<1>3. ContextTyped'
  BY <1>1 DEF TabsTyped, ContextTyped
<1>4. \A l \in {"done", "end"} : l \in TabPc /\ CommandAt(r, l)
  BY DEF TabPc, CommandAt
<1> QED
  BY <1>1, <1>2, <1>3, <1>4, ProceedTyped

LEMMA CloseTabTyped ==
    ASSUME TabsTyped, NEW r \in Req, CloseTab(r)
    PROVE  TabsTyped'
<1> DEFINE i == req[r].tab
           v == [req[r] EXCEPT !.pc = "newPage", !.ctx = context]
<1>1. /\ UNCHANGED <<ask, nextId, context, mode, scale, contexts, orphaned, at, by>>
      /\ ~At(r, "start")
  BY DEF CloseTab, At
<1>2. MapsTyped' /\ nextId <= nextId'
  <2>1. CASE i \in listed
    <3>1. Closed({i}) /\ owner' = [owner EXCEPT ![i] = NoOwner]
      BY <2>1 DEF CloseTab
    <3>2. owner' \in [0..MaxTabs -> Agent \union {NoOwner}]
      BY <3>1 DEF TabsTyped, MapsTyped
    <3> QED
      BY <1>1, <3>1, <3>2, ClosedMaps, TypedAt DEF TabsTyped
  <2>2. CASE i \notin listed
    <3>1. UNCHANGED <<listed, owner, active>>
      BY <2>2 DEF CloseTab
    <3> QED
      BY <1>1, <3>1, SameMaps DEF TabsTyped
  <2> QED
    BY <2>1, <2>2
<1>3. ContextTyped'
  BY <1>1 DEF TabsTyped, ContextTyped
<1>4. CASE Proceed(r, "end")
  <2>1. "end" \in TabPc /\ CommandAt(r, "end")
    BY DEF TabPc, CommandAt
  <2> QED
    BY <1>1, <1>2, <1>3, <1>4, <2>1, ProceedTyped
<1>5. CASE req' = [req EXCEPT ![r].pc = "newPage", ![r].ctx = context]
  <2>1. req' = [req EXCEPT ![r] = v]
    BY <1>5 DEF TabsTyped, ReqTyped, Locals
  <2>2. context \in 0..MaxContexts /\ "newPage" \in TabPc
    BY TypedAt DEF TabsTyped, ContextTyped, Context, TabPc
  <2>3. /\ v \in Locals /\ v.pc = "newPage" /\ v.saved = req[r].saved /\ v.prev = req[r].prev
        /\ v.mark = req[r].mark
    BY <2>2, TypedAt DEF Locals
  <2> HIDE DEF v
  <2>4. v.mark < nextId' /\ CommandAt(r, v.pc)
    BY <1>1, <2>3, TypedAt DEF CommandAt
  <2> QED
    BY <1>1, <1>2, <1>3, <2>1, <2>3, <2>4, MovedTyped
<1> QED
  BY <1>4, <1>5 DEF CloseTab

LEMMA PageClosesTyped ==
    ASSUME TabsTyped, NEW j \in Id, PageCloses(j)
    PROVE  TabsTyped'
<1>1. UNCHANGED <<ask, req, owner, nextId, context, mode, scale, contexts, orphaned, at, by>> /\ Closed({j})
  BY DEF PageCloses
<1>2. MapsTyped'
  <2>1. owner' \in [0..MaxTabs -> Agent \union {NoOwner}]
    BY <1>1 DEF TabsTyped, MapsTyped
  <2> QED
    BY <1>1, <2>1, ClosedMaps DEF TabsTyped
<1> QED
  BY <1>1, <1>2 DEF TabsTyped, ContextTyped, AskTyped, ReqTyped, AskedTo, CommandAt

LEMMA SaveTyped ==
    ASSUME TabsTyped, NEW r \in Req, Save(r)
    PROVE  TabsTyped'
<1> DEFINE pages == {Saved(i) : i \in listed}
           l == IF ask[r].cmd = "scale" THEN "closing" ELSE "launch"
           v == [req[r] EXCEPT !.left = pages, !.mark = 0, !.pc = l]
<1>1. /\ UNCHANGED <<ask, listed, owner, active, nextId, context, mode, scale, contexts, at, by, orphaned>>
      /\ req[r].pc = "save" /\ ~At(r, "start")
  BY DEF Save, At, tabs, browser
<1>2. MapsTyped' /\ ContextTyped' /\ nextId <= nextId'
  BY <1>1, SameMaps DEF TabsTyped, ContextTyped
<1>3. ask[r].cmd \in {"scale", "handoff"}
  BY <1>1, TypedAt DEF CommandAt
<1>4. CASE req' = [req EXCEPT ![r].left = pages, ![r].mark = 0, ![r].pc = l]
  <2>1. \A i \in listed : Saved(i) \in SavedTab
    <3> TAKE i \in listed
    <3>1. i \in Nat /\ i \in 0..MaxTabs /\ i \in Id
      BY TypedAt DEF TabsTyped, MapsTyped, Id
    <3>2. owner[i] \in Agent \union {NoOwner} /\ by[i] \in Client /\ Root \in Client
      BY <3>1 DEF TabsTyped, MapsTyped, Client
    <3> QED
      BY <3>1, <3>2 DEF Saved, SavedTab
  <2>2. pages \in SUBSET SavedTab
    BY <2>1
  <2>3. l \in TabPc /\ CommandAt(r, l)
    BY <1>3 DEF TabPc, CommandAt
  <2> HIDE DEF pages, l
  <2>4. req' = [req EXCEPT ![r] = v]
    BY <1>4 DEF TabsTyped, ReqTyped, Locals
  <2>5. v \in Locals /\ v.pc = l /\ v.saved = req[r].saved /\ v.prev = req[r].prev /\ v.mark = 0
    BY <2>2, <2>3, TypedAt DEF Locals
  <2> HIDE DEF v
  <2>6. v.mark < nextId' /\ CommandAt(r, v.pc)
    BY <1>1, <2>3, <2>5, TypedAt DEF TabsTyped, MapsTyped
  <2> QED
    BY <1>1, <1>2, <2>4, <2>5, <2>6, MovedTyped
<1>5. CASE Proceed(r, IF ask[r].cmd = "scale" THEN "fallback" ELSE "end")
  <2>1. \A k \in {"end", "fallback"} : k \in TabPc /\ (k = "fallback" => ask[r].cmd = "scale") => CommandAt(r, k)
    BY DEF CommandAt
  <2>2. "end" \in TabPc /\ "fallback" \in TabPc
    BY DEF TabPc
  <2> QED
    BY <1>1, <1>2, <1>5, <2>1, <2>2, ProceedTyped
<1> QED
  BY <1>4, <1>5 DEF Save

LEMMA ClosePagesTyped ==
    ASSUME TabsTyped, NEW r \in Req, ClosePages(r)
    PROVE  TabsTyped'
<1> DEFINE pages == {[tab |-> 1, owner |-> NoOwner, by |-> Root, active |-> TRUE]}
           v == [req[r] EXCEPT !.pc = "owners", !.mark = 0, !.left = pages]
<1>1. /\ UNCHANGED <<ask, owner, nextId, context, mode, scale, contexts, at, by, orphaned>>
      /\ Closed(listed) /\ ~At(r, "start")
  BY DEF ClosePages, At
<1>2. MapsTyped' /\ ContextTyped' /\ nextId <= nextId'
  <2>1. owner' \in [0..MaxTabs -> Agent \union {NoOwner}]
    BY <1>1 DEF TabsTyped, MapsTyped
  <2> QED
    BY <1>1, <2>1, ClosedMaps, TypedAt DEF TabsTyped, ContextTyped
<1>3. CASE At(r, "closing")
  <2>1. Proceed(r, "context")
    BY <1>3 DEF ClosePages, Proceed
  <2>2. "context" \in TabPc /\ CommandAt(r, "context")
    BY <1>3, TypedAt DEF At, CommandAt, TabPc
  <2> QED
    BY <1>1, <1>2, <2>1, <2>2, ProceedTyped
<1>4. CASE ~At(r, "closing")
  <2>1. req' = [req EXCEPT ![r].pc = "owners", ![r].mark = 0, ![r].left = pages]
    BY <1>4 DEF ClosePages
  <2>2. pages \in SUBSET SavedTab /\ "owners" \in TabPc
    BY DEF SavedTab, Client, TabPc
  <2> HIDE DEF pages
  <2>3. req' = [req EXCEPT ![r] = v]
    BY <2>1 DEF TabsTyped, ReqTyped, Locals
  <2>4. /\ v \in Locals /\ v.pc = "owners" /\ v.saved = req[r].saved /\ v.prev = req[r].prev
        /\ v.mark = 0
    BY <2>2, TypedAt DEF Locals
  <2> HIDE DEF v
  <2>5. v.mark < nextId' /\ CommandAt(r, v.pc)
    BY <1>1, <2>4, TypedAt DEF TabsTyped, MapsTyped, CommandAt
  <2> QED
    BY <1>1, <1>2, <2>3, <2>4, <2>5, MovedTyped
<1> QED
  BY <1>3, <1>4

LEMMA ContextStepsTyped ==
    ASSUME TabsTyped, NEW r \in Req, NewContext(r) \/ LaunchHeaded(r) \/ UndoHandoff(r)
    PROVE  TabsTyped'
<1>1. /\ UNCHANGED <<ask, owner, nextId, scale, at, by, orphaned>> /\ ~At(r, "start")
      /\ mode' \in {mode, "headed"}
      /\ At(r, "context") \/ At(r, "launch") \/ At(r, "undo")
  BY DEF NewContext, LaunchHeaded, UndoHandoff, At
<1>2. MapsTyped' /\ nextId <= nextId'
  <2>1. nextId <= nextId' /\ owner' \in [0..MaxTabs -> Agent \union {NoOwner}]
    BY <1>1, TypedAt DEF TabsTyped, MapsTyped
  <2>2. CASE LaunchHeaded(r)
    <3>1. listed' \subseteq listed /\ active' = active
      BY <2>2 DEF LaunchHeaded
    <3> QED
      BY <1>1, <2>1, <3>1 DEF TabsTyped, MapsTyped
  <2>3. CASE NewContext(r) \/ UndoHandoff(r)
    <3>1. Closed(PagesOf(context))
      BY <2>3 DEF NewContext, UndoHandoff
    <3> QED
      BY <1>1, <2>1, <3>1, ClosedMaps DEF TabsTyped
  <2> QED
    BY <2>1, <2>2, <2>3
<1>3. ContextTyped'
  <2>1. scale' \in Scales /\ mode' \in {"launched", "headed"} /\ contexts[context] \in {0} \union Scales /\ ScaleOf(r) \in {0} \union Scales
    BY <1>1 DEF TabsTyped, ContextTyped, ScaleOf
  <2>2. CASE Replace(0, ScaleOf(r)) \/ Replace(contexts[context], 1)
    <3>1. 0 \in {0} \union Scales /\ 1 \in {0} \union Scales
      BY TabAssumption
    <3> QED
      BY <2>1, <2>2, <3>1, ReplaceTyped DEF TabsTyped
  <2>3. CASE contexts' \in {contexts, [contexts EXCEPT ![context] = 0]} /\ context' = context
    BY <2>1, <2>3 DEF TabsTyped, ContextTyped
  <2> QED
    BY <2>2, <2>3 DEF NewContext, LaunchHeaded, UndoHandoff
<1>4. PICK l \in {"owners", "end", "fallback"} : Proceed(r, l) /\ (l = "fallback" => At(r, "context"))
  BY DEF NewContext, LaunchHeaded, UndoHandoff
<1>5. l \in TabPc /\ CommandAt(r, l)
  BY <1>4, TypedAt DEF TabPc, CommandAt, At
<1> QED
  BY <1>1, <1>2, <1>3, <1>4, <1>5, ProceedTyped

LEMMA RestorePageTyped ==
    ASSUME TabsTyped, NEW r \in Req, RestorePage(r)
    PROVE  TabsTyped'
<1>1. PICK saved \in req[r].left :
        /\ At(r, "restore")
        /\ UNCHANGED <<ask, active, context, mode, scale, contexts, orphaned>>
        /\ \/ /\ Register(context, saved.by)
              /\ owner' = [owner EXCEPT ![nextId] = saved.owner]
              /\ req' = [req EXCEPT ![r].left = @ \ {saved},
                                    ![r].mark = IF saved.active THEN nextId ELSE @]
           \/ /\ Proceed(r, Failed(r))
              /\ UNCHANGED <<listed, owner, nextId, at, by>>
  BY DEF RestorePage
<1>2. ~At(r, "start") /\ ContextTyped' /\ saved \in SavedTab
  BY <1>1, TypedAt DEF At, TabsTyped, ContextTyped, Locals
<1>3. CASE /\ Register(context, saved.by) /\ owner' = [owner EXCEPT ![nextId] = saved.owner]
           /\ req' = [req EXCEPT ![r].left = @ \ {saved},
                                 ![r].mark = IF saved.active THEN nextId ELSE @]
  <2> DEFINE rest == req[r].left \ {saved}
             m == IF saved.active THEN nextId ELSE req[r].mark
             v == [req[r] EXCEPT !.left = rest, !.mark = m]
  <2>1. context \in 0..MaxContexts /\ saved.by \in Client /\ saved.owner \in Agent \union {NoOwner}
    BY <1>2, TypedAt DEF TabsTyped, ContextTyped, Context, SavedTab
  <2>2. owner' \in [0..MaxTabs -> Agent \union {NoOwner}]
    BY <1>3, <2>1 DEF TabsTyped, MapsTyped
  <2>3. MapsTyped' /\ nextId < nextId'
    BY <1>1, <1>3, <2>1, <2>2, RegisterMaps DEF TabsTyped
  <2>4. nextId' \in Nat /\ nextId \in Nat /\ nextId <= nextId'
    BY <2>3, TypedAt DEF MapsTyped
  <2>5. req' = [req EXCEPT ![r].left = rest, ![r].mark = m]
    BY <1>3 DEF TabsTyped, ReqTyped, Locals
  <2>6. rest \in SUBSET SavedTab /\ m \in Nat /\ m < nextId'
    BY <2>3, <2>4, TypedAt DEF Locals
  <2> HIDE DEF rest, m
  <2>7. req' = [req EXCEPT ![r] = v]
    BY <2>5 DEF TabsTyped, ReqTyped, Locals
  <2>8. /\ v \in Locals /\ v.pc = req[r].pc /\ v.saved = req[r].saved /\ v.prev = req[r].prev
        /\ v.mark = m
    BY <2>6, TypedAt DEF Locals
  <2> HIDE DEF v
  <2>9. v.mark < nextId' /\ CommandAt(r, v.pc)
    BY <2>6, <2>8, TypedAt
  <2> QED
    BY <1>1, <1>2, <2>3, <2>4, <2>7, <2>8, <2>9, MovedTyped
<1>4. CASE Proceed(r, Failed(r)) /\ UNCHANGED <<listed, owner, nextId, at, by>>
  <2>1. MapsTyped' /\ nextId <= nextId'
    BY <1>1, <1>4, SameMaps DEF TabsTyped
  <2>2. Failed(r) \in TabPc /\ CommandAt(r, Failed(r))
    BY DEF Failed, TabPc, CommandAt
  <2> QED
    BY <1>1, <1>2, <1>4, <2>1, <2>2, ProceedTyped
<1> QED
  BY <1>1, <1>3, <1>4

LEMMA RestoreEndTyped ==
    ASSUME TabsTyped, NEW r \in Req, RestoreEnd(r)
    PROVE  TabsTyped'
<1> DEFINE v == [req[r] EXCEPT !.pc = "newPage", !.ctx = context]
<1>1. /\ UNCHANGED <<ask, owner, nextId, context, mode, scale, at, by, orphaned>> /\ ~At(r, "start")
      /\ listed' \subseteq listed
  BY DEF RestoreEnd, At
<1>2. ContextTyped'
  <2>1. PICK old : contexts' = [c \in Context |-> IF c \in old THEN 0 ELSE contexts[c]]
    BY DEF RestoreEnd
  <2>2. contexts' \in [Context -> {0} \union Scales]
    BY <2>1 DEF TabsTyped, ContextTyped
  <2> QED
    BY <1>1, <2>2 DEF TabsTyped, ContextTyped
<1>3. MapsTyped' /\ nextId <= nextId'
  <2>1. active' \in 0..(nextId - 1)
    <3>1. CASE listed = {}
      BY <3>1 DEF RestoreEnd, TabsTyped, MapsTyped
    <3>2. CASE listed # {}
      <4>1. active' = IF req[r].mark # 0 THEN req[r].mark ELSE Min(listed)
        BY <3>2 DEF RestoreEnd
      <4>2. listed \subseteq Nat /\ listed \subseteq 0..(nextId - 1)
        BY TypedAt DEF TabsTyped, MapsTyped
      <4>3. Min(listed) \in listed
        BY <3>2, <4>2, MinId
      <4> QED
        BY <4>1, <4>2, <4>3, TypedAt, Zenon
    <3> QED
      BY <3>1, <3>2
  <2> QED
    BY <1>1, <2>1, TypedAt DEF TabsTyped, MapsTyped
<1>4. CASE Proceed(r, "end")
  <2>1. "end" \in TabPc /\ CommandAt(r, "end")
    BY DEF TabPc, CommandAt
  <2> QED
    BY <1>1, <1>2, <1>3, <1>4, <2>1, ProceedTyped
<1>5. CASE req' = [req EXCEPT ![r].pc = "newPage", ![r].ctx = context]
  <2>1. req' = [req EXCEPT ![r] = v]
    BY <1>5 DEF TabsTyped, ReqTyped, Locals
  <2>2. context \in 0..MaxContexts /\ "newPage" \in TabPc
    BY TypedAt DEF TabsTyped, ContextTyped, Context, TabPc
  <2>3. /\ v \in Locals /\ v.pc = "newPage" /\ v.saved = req[r].saved /\ v.prev = req[r].prev
        /\ v.mark = req[r].mark
    BY <2>2, TypedAt DEF Locals
  <2> HIDE DEF v
  <2>4. v.mark < nextId' /\ CommandAt(r, v.pc)
    BY <1>1, <2>3, TypedAt DEF CommandAt
  <2> QED
    BY <1>1, <1>2, <1>3, <2>1, <2>3, <2>4, MovedTyped
<1> QED
  BY <1>4, <1>5 DEF RestoreEnd

LEMMA RoundOver ==
    ASSUME NEW x \in Locals, NEW l \in TabPc, NEW k \in 0..1
    PROVE  [x EXCEPT !.pc = l, !.round = k] \in Locals
BY DEF Locals

\* Both ways out of a fallback go on to the second round, or end.
LEMMA AgainTyped ==
    ASSUME TabsTyped, MapsTyped', ContextTyped', nextId <= nextId', ask' = ask,
           NEW r \in Req, At(r, "fallback") \/ At(r, "blank"),
           NEW again \in BOOLEAN,
           req' = [req EXCEPT ![r].pc = IF again THEN "save" ELSE "end", ![r].round = 1]
    PROVE  TabsTyped'
<1> DEFINE l == IF again THEN "save" ELSE "end"
           v == [req[r] EXCEPT !.pc = l, !.round = 1]
<1>1. ask[r].cmd = "scale" /\ ~At(r, "start")
  BY TypedAt DEF At, CommandAt
<1>2. l \in TabPc /\ CommandAt(r, l)
  BY <1>1 DEF TabPc, CommandAt
<1>3. req' = [req EXCEPT ![r].pc = l, ![r].round = 1]
  OBVIOUS
<1> HIDE DEF l
<1>4. req' = [req EXCEPT ![r] = v]
  BY <1>3 DEF TabsTyped, ReqTyped, Locals
<1>5. v \in Locals /\ v.pc = l /\ v.saved = req[r].saved /\ v.prev = req[r].prev /\ v.mark = req[r].mark
  <2>1. req[r] \in Locals /\ l \in TabPc
    BY <1>2, TypedAt
  <2>2. 1 \in 0..1
    OBVIOUS
  <2>3. v \in Locals
    BY <2>1, <2>2, RoundOver
  <2>4. v.pc = l /\ v.saved = req[r].saved /\ v.prev = req[r].prev /\ v.mark = req[r].mark
    BY <2>1 DEF Locals
  <2> QED
    BY <2>3, <2>4
<1> HIDE DEF v
<1>6. v.mark < nextId' /\ CommandAt(r, v.pc)
  BY <1>2, <1>5, TypedAt DEF MapsTyped
<1> QED
  BY <1>1, <1>4, <1>5, <1>6, MovedTyped

LEMMA FallbackTyped ==
    ASSUME TabsTyped, NEW r \in Req, Fallback(r)
    PROVE  TabsTyped'
<1> DEFINE v == [req[r] EXCEPT !.pc = "blank", !.ctx = FreshContext]
           again == req[r].round = 0
<1>1. /\ UNCHANGED <<ask, owner, nextId, mode, at, by, orphaned>> /\ At(r, "fallback")
      /\ listed' = {} /\ active' = active
  BY DEF Fallback, DropTabs
<1>2. MapsTyped' /\ nextId <= nextId' /\ ~At(r, "start")
  BY <1>1, TypedAt DEF TabsTyped, MapsTyped, At
<1>3. /\ mode' \in {"launched", "headed"} /\ ScaleOf(r) \in {0} \union Scales
      /\ scale \in Scales /\ req[r].prev \in Scales /\ context \in Context
  BY <1>1, TypedAt DEF TabsTyped, ContextTyped, ScaleOf, AskedTo, At, Locals
<1>4. CASE /\ Replace(0, ScaleOf(r)) /\ UNCHANGED scale
           /\ req' = [req EXCEPT ![r].pc = "blank", ![r].ctx = FreshContext]
  <2>1. ContextTyped'
    BY <1>3, <1>4, ReplaceTyped DEF TabsTyped
  <2>2. FreshContext \in 0..MaxContexts /\ "blank" \in TabPc
    BY <1>4, TypedAt DEF Replace, Context, TabPc
  <2>3. req' = [req EXCEPT ![r] = v]
    BY <1>4 DEF TabsTyped, ReqTyped, Locals
  <2>4. /\ v \in Locals /\ v.pc = "blank" /\ v.saved = req[r].saved /\ v.prev = req[r].prev
        /\ v.mark = req[r].mark
    BY <2>2, TypedAt DEF Locals
  <2> HIDE DEF v
  <2>5. v.mark < nextId' /\ CommandAt(r, v.pc)
    BY <1>1, <2>4, TypedAt DEF CommandAt, At
  <2> QED
    BY <1>1, <1>2, <2>1, <2>3, <2>4, <2>5, MovedTyped
<1>5. CASE /\ contexts' = [contexts EXCEPT ![context] = 0] /\ context' = context
           /\ scale' = IF again THEN req[r].prev ELSE scale
           /\ req' = [req EXCEPT ![r].pc = IF again THEN "save" ELSE "end", ![r].round = 1]
  <2>1. ContextTyped'
    BY <1>3, <1>5 DEF TabsTyped, ContextTyped
  <2>2. again \in BOOLEAN
    OBVIOUS
  <2> QED
    BY <1>1, <1>2, <1>5, <2>1, <2>2, AgainTyped
<1> QED
  BY <1>4, <1>5 DEF Fallback

LEMMA BlankTyped ==
    ASSUME TabsTyped, NEW r \in Req, Blank(r)
    PROVE  TabsTyped'
<1> DEFINE again == req[r].round = 0
<1>1. /\ UNCHANGED <<ask, owner, context, mode, contexts, orphaned>> /\ At(r, "blank")
      /\ scale' = IF again THEN req[r].prev ELSE scale
      /\ req' = [req EXCEPT ![r].pc = IF again THEN "save" ELSE "end", ![r].round = 1]
  BY DEF Blank
<1>2. ContextTyped'
  <2>1. scale' \in Scales
    BY <1>1, TypedAt DEF TabsTyped, ContextTyped, AskedTo, At, Locals
  <2> QED
    BY <1>1, <2>1 DEF TabsTyped, ContextTyped
<1>3. MapsTyped' /\ nextId <= nextId'
  <2>1. CASE contexts[context] # 0
    <3>1. Register(context, Root) /\ active' = nextId
      BY <2>1 DEF Blank
    <3>2. /\ context \in 0..MaxContexts /\ Root \in Client
          /\ owner' \in [0..MaxTabs -> Agent \union {NoOwner}]
      BY <1>1, TypedAt DEF TabsTyped, MapsTyped, ContextTyped, Context, Client
    <3> QED
      BY <1>1, <3>1, <3>2, RegisterMaps DEF TabsTyped
  <2>2. CASE contexts[context] = 0
    <3>1. UNCHANGED <<listed, active, nextId, at, by>>
      BY <2>2 DEF Blank
    <3> QED
      BY <1>1, <3>1, SameMaps DEF TabsTyped
  <2> QED
    BY <2>1, <2>2
<1>4. again \in BOOLEAN
  OBVIOUS
<1> QED
  BY <1>1, <1>2, <1>3, <1>4, AgainTyped

LEMMA InitTabsTyped == TabsInit => TabsTyped
<1> SUFFICES ASSUME TabsInit PROVE TabsTyped
  OBVIOUS
<1> DEFINE first == CHOOSE a \in Agent : TRUE
<1>1. first \in Agent
  BY TabAssumption
<1>2. /\ by = [i \in Id |-> IF i = 2 THEN first ELSE Root]
      /\ owner = [i \in 0..MaxTabs |-> IF i = 2 THEN by[2] ELSE NoOwner]
      /\ listed = FirstTabs /\ active = 1 /\ nextId = 3 /\ orphaned = {}
      /\ at = [i \in Id |-> IF i \in FirstTabs THEN 1 ELSE 0]
      /\ contexts = [c \in Context |-> IF c = 1 THEN 1 ELSE 0]
      /\ context = 1 /\ mode = "launched" /\ scale = 1 /\ ask \in Requests
      /\ req = [r \in Req |-> [pc |-> "start", saved |-> 0, tab |-> 0, ctx |-> 0,
                               left |-> {}, mark |-> 0, prev |-> 0, round |-> 0]]
  BY DEF TabsInit
<1> HIDE DEF first
<1>3. MapsTyped
  <2>1. by \in [Id -> Client] /\ by[2] = first
    BY <1>1, <1>2, TabAssumption DEF Id, Client
  <2>2. owner \in [0..MaxTabs -> Agent \union {NoOwner}]
    BY <1>1, <1>2, <2>1
  <2>3. at \in [Id -> 0..MaxContexts]
    BY <1>2, TabAssumption
  <2> QED
    BY <1>2, <2>1, <2>2, <2>3, TabAssumption DEF MapsTyped, FirstTabs
<1>4. ContextTyped
  BY <1>2, TabAssumption DEF ContextTyped, Context
<1>5. AskTyped
  BY <1>2, TabAssumption DEF AskTyped, TabCommand
<1>6. ReqTyped
  BY <1>2, TabAssumption DEF ReqTyped, Locals, TabPc, AskedTo, CommandAt
<1> QED
  BY <1>3, <1>4, <1>5, <1>6 DEF TabsTyped

LEMMA NextTabsTyped == TabsTyped /\ [TabsNext]_tabsVars => TabsTyped'
<1> SUFFICES ASSUME TabsTyped, [TabsNext]_tabsVars PROVE TabsTyped'
  OBVIOUS
<1>1. ASSUME NEW r \in Req, TabsStep(r) PROVE TabsTyped'
  BY <1>1, StartTyped, EndTyped, NewTabTyped, CloseTabTyped, SaveTyped, ClosePagesTyped,
     ContextStepsTyped, RestorePageTyped, RestoreEndTyped, FallbackTyped, BlankTyped DEF TabsStep
<1>2. ASSUME NEW i \in Id, PageCloses(i) PROVE TabsTyped'
  BY <1>2, PageClosesTyped
<1>3. CASE UNCHANGED tabsVars
  BY <1>3 DEF tabsVars, tabs, browser, TabsTyped, MapsTyped, ContextTyped, AskTyped, ReqTyped,
     AskedTo, CommandAt
<1> QED
  BY <1>1, <1>2, <1>3 DEF TabsNext

\* Every variable of the tabs keeps its type, for any number of commands, agents,
\* tabs and contexts: in particular no id is listed that was not given out, and no
\* command remembers one.
THEOREM TabsTypeCorrect == TabsSpec => []TabsTypeOK
<1>1. TabsTyped => TabsTypeOK
  <2> SUFFICES ASSUME TabsTyped PROVE TabsTypeOK
    OBVIOUS
  <2>1. orphaned \subseteq Id
    BY TabAssumption DEF TabsTyped, MapsTyped, Id
  <2>2. \A r \in Req : /\ req[r].saved \in 0..(nextId - 1) /\ req[r].mark \in 0..(nextId - 1)
                       /\ req[r].ctx \in 0..MaxContexts
    BY TypedAt DEF Locals
  <2> QED
    BY <2>1, <2>2 DEF TabsTyped, MapsTyped, ContextTyped, TabsTypeOK
<1> QED
  BY <1>1, InitTabsTyped, NextTabsTyped, PTL DEF TabsSpec

(***************************************************************************)
(* What is listed is open, and its owner is kept.                          *)
(***************************************************************************)

LEMMA NextListed == ListedAlive /\ [TabsNext]_tabsVars => ListedAlive'
<1> SUFFICES ASSUME ListedAlive, [TabsNext]_tabsVars PROVE ListedAlive'
  OBVIOUS
<1>1. ASSUME NEW r \in Req, TabsStep(r) PROVE ListedAlive'
  <2>1. CASE Start(r) \/ End(r) \/ RunOnPage(r) \/ Save(r) \/ ClearOwners(r)
    BY <2>1 DEF Start, End, RunOnPage, Save, ClearOwners, tabs, browser, ListedAlive
  <2>2. CASE NewTab(r) \/ RestorePage(r) \/ Blank(r)
    BY <2>2 DEF NewTab, RestorePage, Blank, Register, tabs, ListedAlive
  <2>3. CASE CloseTab(r) \/ ClosePages(r) \/ NewContext(r) \/ UndoHandoff(r)
    BY <2>3 DEF CloseTab, ClosePages, NewContext, UndoHandoff, Closed, ListedAlive
  <2>4. CASE LaunchHeaded(r) \/ Fallback(r)
    BY <2>4 DEF LaunchHeaded, Fallback, DropTabs, ListedAlive
  <2>5. CASE RestoreEnd(r)
    BY <2>5 DEF RestoreEnd, ListedAlive
  <2> QED
    BY <1>1, <2>1, <2>2, <2>3, <2>4, <2>5 DEF TabsStep
<1>2. ASSUME NEW i \in Id, PageCloses(i) PROVE ListedAlive'
  BY <1>2 DEF PageCloses, Closed, ListedAlive
<1>3. CASE UNCHANGED tabsVars
  BY <1>3 DEF tabsVars, tabs, browser, ListedAlive
<1> QED
  BY <1>1, <1>2, <1>3 DEF TabsNext

\* No command finds a dead page behind a tab id, whatever closed, replaced or gave
\* up the contexts meanwhile, and whoever did.
THEOREM TabsAreOpen == TabsSpec => []ListedAlive
<1>1. TabsInit => ListedAlive
  BY DEF TabsInit, ListedAlive
<1> QED
  BY <1>1, NextListed, PTL DEF TabsSpec

\* A step is of one command: the others keep their local variables.
LEMMA OthersKept ==
    ASSUME TabsTyped, NEW r \in Req, TabsStep(r)
    PROVE  ask' = ask /\ \A q \in Req \ {r} : req'[q] = req[q]
<1>1. ask' = ask
  BY DEF TabsStep, Start, End, RunOnPage, NewTab, CloseTab, Save, ClosePages, NewContext, LaunchHeaded,
     ClearOwners, RestorePage, RestoreEnd, Fallback, Blank, UndoHandoff
<1>2. ASSUME NEW q \in Req \ {r} PROVE req'[q] = req[q]
  <2>1. CASE \E l : Proceed(r, l)
    BY <2>1 DEF Proceed, TabsTyped, ReqTyped
  <2>2. CASE Start(r)
    BY <2>2 DEF Start, TabsTyped, ReqTyped
  <2>3. CASE Save(r) \/ ClosePages(r)
    BY <2>3 DEF Save, ClosePages, Proceed, TabsTyped, ReqTyped
  <2>4. CASE CloseTab(r) \/ RestoreEnd(r)
    BY <2>4 DEF CloseTab, RestoreEnd, Proceed, TabsTyped, ReqTyped
  <2>5. CASE RestorePage(r)
    BY <2>5 DEF RestorePage, Proceed, TabsTyped, ReqTyped
  <2>6. CASE Fallback(r) \/ Blank(r)
    BY <2>6 DEF Fallback, Blank, TabsTyped, ReqTyped
  <2>7. CASE \/ End(r) \/ RunOnPage(r) \/ NewTab(r) \/ NewContext(r) \/ LaunchHeaded(r)
             \/ ClearOwners(r) \/ UndoHandoff(r)
    BY <2>1, <2>7 DEF End, RunOnPage, NewTab, NewContext, LaunchHeaded, ClearOwners, UndoHandoff
  <2> QED
    BY <2>2, <2>3, <2>4, <2>5, <2>6, <2>7 DEF TabsStep
<1> QED
  BY <1>1, <1>2

\* Who owns a page of a client's.
OwnerOf(client) == IF client \in Agent THEN client ELSE NoOwner

\* Tabs that lost their owner, and ids not given out yet, are nobody's: a tab that
\* is registered without an owner must not find one.
OrphansFree == \A i \in Id : i \in orphaned \/ i >= nextId => owner[i] = NoOwner

\* What waits to be restored has the owner it had.
SavedFit == \A r \in Req : \A s \in req[r].left : s.owner = OwnerOf(s.by)

OwnInv == OwnershipKept /\ OrphansFree /\ SavedFit

LEMMA LeftKept ==
    ASSUME TabsTyped, NEW r \in Req, TabsStep(r), ~Save(r), ~ClosePages(r)
    PROVE  req'[r].left \subseteq req[r].left
<1>1. (\E l : Proceed(r, l)) => req'[r].left \subseteq req[r].left
  BY DEF Proceed, TabsTyped, ReqTyped, Locals
<1>2. Start(r) => req'[r].left \subseteq req[r].left
  BY DEF Start, TabsTyped, ReqTyped, Locals
<1>3. CloseTab(r) \/ RestoreEnd(r) => req'[r].left \subseteq req[r].left
  <2>1. req' = [req EXCEPT ![r].pc = "newPage", ![r].ctx = context]
        => req'[r].left \subseteq req[r].left
    BY DEF TabsTyped, ReqTyped, Locals
  <2> QED
    BY <1>1, <2>1 DEF CloseTab, RestoreEnd
<1>4. RestorePage(r) => req'[r].left \subseteq req[r].left
  BY <1>1 DEF RestorePage, TabsTyped, ReqTyped, Locals
<1>5. Fallback(r) \/ Blank(r) => req'[r].left \subseteq req[r].left
  BY DEF Fallback, Blank, TabsTyped, ReqTyped, Locals
<1>6. \/ End(r) \/ RunOnPage(r) \/ NewTab(r) \/ NewContext(r) \/ LaunchHeaded(r)
      \/ ClearOwners(r) \/ UndoHandoff(r)
      => req'[r].left \subseteq req[r].left
  BY <1>1 DEF End, RunOnPage, NewTab, NewContext, LaunchHeaded, ClearOwners, UndoHandoff
<1> QED
  BY <1>2, <1>3, <1>4, <1>5, <1>6 DEF TabsStep

LEMMA StepSavedFit ==
    ASSUME TabsTyped, OwnInv, NEW r \in Req, TabsStep(r)
    PROVE  SavedFit'
<1>1. SUFFICES \A s \in req'[r].left : s.owner = OwnerOf(s.by)
  BY OthersKept DEF OwnInv, SavedFit, OwnerOf
<1>2. CASE req'[r].left \subseteq req[r].left
  BY <1>2 DEF OwnInv, SavedFit
<1>3. CASE Save(r)
  <2>1. CASE req' = [req EXCEPT ![r].left = {Saved(i) : i \in listed}, ![r].mark = 0,
                                ![r].pc = IF ask[r].cmd = "scale" THEN "closing" ELSE "launch"]
    <3>1. req'[r].left = {Saved(i) : i \in listed}
      BY <2>1 DEF TabsTyped, ReqTyped, Locals
    <3>2. ASSUME NEW i \in listed PROVE Saved(i).owner = OwnerOf(Saved(i).by)
      <4>1. i \in Id /\ Root \notin Agent
        BY TypedAt, TabAssumption DEF TabsTyped, MapsTyped, Id
      <4>2. Saved(i).owner = owner[i] /\ Saved(i).by = IF i \in orphaned THEN Root ELSE by[i]
        BY DEF Saved
      <4> QED
        BY <4>1, <4>2 DEF OwnInv, OrphansFree, OwnershipKept, OwnerOf
    <3> QED
      BY <3>1, <3>2
  <2>2. CASE \E l : Proceed(r, l)
    BY <1>2, <2>2 DEF Proceed, TabsTyped, ReqTyped, Locals
  <2> QED
    BY <1>3, <2>1, <2>2 DEF Save
<1>4. CASE ClosePages(r)
  <2> DEFINE page == [tab |-> 1, owner |-> NoOwner, by |-> Root, active |-> TRUE]
  <2>1. CASE req' = [req EXCEPT ![r].pc = "owners", ![r].mark = 0, ![r].left = {page}]
    <3>1. req'[r].left = {page} /\ page.owner = OwnerOf(page.by)
      BY <2>1, TabAssumption DEF TabsTyped, ReqTyped, Locals, OwnerOf
    <3> QED
      BY <3>1
  <2>2. CASE req' = [req EXCEPT ![r].pc = "context"]
    BY <1>2, <2>2 DEF TabsTyped, ReqTyped, Locals
  <2> QED
    BY <1>4, <2>1, <2>2 DEF ClosePages
<1>5. CASE ~Save(r) /\ ~ClosePages(r)
  BY <1>2, <1>5, LeftKept
<1> QED
  BY <1>3, <1>4, <1>5

\* A page is registered with the owner it should have.
LEMMA RegisterOwned ==
    ASSUME TabsTyped, OwnInv, NEW c, NEW client, Register(c, client), orphaned' = orphaned,
           \/ owner' = owner /\ client \notin Agent
           \/ owner' = [owner EXCEPT ![nextId] = OwnerOf(client)]
    PROVE  OwnershipKept' /\ OrphansFree'
<1>1. /\ nextId \in Id /\ nextId' = nextId + 1 /\ nextId \in 0..MaxTabs /\ nextId \in Nat
      /\ listed' = listed \union {nextId} /\ by' = [by EXCEPT ![nextId] = client]
      /\ nextId \notin listed /\ nextId \notin orphaned
  BY TabAssumption DEF Register, Id, TabsTyped, MapsTyped
<1>2. owner'[nextId] = OwnerOf(client) /\ by'[nextId] = client
  <2>1. by'[nextId] = client
    BY <1>1 DEF TabsTyped, MapsTyped
  <2>2. owner[nextId] = NoOwner
    BY <1>1 DEF OwnInv, OrphansFree
  <2>3. CASE owner' = owner /\ client \notin Agent
    BY <2>1, <2>2, <2>3 DEF OwnerOf
  <2>4. CASE owner' = [owner EXCEPT ![nextId] = OwnerOf(client)]
    BY <1>1, <2>1, <2>4 DEF TabsTyped, MapsTyped
  <2> QED
    BY <2>1, <2>3, <2>4
<1>3. \A i \in Id : i # nextId => owner'[i] = owner[i] /\ by'[i] = by[i]
  <2> TAKE i \in Id
  <2>1. i \in 0..MaxTabs /\ i \in Id
    BY TabAssumption DEF Id
  <2>2. i # nextId => by'[i] = by[i]
    BY <1>1, <2>1 DEF TabsTyped, MapsTyped
  <2>3. i # nextId => owner'[i] = owner[i]
    BY <2>1 DEF TabsTyped, MapsTyped
  <2> QED
    BY <2>2, <2>3
<1>4. \A i \in listed' : i \in Id
  BY <1>1, TabAssumption DEF TabsTyped, MapsTyped, Id
<1>5. OwnershipKept'
  BY <1>1, <1>2, <1>3, <1>4 DEF OwnInv, OwnershipKept, OwnerOf
<1>6. OrphansFree'
  <2> SUFFICES ASSUME NEW i \in Id, i \in orphaned \/ i >= nextId + 1 PROVE owner'[i] = NoOwner
    BY <1>1 DEF OrphansFree
  <2>1. i # nextId /\ (i \in orphaned \/ i >= nextId)
    BY <1>1 DEF Id
  <2> QED
    BY <1>3, <2>1 DEF OwnInv, OrphansFree
<1> QED
  BY <1>5, <1>6

\* The last tabs leave, or none do, and nobody's changes hands.
LEMMA FewerOwned ==
    ASSUME TabsTyped, OwnInv, listed' \subseteq listed, UNCHANGED <<owner, by, orphaned, nextId>>
    PROVE  OwnershipKept' /\ OrphansFree'
BY DEF OwnInv, OwnershipKept, OrphansFree

LEMMA StepOwned ==
    ASSUME TabsTyped, OwnInv, NEW r \in Req, TabsStep(r)
    PROVE  OwnershipKept' /\ OrphansFree'
<1>1. CASE Start(r) \/ End(r) \/ RunOnPage(r) \/ Save(r)
  BY <1>1, FewerOwned DEF Start, End, RunOnPage, Save, tabs
<1>2. CASE ClosePages(r) \/ NewContext(r) \/ LaunchHeaded(r) \/ RestoreEnd(r) \/ Fallback(r) \/ UndoHandoff(r)
  <2>1. listed' \subseteq listed /\ UNCHANGED <<owner, by, orphaned, nextId>>
    BY <1>2 DEF ClosePages, NewContext, LaunchHeaded, RestoreEnd, Fallback, UndoHandoff, Closed, DropTabs
  <2> QED
    BY <2>1, FewerOwned
<1>3. CASE NewTab(r)
  <2> DEFINE who == ask[r].who
             mine == who \in Agent /\ ask[r].cmd = "newtab"
             client == IF mine THEN who ELSE Root
  <2>1. CASE contexts[req[r].ctx] # 0
    <3>1. /\ Register(req[r].ctx, client) /\ orphaned' = orphaned
          /\ owner' = IF mine THEN [owner EXCEPT ![nextId] = who] ELSE owner
      BY <1>3, <2>1 DEF NewTab
    <3>2. \/ owner' = owner /\ client \notin Agent
          \/ owner' = [owner EXCEPT ![nextId] = OwnerOf(client)]
      BY <3>1, TabAssumption DEF OwnerOf
    <3> HIDE DEF client
    <3> QED
      BY <3>1, <3>2, RegisterOwned
  <2>2. CASE contexts[req[r].ctx] = 0
    BY <1>3, <2>2, FewerOwned DEF NewTab, tabs
  <2> QED
    BY <2>1, <2>2
<1>4. CASE Blank(r)
  <2>1. CASE contexts[context] # 0
    BY <1>4, <2>1, RegisterOwned, TabAssumption DEF Blank
  <2>2. CASE contexts[context] = 0
    BY <1>4, <2>2, FewerOwned DEF Blank
  <2> QED
    BY <2>1, <2>2
<1>5. CASE RestorePage(r)
  <2>1. PICK s \in req[r].left :
          /\ orphaned' = orphaned
          /\ \/ Register(context, s.by) /\ owner' = [owner EXCEPT ![nextId] = s.owner]
             \/ UNCHANGED <<listed, owner, nextId, by>>
    BY <1>5 DEF RestorePage
  <2>2. s.owner = OwnerOf(s.by)
    BY DEF OwnInv, SavedFit
  <2>3. CASE Register(context, s.by) /\ owner' = [owner EXCEPT ![nextId] = s.owner]
    BY <2>1, <2>2, <2>3, RegisterOwned
  <2>4. CASE UNCHANGED <<listed, owner, nextId, by>>
    BY <2>1, <2>4, FewerOwned
  <2> QED
    BY <2>1, <2>3, <2>4
<1>6. CASE CloseTab(r)
  <2> DEFINE i == req[r].tab
  <2>1. CASE i \in listed
    <3>1. /\ listed' = listed \ {i} /\ owner' = [owner EXCEPT ![i] = NoOwner]
          /\ UNCHANGED <<by, orphaned, nextId>>
      BY <1>6, <2>1 DEF CloseTab, Closed
    <3>2. \A j \in Id : j \in 0..MaxTabs /\ owner'[j] = IF j = i THEN NoOwner ELSE owner[j]
      BY <3>1, TabAssumption DEF Id, TabsTyped, MapsTyped
    <3>3. \A j \in listed' : j \in Id /\ j \in listed /\ j # i
      BY <3>1, TypedAt DEF TabsTyped, MapsTyped, Id
    <3> QED
      BY <3>1, <3>2, <3>3 DEF OwnInv, OwnershipKept, OrphansFree
  <2>2. CASE i \notin listed
    BY <1>6, <2>2, FewerOwned DEF CloseTab
  <2> QED
    BY <2>1, <2>2
<1>7. CASE ClearOwners(r)
  <2>1. CASE contexts[context] # 0
    <3>1. /\ owner' = [j \in 0..MaxTabs |-> NoOwner] /\ orphaned' = orphaned \union listed
          /\ listed' = listed
      BY <1>7, <2>1 DEF ClearOwners
    <3>2. \A j \in Id : j \in 0..MaxTabs /\ owner'[j] = NoOwner
      BY <3>1, TabAssumption DEF Id
    <3> QED
      BY <3>1, <3>2 DEF OwnershipKept, OrphansFree
  <2>2. CASE contexts[context] = 0
    BY <1>7, <2>2, FewerOwned DEF ClearOwners
  <2> QED
    BY <2>1, <2>2
<1> QED
  BY <1>1, <1>2, <1>3, <1>4, <1>5, <1>6, <1>7 DEF TabsStep

LEMMA NextOwned == TabsTyped /\ OwnInv /\ [TabsNext]_tabsVars => OwnInv'
<1> SUFFICES ASSUME TabsTyped, OwnInv, [TabsNext]_tabsVars PROVE OwnInv'
  OBVIOUS
<1>1. ASSUME NEW r \in Req, TabsStep(r) PROVE OwnInv'
  BY <1>1, StepOwned, StepSavedFit DEF OwnInv
<1>2. ASSUME NEW i \in Id, PageCloses(i) PROVE OwnInv'
  <2>1. listed' \subseteq listed /\ UNCHANGED <<owner, by, orphaned, nextId, req>>
    BY <1>2 DEF PageCloses, Closed
  <2> QED
    BY <2>1, FewerOwned DEF OwnInv, SavedFit, OwnerOf
<1>3. CASE UNCHANGED tabsVars
  BY <1>3 DEF tabsVars, tabs, browser, OwnInv, OwnershipKept, OrphansFree, SavedFit, OwnerOf
<1> QED
  BY <1>1, <1>2, <1>3 DEF TabsNext

LEMMA InitOwned == TabsInit => OwnInv
<1> SUFFICES ASSUME TabsInit PROVE OwnInv
  OBVIOUS
<1> DEFINE first == CHOOSE a \in Agent : TRUE
<1>1. first \in Agent
  BY TabAssumption
<1>2. /\ by = [i \in Id |-> IF i = 2 THEN first ELSE Root]
      /\ owner = [i \in 0..MaxTabs |-> IF i = 2 THEN by[2] ELSE NoOwner]
      /\ listed = FirstTabs /\ nextId = 3 /\ orphaned = {}
      /\ \A r \in Req : req[r].left = {}
  BY DEF TabsInit
<1> HIDE DEF first
<1>3. by[2] = first /\ 2 \in Id /\ 1 \in Id /\ by[1] = Root /\ owner[2] = first /\ owner[1] = NoOwner
  BY <1>2, TabAssumption DEF Id
<1>4. OwnershipKept
  BY <1>1, <1>2, <1>3, TabAssumption DEF OwnershipKept, FirstTabs
<1>5. OrphansFree
  BY <1>2, TabAssumption DEF OrphansFree, Id
<1> QED
  BY <1>2, <1>4, <1>5 DEF OwnInv, SavedFit

\* A tab is owned by the agent that opened it, under each of its ids and through
\* every save and restore, unless a restoring command cleared the owners after it
\* was opened; it is never owned by another client.
THEOREM TabsKeepOwners == TabsSpec => []OwnershipKept
<1>1. OwnInv => OwnershipKept
  BY DEF OwnInv
<1> QED
  BY <1>1, InitTabsTyped, NextTabsTyped, InitOwned, NextOwned, PTL DEF TabsSpec

(***************************************************************************)
(* The scale of the context in use.                                        *)
(***************************************************************************)

\* Between setting the scale and making the context that has it.
Rescaling(r) == ask[r].cmd = "scale" /\ req[r].pc \in {"save", "closing", "context", "fallback"}

\* A context has the scale the daemon believes in, unless a command is about to
\* replace it.
ScaleInv ==
    mode = "launched" => contexts[context] \in {0, scale} \/ \E r \in Req : Rescaling(r)

\* Steps that change neither the scale nor the context, of a command that stays
\* one that will replace it if it was.
LEMMA ScaleKept ==
    ASSUME TabsTyped, ScaleInv, NEW r \in Req, TabsStep(r), mode' = mode, scale' = scale,
           contexts'[context'] = contexts[context],
           Rescaling(r) => req'[r].pc \in {"save", "closing", "context", "fallback"}
    PROVE  ScaleInv'
<1>1. ASSUME NEW q \in Req, Rescaling(q) PROVE Rescaling(q)'
  BY <1>1, OthersKept DEF Rescaling
<1>2. CASE mode = "launched" /\ \E q \in Req : Rescaling(q)
  BY <1>1, <1>2 DEF ScaleInv
<1>3. CASE ~(mode = "launched" /\ \E q \in Req : Rescaling(q))
  BY <1>3 DEF ScaleInv
<1> QED
  BY <1>2, <1>3

LEMMA StepScale ==
    ASSUME TabsTyped, ScaleInv, NEW r \in Req, TabsStep(r)
    PROVE  ScaleInv'
<1>1. \A l : Proceed(r, l) => req'[r].pc = l
  BY DEF Proceed, TabsTyped, ReqTyped, Locals
<1>2. CASE Start(r)
  <2>1. ~Rescaling(r) /\ UNCHANGED <<mode, contexts, context, ask>>
    BY <1>2 DEF Start, At, Rescaling, browser
  <2>2. CASE scale' = scale
    BY <1>2, <2>1, <2>2, ScaleKept
  <2>3. CASE scale' # scale
    <3>1. ask[r].cmd = "scale" /\ req'[r].pc = "save"
      BY <1>2, <2>3 DEF Start, TabsTyped, ReqTyped, Locals
    <3> QED
      BY <2>1, <3>1 DEF ScaleInv, Rescaling
  <2> QED
    BY <2>2, <2>3
<1>3. CASE End(r) \/ RunOnPage(r) \/ NewTab(r) \/ CloseTab(r) \/ ClearOwners(r) \/ RestorePage(r)
  <2>1. ~Rescaling(r)
    BY <1>3 DEF End, RunOnPage, NewTab, CloseTab, ClearOwners, RestorePage, At, Rescaling
  <2>2. UNCHANGED <<mode, scale, contexts, context>>
    BY <1>3 DEF End, RunOnPage, NewTab, CloseTab, ClearOwners, RestorePage, browser
  <2> QED
    BY <2>1, <2>2, ScaleKept
<1>4. CASE Save(r)
  <2>1. UNCHANGED <<mode, scale, contexts, context>>
    BY <1>4 DEF Save, browser
  <2>2. ASSUME ask[r].cmd = "scale" PROVE req'[r].pc \in {"closing", "fallback"}
    BY <1>1, <1>4, <2>2 DEF Save, TabsTyped, ReqTyped, Locals
  <2> QED
    BY <2>1, <2>2, ScaleKept DEF Rescaling
<1>5. CASE ClosePages(r)
  <2>1. UNCHANGED <<mode, scale, contexts, context>>
    BY <1>5 DEF ClosePages
  <2>2. Rescaling(r) => req'[r].pc = "context"
    BY <1>5 DEF ClosePages, At, Rescaling, TabsTyped, ReqTyped, Locals
  <2> QED
    BY <2>1, <2>2, ScaleKept
<1>6. CASE NewContext(r) \/ Fallback(r) \/ LaunchHeaded(r) \/ UndoHandoff(r)
  <2>1. CASE mode' = "headed"
    BY <2>1 DEF ScaleInv
  <2>2. CASE Replace(0, ScaleOf(r)) /\ scale' = scale
    <3>1. contexts'[context'] = scale'
      BY <2>2 DEF Replace, ScaleOf, TabsTyped, ContextTyped
    <3> QED
      BY <3>1 DEF ScaleInv
  <2>3. CASE contexts' = [contexts EXCEPT ![context] = 0] /\ context' = context
    <3>1. contexts'[context'] = 0
      BY <2>3 DEF TabsTyped, ContextTyped
    <3> QED
      BY <3>1 DEF ScaleInv
  <2>4. CASE LaunchHeaded(r) /\ UNCHANGED <<contexts, context, mode>>
    <3>1. ~Rescaling(r) /\ scale' = scale
      BY <2>4 DEF LaunchHeaded, At, Rescaling
    <3> QED
      BY <2>4, <3>1, ScaleKept
  <2>5. NewContext(r) => scale' = scale
    BY DEF NewContext
  <2> QED
    BY <1>6, <2>1, <2>2, <2>3, <2>4, <2>5 DEF NewContext, Fallback, LaunchHeaded, UndoHandoff
<1>7. CASE RestoreEnd(r)
  <2>1. ~Rescaling(r) /\ UNCHANGED <<mode, scale, context>>
    BY <1>7 DEF RestoreEnd, At, Rescaling
  <2>2. contexts'[context'] = contexts[context]
    BY <1>7 DEF RestoreEnd, TabsTyped, ContextTyped
  <2> QED
    BY <2>1, <2>2, ScaleKept
<1>8. CASE Blank(r)
  <2>1. ~Rescaling(r) /\ UNCHANGED <<mode, contexts, context, ask>> /\ ask[r].cmd = "scale"
    BY <1>8, TypedAt DEF Blank, At, Rescaling, CommandAt
  <2>2. CASE req[r].round = 0
    <3>1. req'[r].pc = "save"
      BY <1>8, <2>2 DEF Blank, TabsTyped, ReqTyped, Locals
    <3> QED
      BY <2>1, <3>1 DEF ScaleInv, Rescaling
  <2>3. CASE req[r].round # 0
    <3>1. scale' = scale
      BY <1>8, <2>3 DEF Blank
    <3> QED
      BY <2>1, <3>1, ScaleKept
  <2> QED
    BY <2>2, <2>3
<1> QED
  BY <1>2, <1>3, <1>4, <1>5, <1>6, <1>7, <1>8 DEF TabsStep

LEMMA NextScale == TabsTyped /\ ScaleInv /\ [TabsNext]_tabsVars => ScaleInv'
<1> SUFFICES ASSUME TabsTyped, ScaleInv, [TabsNext]_tabsVars PROVE ScaleInv'
  OBVIOUS
<1>1. ASSUME NEW r \in Req, TabsStep(r) PROVE ScaleInv'
  BY <1>1, StepScale
<1>2. ASSUME NEW i \in Id, PageCloses(i) PROVE ScaleInv'
  BY <1>2 DEF PageCloses, ScaleInv, Rescaling
<1>3. CASE UNCHANGED tabsVars
  BY <1>3 DEF tabsVars, browser, ScaleInv, Rescaling
<1> QED
  BY <1>1, <1>2, <1>3 DEF TabsNext

\* Once no command is under way, the context in use has the scale the daemon
\* believes in, however many changes of scale failed at whichever of their steps.
THEOREM ScaleOfContext == TabsSpec => []ScaleTracked
<1>1. TabsInit => ScaleInv
  BY TabAssumption DEF TabsInit, ScaleInv, Context
<1>2. ScaleInv => ScaleTracked
  BY DEF ScaleInv, ScaleTracked, Idle, Rescaling
<1> QED
  BY <1>1, <1>2, InitTabsTyped, NextTabsTyped, NextScale, PTL DEF TabsSpec
=============================================================================
