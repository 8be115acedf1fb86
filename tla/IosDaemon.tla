------------------------------ MODULE IosDaemon ------------------------------
(***************************************************************************)
(* The iOS QA daemon (gstack/skills/ios-qa/daemon/src): remote agents mint *)
(* session tokens against an allowlist the owner edits with a command line *)
(* tool, and drive an app on a device through a tunnel the daemon sets up  *)
(* on demand.  The device side is the StateServer that the skill puts into *)
(* the app (ios-qa/templates).                                             *)
(*                                                                         *)
(* One action per stretch of a request between two awaits.  An identity is *)
(* what WhoIs says of the caller; Local is the agent on this machine, whose *)
(* listener asks for no token.  Time is left out: an entry, a token, a     *)
(* device session and a cached tunnel may be found expired at any moment.  *)
(* The audit files, payloads, the text of URLs (classified in index.ts,    *)
(* forwarded as received in proxy.ts) and the app's own state are left out. *)
(***************************************************************************)
EXTENDS Naturals, FiniteSets

CONSTANTS
    Identity, Local, None,
    Req,          \* requests in progress at the daemon
    Cli,          \* runs of gstack-ios-qa-mint
    Grants,       \* the tiers the owner gives
    Kinds,        \* the requests agents make
    MaxTokens, MaxBoots, MaxFaults    \* bounds: tokens minted, launches of the app, failures

Tier == 0..3          \* observe, interact, mutate, restore
Token == 1..MaxTokens
Boot == 1..MaxBoots

ASSUME TiersGranted == Grants \subseteq Tier

\* TAILNET_ENDPOINT_TIERS and tierForRoute: a request is of the kind its path is
\* classified as, here and where the app routes it.
TierOf == [revoke |-> 0, read |-> 0, acquire |-> 1, release |-> 1, tap |-> 1, write |-> 2,
           restore |-> 3]

ASSUME KindsKnown == Kinds \subseteq DOMAIN TierOf

ASSUME BoundsPositive == MaxTokens \in Nat /\ MaxBoots \in Nat \ {0} /\ MaxFaults \in Nat

ASSUME NamesApart ==
    /\ None \notin Identity \union Req \union Tier \union [who : Identity, tier : Tier]
    /\ Local \notin Identity

VARIABLES
    allow,       \* the allowlist file: the tier of each identity, or None
    torn,        \* ... it is half written
    cli,         \* each run of the tool: [pc, copy, who, tier]
    tokens,      \* tokenStore: [who, tier] of each live token, or None
    minted,      \* how many were minted
    req,         \* requests: [pc, who, kind, tier, token, copy, tunnel]
    tunnel,      \* the daemon's tunnel: [boot, by], the launch and the token it has for it
    app,         \* the device: [boot, running, valid, rotated], valid is bootTokenValid
    session,     \* the device's activeSession: who acquired it, or None
    faults,
    granted,     \* history: highest tier the owner ever granted each identity
    out          \* history: identities the owner has removed, entry and tokens

device == <<app, session>>
owner == <<allow, torn, cli>>
store == <<tokens, minted>>
history == <<granted, out>>
vars == <<owner, store, req, tunnel, device, faults, history>>

NoTunnel == [boot |-> 0, by |-> None]
Ready == [pc |-> "ready", who |-> None, kind |-> "read", tier |-> 0, token |-> 0,
          copy |-> None, tunnel |-> NoTunnel]
Launched(b) == [boot |-> b, running |-> TRUE, valid |-> TRUE, rotated |-> None]
Nobody == [i \in Identity |-> None]

NotRun == [pc |-> "start", copy |-> Nobody, who |-> None, tier |-> None]

TierOrNone == Tier \union {None}
Lists == [Identity -> TierOrNone]
Tunnels == [boot : {0} \union Boot, by : Req \union {None}]
Runs == [pc : {"start", "save", "write"}, copy : Lists, who : Identity \union {None},
         tier : TierOrNone]
Requests ==
    [pc : {"ready", "mint", "revoke", "tunnel", "launch", "copy", "rotate", "set", "proxy"},
     who : Identity \union {Local, None}, kind : Kinds \union {"read"}, tier : Tier,
     token : {0} \union Token, copy : TierOrNone, tunnel : Tunnels]
Apps == [boot : Boot, running : BOOLEAN, valid : BOOLEAN, rotated : Req \union {None}]

TypeOK ==
    /\ allow \in Lists /\ torn \in BOOLEAN
    /\ cli \in [Cli -> Runs]
    /\ tokens \in [Token -> [who : Identity, tier : Tier] \union {None}]
    /\ minted \in 0..MaxTokens /\ \A t \in Token : t > minted => tokens[t] = None
    /\ req \in [Req -> Requests]
    /\ tunnel \in Tunnels
    /\ app \in Apps
    /\ app.valid = (app.rotated = None)
    /\ session \in Identity \union {Local, None} /\ faults \in 0..MaxFaults
    /\ granted \in Lists /\ out \in SUBSET Identity

Init ==
    /\ allow = Nobody /\ torn = FALSE
    /\ cli = [c \in Cli |-> NotRun]
    /\ tokens = [t \in Token |-> None] /\ minted = 0
    /\ req = [q \in Req |-> Ready]
    /\ tunnel = NoTunnel
    /\ app = Launched(1) /\ session = None /\ faults = 0
    /\ granted = Nobody /\ out = {}

Fault == faults < MaxFaults /\ faults' = faults + 1
Goto(q, l) == req' = [req EXCEPT ![q].pc = l]
Done(q) == req' = [req EXCEPT ![q] = Ready]

\* capabilityCovers.
Covers(have, need) == have # None /\ have >= need

(***************************************************************************)
(* The owner: gstack-ios-qa-mint grant and revoke, /auth/revoke.           *)
(***************************************************************************)

\* loadAllowlist.  A file half written is read as an empty list, or not at all.
CliLoad(c, i, tier) ==
    /\ cli[c].pc = "start"
    /\ \/ cli' = [cli EXCEPT ![c] = [pc |-> "save", who |-> i, tier |-> tier,
                                     copy |-> IF torn THEN Nobody ELSE allow]]
       \/ torn /\ UNCHANGED cli
    /\ UNCHANGED <<allow, torn, store, req, tunnel, device, faults, history>>

\* saveAllowlist: writeFile empties the file, then writes.
CliTruncate(c) ==
    /\ cli[c].pc = "save"
    /\ torn' = TRUE
    /\ cli' = [cli EXCEPT ![c].pc = "write"]
    /\ UNCHANGED <<allow, store, req, tunnel, device, faults, history>>

Higher(a, b) == IF Covers(a, 0) /\ (b = None \/ a >= b) THEN a ELSE b

CliWrite(c) ==
    LET i == cli[c].who IN
    /\ cli[c].pc = "write"
    /\ allow' = [cli[c].copy EXCEPT ![i] = cli[c].tier]
    /\ torn' = FALSE
    /\ cli' = [cli EXCEPT ![c] = NotRun]
    /\ granted' = [granted EXCEPT ![i] = Higher(@, cli[c].tier)]
    /\ out' = {j \in out : allow'[j] = None}
    /\ UNCHANGED <<store, req, tunnel, device, faults>>

\* The tool is killed with the file empty or half written: it stays so.
CliKilled(c) ==
    /\ cli[c].pc = "write" /\ Fault
    /\ allow' = Nobody
    /\ cli' = [cli EXCEPT ![c] = NotRun]
    /\ UNCHANGED <<torn, store, req, tunnel, device, history>>

\* A mint that has read the old list, a run of the tool that will write it again.
Underway(i) ==
    \/ \E q \in Req : req[q].pc = "mint" /\ req[q].who = i
    \/ \E c \in Cli : cli[c].pc \in {"save", "write"}

TokensOf(i) == {t \in Token : tokens[t] # None /\ tokens[t].who = i}

\* Mutant: only those the list still allows are looked for.
RevokedTokensListed(i) == {t \in TokensOf(i) : Covers(allow[i], tokens[t].tier)}

\* revokeByIdentity.
RevokedTokens(i) == TokensOf(i)

\* /auth/revoke with an identity, on the loopback listener.
RevokeByIdentity(i) ==
    /\ tokens' = [t \in Token |-> IF t \in RevokedTokens(i) THEN None ELSE tokens[t]]
    /\ out' = IF allow[i] = None /\ ~Underway(i) THEN out \union {i} ELSE out
    /\ UNCHANGED <<owner, minted, req, tunnel, device, faults, granted>>

\* validate finds it expired, or its holder revokes it (below).
TokenExpires(t) ==
    /\ tokens[t] # None
    /\ tokens' = [tokens EXCEPT ![t] = None]
    /\ UNCHANGED <<owner, minted, req, tunnel, device, faults, history>>

(***************************************************************************)
(* /auth/mint: the list is read, then a token of the entry's tier minted.  *)
(* The entry may have expired; the rate limit refuses at will.             *)
(***************************************************************************)

MintLoad(q, i, wanted) ==
    /\ req[q].pc = "ready"
    /\ \E entry \in {None} \union (IF torn THEN {} ELSE {allow[i]}) :
          req' = [req EXCEPT ![q] = [Ready EXCEPT
                    !.pc = "mint", !.who = i, !.tier = wanted, !.copy = entry]]
    /\ UNCHANGED <<owner, store, tunnel, device, faults, history>>

\* Mutant: the caller's own wish is minted.
MintableAsked(q) == Covers(req[q].copy, 0)

\* hasCapability, for observe and for the tier asked.
Mintable(q) == Covers(req[q].copy, 0) /\ Covers(req[q].copy, req[q].tier)

Mint(q) ==
    /\ req[q].pc = "mint"
    /\ \/ /\ Mintable(q) /\ minted < MaxTokens
          /\ minted' = minted + 1
          /\ tokens' = [tokens EXCEPT ![minted + 1] =
                          [who |-> req[q].who,
                           tier |-> Higher(req[q].copy, req[q].tier)]]
       \/ UNCHANGED store
    /\ Done(q)
    /\ UNCHANGED <<owner, tunnel, device, faults, history>>

(***************************************************************************)
(* Any other request: its token is validated, its body read; then it goes  *)
(* to the device, or revokes the token.                                    *)
(***************************************************************************)

\* handleTailnet up to the body: the token is known and its tier covers the route.
Validate(q, t, kind) ==
    /\ req[q].pc = "ready" /\ tokens[t] # None
    /\ Covers(tokens[t].tier, TierOf[kind])
    /\ req' = [req EXCEPT ![q] = [Ready EXCEPT
                 !.pc = IF kind = "revoke" THEN "revoke" ELSE "tunnel",
                 !.who = tokens[t].who, !.kind = kind, !.tier = TierOf[kind], !.token = t]]
    /\ UNCHANGED <<owner, store, tunnel, device, faults, history>>

\* Own-session revoke.
RevokeOwn(q) ==
    /\ req[q].pc = "revoke"
    /\ tokens' = [tokens EXCEPT ![req[q].token] = None]
    /\ Done(q)
    /\ UNCHANGED <<owner, minted, tunnel, device, faults, history>>

\* handleLoopback: no token.
LocalRequest(q, kind) ==
    /\ req[q].pc = "ready" /\ kind # "revoke"
    /\ req' = [req EXCEPT ![q] = [Ready EXCEPT
                 !.pc = "tunnel", !.who = Local, !.kind = kind, !.tier = TierOf[kind]]]
    /\ UNCHANGED <<owner, store, tunnel, device, faults, history>>

\* getTunnel: the cached tunnel while it is less than 30 s old, or a new one.
GetTunnel(q) ==
    /\ req[q].pc = "tunnel"
    /\ \/ tunnel # NoTunnel /\ req' = [req EXCEPT ![q].pc = "proxy", ![q].tunnel = tunnel]
       \/ Goto(q, "launch")
    /\ UNCHANGED <<owner, store, tunnel, device, faults, history>>

(***************************************************************************)
(* bootstrapTunnel.                                                        *)
(***************************************************************************)

GiveUp(q) == req' = [req EXCEPT ![q].pc = "set", ![q].tunnel = NoTunnel]

\* The app is launched unless it runs; its address and its server are waited for.
Launch(q) ==
    /\ req[q].pc = "launch"
    /\ \/ /\ app.running
          /\ Goto(q, "copy") /\ UNCHANGED <<device, faults>>
       \/ /\ ~app.running /\ app.boot < MaxBoots
          /\ app' = Launched(app.boot + 1) /\ session' = None
          /\ Goto(q, "copy") /\ UNCHANGED faults
       \/ Fault /\ GiveUp(q) /\ UNCHANGED device
    /\ UNCHANGED <<owner, store, tunnel, history>>

\* The file with the boot token is there until the token has been used.
CopyBootToken(q) ==
    /\ req[q].pc = "copy"
    /\ \/ /\ app.running /\ app.valid
          /\ req' = [req EXCEPT ![q].pc = "rotate", ![q].tunnel = [boot |-> app.boot, by |-> q]]
       \/ ~(app.running /\ app.valid) /\ GiveUp(q)
    /\ UNCHANGED <<owner, store, tunnel, device, faults, history>>

\* handleAuthRotate: the boot token of this launch is good once.
Takes(q) == app.running /\ app.valid /\ req[q].tunnel.boot = app.boot

\* Mutant: the boot token stays good.
RotatedAgain(q) == [app EXCEPT !.rotated = q]

Rotated(q) == [app EXCEPT !.valid = FALSE, !.rotated = q]

\* Mutant: the status of the answer is not looked at.
AcceptedAnyStatus(q) == app.running

Accepted(q) == Takes(q)

\* /auth/rotate, or it gets lost on the way there or back.
Rotate(q) ==
    /\ req[q].pc = "rotate"
    /\ \/ /\ app' = IF Takes(q) THEN Rotated(q) ELSE app
          /\ IF Accepted(q) THEN Goto(q, "set") ELSE GiveUp(q)
          /\ UNCHANGED faults
       \/ /\ Fault /\ GiveUp(q)
          /\ app' \in {app} \union (IF Takes(q) THEN {Rotated(q)} ELSE {})
    /\ UNCHANGED <<owner, store, tunnel, session, history>>

\* What bootstrapTunnel returned is the tunnel now, also when that is none.
SetTunnel(q) ==
    /\ req[q].pc = "set"
    /\ tunnel' = req[q].tunnel
    /\ IF req[q].tunnel = NoTunnel THEN Done(q) ELSE Goto(q, "proxy")
    /\ UNCHANGED <<owner, store, device, faults, history>>

(***************************************************************************)
(* The device.                                                             *)
(***************************************************************************)

\* authorize: the request carries the token of the last rotation of this launch.
Works(t) == app.running /\ t.boot = app.boot /\ t.by = app.rotated

\* handleSessionAcquire (an old session may have run out), handleSessionRelease, the rest.
SessionAfter(q, s) ==
    CASE req[q].kind = "acquire" -> s = req[q].who \/ (session # None /\ s = session)
      [] req[q].kind = "release" -> s = None
      [] OTHER                   -> s = session

\* proxyToDevice: answered 401 by another launch, 503 by nobody; the agent gets any answer.
Proxy(q) ==
    /\ req[q].pc = "proxy"
    /\ IF Works(req[q].tunnel)
       THEN \E s \in Identity \union {Local, None} : SessionAfter(q, s) /\ session' = s
       ELSE UNCHANGED session
    /\ Done(q)
    /\ UNCHANGED <<owner, store, tunnel, app, faults, history>>

\* The app is closed or crashes; the last launch is kept running.
AppExits ==
    /\ app.running /\ app.boot < MaxBoots
    /\ app' = [app EXCEPT !.running = FALSE]
    /\ session' = None
    /\ UNCHANGED <<owner, store, req, tunnel, faults, history>>

Owner ==
    \/ \E c \in Cli : \/ \E i \in Identity, t \in Grants \union {None} : CliLoad(c, i, t)
                      \/ CliTruncate(c) \/ CliWrite(c) \/ CliKilled(c)
    \/ \E i \in Identity : RevokeByIdentity(i)

Daemon(q) ==
    \/ \E i \in Identity, t \in {TierOf[k] : k \in Kinds} : MintLoad(q, i, t)
    \/ \E t \in Token, k \in Kinds : Validate(q, t, k)
    \/ \E k \in Kinds : LocalRequest(q, k)
    \/ Mint(q) \/ RevokeOwn(q) \/ GetTunnel(q) \/ Launch(q) \/ CopyBootToken(q) \/ Rotate(q)
    \/ SetTunnel(q) \/ Proxy(q)

Next ==
    \/ Owner
    \/ \E q \in Req : Daemon(q)
    \/ \E t \in Token : TokenExpires(t)
    \/ AppExits

Spec == Init /\ [][Next]_vars

-----------------------------------------------------------------------------

\* A remote agent holds a token, gets a request past the daemon or holds the device's session
\* only at a tier the owner once gave its identity, however grants, revocations, mints and
\* torn reads of the list overlap (mintForCaller, handleTailnet).
ServedWithinGrants ==
    /\ \A t \in Token : tokens[t] # None => Covers(granted[tokens[t].who], tokens[t].tier)
    /\ \A q \in Req : req[q].who \in Identity /\ req[q].pc \notin {"ready", "mint", "revoke"} =>
                         Covers(granted[req[q].who], req[q].tier)
    /\ session \in Identity => Covers(granted[session], TierOf.acquire)

\* Once the owner has taken an identity off the list and then revoked its sessions, with no
\* mint or run of the tool on the way, it has no token until it is granted again.
RevokedCutOff == \A i \in out : TokensOf(i) = {}

\* A tunnel to the launch that runs carries the token that launch goes by: the daemon never
\* sits on one that the app answers with 401 (bootstrapTunnel, getTunnel).
TunnelWorks == app.running /\ tunnel.boot = app.boot => Works(tunnel)

\* A working tunnel stays while the app runs: the cache is "refresh on demand".
TunnelKept == [][Works(tunnel) /\ app' = app => Works(tunnel)']_vars
=============================================================================
