--------------------------- MODULE IosDaemonProofs ---------------------------
(***************************************************************************)
(* Theorems about IosDaemon, for every set of identities, requests and     *)
(* runs of the owner's tool, any number of tokens, launches and failures.  *)
(***************************************************************************)
EXTENDS IosDaemon, TLAPS

USE DEF Tier, TierOrNone, Boot, Token, Lists, Tunnels, Runs, Apps, owner, store, device, history

Serving(q) == req[q].pc \notin {"ready", "mint", "revoke"}

\* What a request and a run of the tool at a control point have in mind.
Purposeful ==
    /\ \A q \in Req : req[q].pc = "mint" => req[q].who \in Identity
    /\ \A q \in Req : Serving(q) => req[q].kind \in Kinds /\ req[q].tier = TierOf[req[q].kind]
    /\ \A c \in Cli : IF cli[c].pc = "start" THEN cli[c] = NotRun ELSE cli[c].who \in Identity

\* The list, and every copy of it or of an entry, is within what the owner gave.
WithinGrants(i, tier) == tier # None => Covers(granted[i], tier)

ListsWithinGrants ==
    /\ \A i \in Identity : WithinGrants(i, allow[i])
    /\ \A c \in Cli, i \in Identity : WithinGrants(i, cli[c].copy[i])
    /\ \A q \in Req : req[q].pc = "mint" => WithinGrants(req[q].who, req[q].copy)

GInv == TypeOK /\ Purposeful /\ ListsWithinGrants /\ ServedWithinGrants

\* A tunnel to the present launch carries its token.
Fits(t) == t.boot <= app.boot /\ (t.boot = app.boot => t.by # None /\ t.by = app.rotated)

AllFit ==
    /\ Fits(tunnel)
    /\ \A q \in Req :
          /\ req[q].pc = "set" => Fits(req[q].tunnel)
          /\ req[q].pc = "rotate" => req[q].tunnel.boot <= app.boot /\ req[q].tunnel.by = q

\* No copy of the list, and no entry read from it, names an identity the owner took off.
OffEveryList ==
    \A i \in out :
        /\ allow[i] = None
        /\ \A c \in Cli : cli[c].copy[i] = None
        /\ \A q \in Req : req[q].pc = "mint" /\ req[q].who = i => req[q].copy = None

-----------------------------------------------------------------------------

LEMMA ReadyTyped ==
    /\ Ready.pc = "ready" /\ Ready.who = None /\ Ready.kind = "read" /\ Ready.tier = 0
    /\ Ready.token = 0 /\ Ready.copy = None /\ Ready.tunnel = NoTunnel
    /\ NoTunnel.boot = 0 /\ NoTunnel.by = None
BY DEF Ready, NoTunnel

LEMMA TierOfTyped == \A k \in DOMAIN TierOf : TierOf[k] \in Tier
BY DEF TierOf

LEMMA HigherCovers ==
    ASSUME NEW a \in TierOrNone, NEW b \in TierOrNone
    PROVE  /\ Higher(a, b) \in TierOrNone
           /\ a # None => Covers(Higher(a, b), a)
           /\ b # None => Covers(Higher(a, b), b)
BY NamesApart DEF Higher, Covers

LEMMA CoversTrans ==
    ASSUME NEW a \in TierOrNone, NEW b \in Tier, NEW c \in Tier, Covers(a, b), b >= c
    PROVE  Covers(a, c)
BY NamesApart DEF Covers

LEMMA InitialsTyped ==
    /\ Nobody \in Lists /\ NotRun \in Runs /\ NoTunnel \in Tunnels /\ Ready \in Requests
    /\ NotRun.pc = "start" /\ NotRun.copy = Nobody
BY DEF Nobody, NotRun, NoTunnel, Ready, Requests

LEMMA LaunchedTyped ==
    ASSUME NEW b \in Boot
    PROVE  /\ Launched(b) \in Apps
           /\ Launched(b).valid = (Launched(b).rotated = None)
           /\ Launched(b).boot = b /\ Launched(b).rotated = None
<1>1. Launched(b) \in Apps
  BY DEF Launched
<1>2. Launched(b).rotated = None /\ Launched(b).boot = b /\ Launched(b).valid = TRUE
  BY DEF Launched
<1> QED
  BY <1>1, <1>2

\* What a request keeps as it moves on.
SameAim(r, s) ==
    r.who = s.who /\ r.kind = s.kind /\ r.tier = s.tier /\ r.token = s.token /\ r.copy = s.copy

LEMMA GotoMoves ==
    ASSUME TypeOK, NEW q \in Req, NEW l \in {"launch", "copy", "set", "proxy"}, Goto(q, l)
    PROVE  /\ req' \in [Req -> Requests]
           /\ req'[q].pc = l /\ req'[q].tunnel = req[q].tunnel /\ SameAim(req'[q], req[q])
           /\ \A p \in Req \ {q} : req'[p] = req[p]
<1> DEFINE r == [req[q] EXCEPT !.pc = l]
<1>1. r \in Requests /\ r.pc = l /\ r.tunnel = req[q].tunnel /\ SameAim(r, req[q])
  <2>1. req[q] \in Requests
    BY DEF TypeOK
  <2>2. r \in Requests /\ r.pc = l
    BY <2>1 DEF Requests
  <2>3. r.tunnel = req[q].tunnel
    BY <2>1 DEF Requests
  <2>4. SameAim(r, req[q])
    BY <2>1 DEF Requests, SameAim
  <2> QED
    BY <2>2, <2>3, <2>4
<1>2. req' = [req EXCEPT ![q] = r]
  BY DEF Goto
<1> HIDE DEF r
<1> QED
  BY <1>1, <1>2 DEF TypeOK

LEMMA GotoWithMoves ==
    ASSUME TypeOK, NEW q \in Req, NEW l \in {"set", "rotate", "proxy"}, NEW t \in Tunnels,
           req' = [req EXCEPT ![q].pc = l, ![q].tunnel = t]
    PROVE  /\ req' \in [Req -> Requests]
           /\ req'[q].pc = l /\ req'[q].tunnel = t /\ SameAim(req'[q], req[q])
           /\ \A p \in Req \ {q} : req'[p] = req[p]
<1> DEFINE moved == [req EXCEPT ![q].pc = l]
<1> DEFINE r == [moved[q] EXCEPT !.tunnel = t]
<1>1. /\ moved \in [Req -> Requests] /\ moved[q].pc = l /\ SameAim(moved[q], req[q])
      /\ \A p \in Req \ {q} : moved[p] = req[p]
  <2>1. [req[q] EXCEPT !.pc = l] \in Requests /\ SameAim([req[q] EXCEPT !.pc = l], req[q])
    BY DEF TypeOK, Requests, SameAim
  <2> QED
    BY <2>1 DEF TypeOK, Requests
<1>2. req' = [moved EXCEPT ![q] = r]
  OBVIOUS
<1> HIDE DEF moved
<1>3. r \in Requests /\ r.pc = l /\ r.tunnel = t /\ SameAim(r, req[q])
  BY <1>1 DEF Requests, SameAim
<1> HIDE DEF r
<1>4. req'[q] = r /\ \A p \in Req \ {q} : req'[p] = moved[p]
  BY <1>1, <1>2
<1>5. req' \in [Req -> Requests]
  BY <1>1, <1>2, <1>3
<1> QED
  BY <1>1, <1>3, <1>4, <1>5

LEMMA GiveUpMoves ==
    ASSUME TypeOK, NEW q \in Req, GiveUp(q)
    PROVE  /\ req' \in [Req -> Requests]
           /\ req'[q].pc = "set" /\ req'[q].tunnel = NoTunnel /\ SameAim(req'[q], req[q])
           /\ \A p \in Req \ {q} : req'[p] = req[p]
BY GotoWithMoves, InitialsTyped DEF GiveUp

LEMMA DoneMoves ==
    ASSUME TypeOK, NEW q \in Req, Done(q)
    PROVE  req'[q] = Ready /\ \A p \in Req \ {q} : req'[p] = req[p]
BY DEF TypeOK, Done

\* A request on its way to the device: where it goes from each point, and that it alone moves.
LEMMA MovedOn ==
    ASSUME TypeOK, NEW q \in Req,
           GetTunnel(q) \/ Launch(q) \/ CopyBootToken(q) \/ Rotate(q) \/ SetTunnel(q)
    PROVE  /\ \A p \in Req \ {q} : req'[p] = req[p]
           /\ \/ req'[q] = Ready
              \/ SameAim(req'[q], req[q]) /\ req'[q].pc \notin {"ready", "mint", "revoke"}
<1>1. CASE GetTunnel(q)
  BY <1>1, GotoMoves, GotoWithMoves DEF TypeOK, GetTunnel
<1>2. CASE Launch(q)
  BY <1>2, GotoMoves, GiveUpMoves DEF Launch
<1>3. CASE CopyBootToken(q)
  <2>1. [boot |-> app.boot, by |-> q] \in Tunnels
    BY DEF TypeOK
  <2> QED
    BY <1>3, <2>1, GotoWithMoves, GiveUpMoves DEF CopyBootToken
<1>4. CASE Rotate(q)
  BY <1>4, GotoMoves, GiveUpMoves DEF Rotate
<1>5. CASE SetTunnel(q)
  BY <1>5, GotoMoves, DoneMoves DEF SetTunnel
<1> QED
  BY <1>1, <1>2, <1>3, <1>4, <1>5

LEMMA InitTypeOK == Init => TypeOK
<1> SUFFICES ASSUME Init PROVE TypeOK
  OBVIOUS
<1>1. app \in Apps /\ app.valid = (app.rotated = None)
  <2>1. app = Launched(1) /\ 1 \in Boot
    BY BoundsPositive DEF Init
  <2> QED
    BY <2>1, LaunchedTyped
<1>2. allow \in Lists /\ granted \in Lists /\ torn \in BOOLEAN
  BY InitialsTyped DEF Init
<1>3. cli \in [Cli -> Runs] /\ req \in [Req -> Requests] /\ tunnel \in Tunnels
  BY InitialsTyped DEF Init
<1>4. /\ tokens \in [Token -> [who : Identity, tier : Tier] \union {None}]
      /\ minted \in 0..MaxTokens /\ faults \in 0..MaxFaults
      /\ \A t \in Token : tokens[t] = None
  BY BoundsPositive DEF Init
<1>5. session = None /\ out = {}
  BY DEF Init
<1> QED
  BY <1>1, <1>2, <1>3, <1>4, <1>5 DEF TypeOK

\* Every variable keeps its type.
LEMMA TypeStep == TypeOK /\ Purposeful /\ [Next]_vars => TypeOK'
<1> SUFFICES ASSUME TypeOK, Purposeful, [Next]_vars PROVE TypeOK'
  OBVIOUS
<1> USE InitialsTyped
<1>1. ASSUME NEW c \in Cli, NEW i \in Identity, NEW t \in Grants \union {None}, CliLoad(c, i, t)
      PROVE  TypeOK'
  <2>1. (IF torn THEN Nobody ELSE allow) \in Lists /\ t \in Tier \union {None}
    BY <1>1, TiersGranted DEF TypeOK
  <2>2. [pc |-> "save", who |-> i, tier |-> t, copy |-> IF torn THEN Nobody ELSE allow] \in Runs
    BY <2>1
  <2>3. cli' \in [Cli -> Runs]
    BY <1>1, <2>2 DEF TypeOK, CliLoad
  <2> QED
    BY <1>1, <2>3 DEF TypeOK, CliLoad
<1>2. ASSUME NEW c \in Cli, CliTruncate(c) PROVE TypeOK'
  BY <1>2 DEF TypeOK, CliTruncate
<1>3. ASSUME NEW c \in Cli, CliWrite(c) PROVE TypeOK'
  <2>1. granted' \in Lists
    BY <1>3, HigherCovers DEF TypeOK, CliWrite
  <2>2. allow' \in Lists /\ cli' \in [Cli -> Runs] /\ out' \in SUBSET Identity
    BY <1>3 DEF TypeOK, CliWrite
  <2> QED
    BY <1>3, <2>1, <2>2 DEF TypeOK, CliWrite
<1>4. ASSUME NEW c \in Cli, CliKilled(c) PROVE TypeOK'
  BY <1>4, BoundsPositive DEF TypeOK, CliKilled, Fault
<1>5. ASSUME NEW i \in Identity, RevokeByIdentity(i) PROVE TypeOK'
  BY <1>5 DEF TypeOK, RevokeByIdentity
<1>6. ASSUME NEW t \in Token, TokenExpires(t) PROVE TypeOK'
  BY <1>6 DEF TypeOK, TokenExpires
<1>7. ASSUME NEW q \in Req, NEW i \in Identity, NEW k \in Kinds, MintLoad(q, i, TierOf[k])
      PROVE  TypeOK'
  <2>1. TierOf[k] \in Tier
    BY TierOfTyped, KindsKnown
  <2>2. PICK entry \in {None, allow[i]} :
           req' = [req EXCEPT ![q] = [Ready EXCEPT
                     !.pc = "mint", !.who = i, !.tier = TierOf[k], !.copy = entry]]
    BY <1>7 DEF MintLoad
  <2>3. entry \in TierOrNone
    BY DEF TypeOK
  <2>4. [Ready EXCEPT !.pc = "mint", !.who = i, !.tier = TierOf[k], !.copy = entry] \in Requests
    BY <2>1, <2>3 DEF Requests
  <2> QED
    BY <1>7, <2>2, <2>4 DEF TypeOK, MintLoad
<1>8. ASSUME NEW q \in Req, NEW t \in Token, NEW k \in Kinds, Validate(q, t, k) PROVE TypeOK'
  <2>1. TierOf[k] \in Tier /\ tokens[t].who \in Identity
    BY <1>8, TierOfTyped, KindsKnown DEF TypeOK, Validate
  <2>2. [Ready EXCEPT !.pc = IF k = "revoke" THEN "revoke" ELSE "tunnel", !.who = tokens[t].who,
                      !.kind = k, !.tier = TierOf[k], !.token = t] \in Requests
    BY <2>1 DEF Requests
  <2> QED
    BY <1>8, <2>2 DEF TypeOK, Validate
<1>9. ASSUME NEW q \in Req, NEW k \in Kinds, LocalRequest(q, k) PROVE TypeOK'
  <2>1. TierOf[k] \in Tier
    BY TierOfTyped, KindsKnown
  <2>2. [Ready EXCEPT !.pc = "tunnel", !.who = Local, !.kind = k, !.tier = TierOf[k]] \in Requests
    BY <2>1 DEF Requests
  <2> QED
    BY <1>9, <2>2 DEF TypeOK, LocalRequest
<1>10. ASSUME NEW q \in Req, Mint(q) PROVE TypeOK'
  <2>1. req' \in [Req -> Requests]
    BY <1>10 DEF TypeOK, Mint, Done
  <2>2. CASE UNCHANGED store
    BY <1>10, <2>1, <2>2 DEF TypeOK, Mint
  <2>3. CASE /\ Mintable(q) /\ minted < MaxTokens /\ minted' = minted + 1
             /\ tokens' = [tokens EXCEPT ![minted + 1] =
                             [who |-> req[q].who, tier |-> Higher(req[q].copy, req[q].tier)]]
    <3>0. req[q].copy \in TierOrNone /\ req[q].tier \in Tier
      BY DEF TypeOK, Requests
    <3>1. Higher(req[q].copy, req[q].tier) \in Tier
      BY <2>3, <3>0, HigherCovers, NamesApart DEF Mintable, Covers, Higher
    <3>2. req[q].who \in Identity
      BY <1>10 DEF Mint, Purposeful
    <3>3. minted' \in 0..MaxTokens
      BY <2>3, BoundsPositive DEF TypeOK
    <3>4. [who |-> req[q].who, tier |-> Higher(req[q].copy, req[q].tier)]
             \in [who : Identity, tier : Tier]
      BY <3>1, <3>2
    <3>5. tokens' \in [Token -> [who : Identity, tier : Tier] \union {None}]
      BY <2>3, <3>4 DEF TypeOK
    <3>6. \A t \in Token : t > minted' => tokens'[t] = None
      BY <2>3, BoundsPositive DEF TypeOK
    <3> QED
      BY <1>10, <2>1, <3>3, <3>5, <3>6 DEF TypeOK, Mint
  <2> QED
    BY <1>10, <2>2, <2>3 DEF Mint
<1>11. ASSUME NEW q \in Req, RevokeOwn(q) PROVE TypeOK'
  BY <1>11 DEF TypeOK, RevokeOwn, Done
<1>12. ASSUME NEW q \in Req, GetTunnel(q) PROVE TypeOK'
  <2>1. req' \in [Req -> Requests]
    BY <1>12, GotoMoves, GotoWithMoves DEF TypeOK, GetTunnel
  <2> QED
    BY <1>12, <2>1 DEF TypeOK, GetTunnel
<1>13. ASSUME NEW q \in Req, Launch(q) PROVE TypeOK'
  <2>1. req' \in [Req -> Requests] /\ faults' \in 0..MaxFaults
    BY <1>13, GotoMoves, GiveUpMoves, BoundsPositive DEF TypeOK, Launch, Fault
  <2>2. app' \in Apps /\ app'.valid = (app'.rotated = None) /\ session' \in {session, None}
    <3>1. CASE app' = app
      BY <1>13, <3>1 DEF TypeOK, Launch
    <3>2. CASE app' # app
      <4>1. app.boot < MaxBoots /\ app' = Launched(app.boot + 1) /\ session' = None
        BY <1>13, <3>2 DEF Launch
      <4>2. app.boot + 1 \in Boot
        BY <4>1, BoundsPositive DEF TypeOK
      <4> QED
        BY <4>1, <4>2, LaunchedTyped
    <3> QED
      BY <3>1, <3>2
  <2> QED
    BY <1>13, <2>1, <2>2 DEF TypeOK, Launch
<1>14. ASSUME NEW q \in Req, CopyBootToken(q) PROVE TypeOK'
  <2>1. app.running => [boot |-> app.boot, by |-> q] \in Tunnels
    BY DEF TypeOK
  <2>2. req' \in [Req -> Requests]
    BY <1>14, <2>1, GotoWithMoves, GiveUpMoves DEF CopyBootToken
  <2> QED
    BY <1>14, <2>2 DEF TypeOK, CopyBootToken
<1>15. ASSUME NEW q \in Req, Rotate(q) PROVE TypeOK'
  <2>1. app' \in Apps /\ app'.valid = (app'.rotated = None)
    <3>1. Rotated(q) \in Apps /\ Rotated(q).valid = FALSE /\ Rotated(q).rotated = q /\ q # None
      BY NamesApart DEF TypeOK, Rotated
    <3>2. app' \in {app, Rotated(q)}
      BY <1>15 DEF Rotate
    <3> QED
      BY <3>1, <3>2 DEF TypeOK
  <2>2. req' \in [Req -> Requests] /\ faults' \in 0..MaxFaults
    BY <1>15, GotoMoves, GiveUpMoves, BoundsPositive DEF TypeOK, Rotate, Fault
  <2> QED
    BY <1>15, <2>1, <2>2 DEF TypeOK, Rotate
<1>16. ASSUME NEW q \in Req, SetTunnel(q) PROVE TypeOK'
  <2>1. req' \in [Req -> Requests]
    BY <1>16, GotoMoves DEF TypeOK, SetTunnel, Done
  <2>2. tunnel' \in Tunnels
    BY <1>16 DEF TypeOK, SetTunnel, Requests
  <2> QED
    BY <1>16, <2>1, <2>2 DEF TypeOK, SetTunnel
<1>17. ASSUME NEW q \in Req, Proxy(q) PROVE TypeOK'
  BY <1>17 DEF TypeOK, Proxy, Done
<1>18. ASSUME AppExits PROVE TypeOK'
  BY <1>18 DEF TypeOK, AppExits
<1>19. CASE UNCHANGED vars
  BY <1>19 DEF TypeOK, vars
<1> QED
  BY <1>1, <1>2, <1>3, <1>4, <1>5, <1>6, <1>7, <1>8, <1>9, <1>10, <1>11, <1>12, <1>13, <1>14,
     <1>15, <1>16, <1>17, <1>18, <1>19 DEF Next, Owner, Daemon

-----------------------------------------------------------------------------
(***************************************************************************)
(* Grants.                                                                 *)
(***************************************************************************)

LEMMA InitGInv == Init => GInv
<1> SUFFICES ASSUME Init PROVE GInv
  OBVIOUS
<1>1. Purposeful
  BY InitialsTyped, ReadyTyped DEF Init, Purposeful, Serving
<1>2. ListsWithinGrants
  BY InitialsTyped, ReadyTyped DEF Init, ListsWithinGrants, WithinGrants, Nobody
<1>3. ServedWithinGrants
  BY ReadyTyped, NamesApart DEF Init, ServedWithinGrants
<1> QED
  BY <1>1, <1>2, <1>3, InitTypeOK DEF GInv

\* A step that changes no request's aim but those it starts or ends.
LEMMA PurposefulStep == TypeOK /\ Purposeful /\ [Next]_vars => Purposeful'
<1> SUFFICES ASSUME TypeOK, Purposeful, [Next]_vars PROVE Purposeful'
  OBVIOUS
<1> USE InitialsTyped, ReadyTyped
<1>1. ASSUME NEW c \in Cli, NEW i \in Identity, NEW t \in Grants \union {None}, CliLoad(c, i, t)
      PROVE  Purposeful'
  BY <1>1 DEF TypeOK, Purposeful, Serving, CliLoad
<1>2. ASSUME NEW c \in Cli, CliTruncate(c) PROVE Purposeful'
  BY <1>2 DEF TypeOK, Purposeful, Serving, CliTruncate
<1>3. ASSUME NEW c \in Cli, CliWrite(c) \/ CliKilled(c) PROVE Purposeful'
  BY <1>3 DEF TypeOK, Purposeful, Serving, CliWrite, CliKilled
<1>4. ASSUME NEW i \in Identity, RevokeByIdentity(i) PROVE Purposeful'
  BY <1>4 DEF Purposeful, Serving, RevokeByIdentity
<1>5. ASSUME NEW t \in Token, TokenExpires(t) PROVE Purposeful'
  BY <1>5 DEF Purposeful, Serving, TokenExpires
<1>6. ASSUME NEW q \in Req, NEW i \in Identity, NEW k \in Kinds, MintLoad(q, i, TierOf[k])
      PROVE  Purposeful'
  BY <1>6 DEF TypeOK, Purposeful, Serving, MintLoad
<1>7. ASSUME NEW q \in Req, NEW t \in Token, NEW k \in Kinds, Validate(q, t, k)
      PROVE  Purposeful'
  BY <1>7 DEF TypeOK, Purposeful, Serving, Validate
<1>8. ASSUME NEW q \in Req, NEW k \in Kinds, LocalRequest(q, k) PROVE Purposeful'
  BY <1>8 DEF TypeOK, Purposeful, Serving, LocalRequest
<1>9. ASSUME NEW q \in Req, Mint(q) \/ RevokeOwn(q) \/ Proxy(q) PROVE Purposeful'
  BY <1>9 DEF TypeOK, Purposeful, Serving, Mint, RevokeOwn, Proxy, Done
<1>10. ASSUME NEW q \in Req, GetTunnel(q) \/ Launch(q) \/ CopyBootToken(q) \/ Rotate(q) \/ SetTunnel(q)
       PROVE  Purposeful'
  <2>1. Serving(q) /\ UNCHANGED cli
    BY <1>10 DEF Serving, GetTunnel, Launch, CopyBootToken, Rotate, SetTunnel
  <2>2. /\ \A p \in Req \ {q} : req'[p] = req[p]
        /\ req'[q].pc # "mint"
        /\ req'[q] = Ready \/ (req'[q].kind = req[q].kind /\ req'[q].tier = req[q].tier)
    BY <1>10, MovedOn DEF SameAim
  <2> QED
    BY <2>1, <2>2 DEF Purposeful, Serving
<1>11. CASE AppExits \/ UNCHANGED vars
  BY <1>11 DEF Purposeful, Serving, AppExits, vars
<1> QED
  BY <1>1, <1>2, <1>3, <1>4, <1>5, <1>6, <1>7, <1>8, <1>9, <1>10, <1>11 DEF Next, Owner, Daemon

LEMMA WithinFacts ==
    ASSUME TypeOK
    PROVE  /\ \A i \in Identity : allow[i] \in TierOrNone /\ granted[i] \in TierOrNone
           /\ \A c \in Cli, i \in Identity : cli[c].copy[i] \in TierOrNone
           /\ \A c \in Cli : cli[c].tier \in TierOrNone
           /\ \A q \in Req : req[q].copy \in TierOrNone /\ req[q].tier \in Tier
           /\ \A t \in Token : tokens[t] # None =>
                 tokens[t].who \in Identity /\ tokens[t].tier \in Tier
BY DEF TypeOK, Requests

\* Grants only grow; a write of the list is within them.
LEMMA WriteGrants ==
    ASSUME TypeOK, Purposeful, ListsWithinGrants, NEW c \in Cli, CliWrite(c)
    PROVE  /\ \A i \in Identity, n \in Tier : Covers(granted[i], n) => Covers(granted'[i], n)
           /\ \A i \in Identity : WithinGrants(i, allow[i])'
           /\ cli'[c] = NotRun /\ \A d \in Cli \ {c} : cli'[d] = cli[d]
<1> DEFINE me == cli[c].who
<1>1. me \in Identity
  BY DEF CliWrite, Purposeful
<1>2. \A i \in Identity : granted'[i] = IF i = me THEN Higher(granted[i], cli[c].tier) ELSE granted[i]
  BY <1>1 DEF CliWrite, TypeOK
<1>3. \A i \in Identity : allow'[i] = IF i = me THEN cli[c].tier ELSE cli[c].copy[i]
  BY <1>1 DEF CliWrite, TypeOK
<1>4. ASSUME NEW i \in Identity, NEW n \in Tier, Covers(granted[i], n)
      PROVE  Covers(granted'[i], n)
  <2>1. CASE i = me
    <3>1. granted[i] # None /\ granted[i] \in Tier
      BY <1>4, WithinFacts DEF Covers
    <3>2. Covers(Higher(granted[i], cli[c].tier), granted[i])
      BY <3>1, WithinFacts, HigherCovers
    <3> QED
      BY <1>2, <1>4, <2>1, <3>1, <3>2, WithinFacts, HigherCovers, CoversTrans DEF Covers
  <2> QED
    BY <1>2, <1>4, <2>1
<1>5. ASSUME NEW i \in Identity PROVE WithinGrants(i, allow[i])'
  BY <1>2, <1>3, WithinFacts, HigherCovers DEF WithinGrants, ListsWithinGrants
<1>6. cli'[c] = NotRun /\ \A d \in Cli \ {c} : cli'[d] = cli[d]
  BY DEF CliWrite, TypeOK
<1> QED
  BY <1>4, <1>5, <1>6

\* Whatever was within the grants stays within them while they grow.
LEMMA GrantsGrow ==
    ASSUME TypeOK, Purposeful, ListsWithinGrants, ServedWithinGrants,
           \A i \in Identity, n \in Tier : Covers(granted[i], n) => Covers(granted'[i], n),
           UNCHANGED <<req, tokens, session>>,
           \A i \in Identity : WithinGrants(i, allow[i])',
           \A c \in Cli : cli'[c] = cli[c] \/ cli'[c].copy = Nobody
    PROVE  (ListsWithinGrants /\ ServedWithinGrants)'
<1>1. ASSUME NEW i \in Identity, NEW t \in TierOrNone, WithinGrants(i, t)
      PROVE  WithinGrants(i, t)'
  BY <1>1 DEF WithinGrants
<1>2. ASSUME NEW c \in Cli, NEW i \in Identity PROVE WithinGrants(i, cli[c].copy[i])'
  <2>1. CASE cli'[c] = cli[c]
    BY <1>1, <2>1, WithinFacts DEF ListsWithinGrants, WithinGrants
  <2>2. CASE cli'[c].copy = Nobody
    BY <2>2 DEF WithinGrants, Nobody
  <2> QED
    BY <2>1, <2>2
<1>3. ListsWithinGrants'
  <2>1. ASSUME NEW q \in Req, req[q].pc = "mint" PROVE WithinGrants(req[q].who, req[q].copy)'
    <3>1. req[q].who \in Identity /\ WithinGrants(req[q].who, req[q].copy)
      BY <2>1 DEF Purposeful, ListsWithinGrants
    <3> QED
      BY <1>1, <3>1, WithinFacts DEF WithinGrants
  <2> QED
    BY <1>2, <2>1 DEF ListsWithinGrants
<1>4. ServedWithinGrants'
  <2>1. ASSUME NEW t \in Token, tokens[t] # None
        PROVE  Covers(granted[tokens[t].who], tokens[t].tier)'
    BY <2>1, WithinFacts DEF ServedWithinGrants
  <2>2. ASSUME NEW q \in Req, req[q].who \in Identity, req[q].pc \notin {"ready", "mint", "revoke"}
        PROVE  Covers(granted[req[q].who], req[q].tier)'
    BY <2>2, WithinFacts DEF ServedWithinGrants
  <2>3. session \in Identity => Covers(granted[session], TierOf.acquire)'
    BY TierOfTyped DEF ServedWithinGrants, TierOf
  <2> QED
    BY <2>1, <2>2, <2>3 DEF ServedWithinGrants
<1> QED
  BY <1>3, <1>4

\* A step that leaves the grants alone, and moves one request at most.
LEMMA GrantsStep ==
    ASSUME TypeOK, Purposeful, ListsWithinGrants, ServedWithinGrants, [Next]_vars
    PROVE  (ListsWithinGrants /\ ServedWithinGrants)'
<1> USE InitialsTyped, ReadyTyped
<1>1. ASSUME NEW c \in Cli, NEW i \in Identity, NEW t \in Grants \union {None}, CliLoad(c, i, t)
      PROVE  (ListsWithinGrants /\ ServedWithinGrants)'
  <2>1. /\ UNCHANGED <<req, tokens, session, granted, allow>>
        /\ \A d \in Cli : \/ cli'[d] = cli[d]
                          \/ cli'[d].copy = Nobody
                          \/ cli'[d].copy = allow
    BY <1>1 DEF TypeOK, CliLoad
  <2>2. ServedWithinGrants'
    BY <2>1 DEF ServedWithinGrants
  <2>3. ASSUME NEW d \in Cli, NEW j \in Identity PROVE WithinGrants(j, cli[d].copy[j])'
    BY <2>1 DEF ListsWithinGrants, WithinGrants, Nobody
  <2> QED
    BY <2>1, <2>2, <2>3 DEF ListsWithinGrants, WithinGrants
<1>2. ASSUME NEW c \in Cli, CliTruncate(c) PROVE (ListsWithinGrants /\ ServedWithinGrants)'
  <2>1. /\ UNCHANGED <<req, tokens, session, granted, allow>>
        /\ \A d \in Cli : cli'[d].copy = cli[d].copy
    BY <1>2 DEF TypeOK, CliTruncate
  <2> QED
    BY <2>1 DEF ListsWithinGrants, WithinGrants, ServedWithinGrants
<1>3. ASSUME NEW c \in Cli, CliWrite(c) PROVE (ListsWithinGrants /\ ServedWithinGrants)'
  <2>1. UNCHANGED <<req, tokens, session>>
    BY <1>3 DEF CliWrite
  <2>2. \A d \in Cli : cli'[d] = cli[d] \/ cli'[d].copy = Nobody
    BY <1>3, WriteGrants
  <2> QED
    BY <1>3, <2>1, <2>2, WriteGrants, GrantsGrow
<1>4. ASSUME NEW c \in Cli, CliKilled(c) PROVE (ListsWithinGrants /\ ServedWithinGrants)'
  <2>1. UNCHANGED <<req, tokens, session, granted>> /\ allow' = Nobody
    BY <1>4 DEF CliKilled
  <2>2. \A d \in Cli : cli'[d] = cli[d] \/ cli'[d].copy = Nobody
    BY <1>4 DEF TypeOK, CliKilled
  <2> QED
    BY <2>1, <2>2, GrantsGrow DEF WithinGrants, Nobody
<1>5. ASSUME NEW i \in Identity, RevokeByIdentity(i)
      PROVE  (ListsWithinGrants /\ ServedWithinGrants)'
  <2>1. /\ UNCHANGED <<allow, cli, req, session, granted>>
        /\ \A t \in Token : tokens'[t] = None \/ tokens'[t] = tokens[t]
    BY <1>5 DEF TypeOK, RevokeByIdentity
  <2> QED
    BY <2>1 DEF ListsWithinGrants, WithinGrants, ServedWithinGrants
<1>6. ASSUME NEW t \in Token, TokenExpires(t) PROVE (ListsWithinGrants /\ ServedWithinGrants)'
  <2>1. /\ UNCHANGED <<allow, cli, req, session, granted>>
        /\ \A u \in Token : tokens'[u] = None \/ tokens'[u] = tokens[u]
    BY <1>6 DEF TypeOK, TokenExpires
  <2> QED
    BY <2>1 DEF ListsWithinGrants, WithinGrants, ServedWithinGrants
<1>7. ASSUME NEW q \in Req, NEW i \in Identity, NEW k \in Kinds, MintLoad(q, i, TierOf[k])
      PROVE  (ListsWithinGrants /\ ServedWithinGrants)'
  <2>1. /\ UNCHANGED <<allow, cli, tokens, session, granted>>
        /\ \A p \in Req \ {q} : req'[p] = req[p]
        /\ req'[q].pc = "mint" /\ req'[q].who = i /\ req'[q].copy \in {None, allow[i]}
    BY <1>7 DEF TypeOK, MintLoad, Ready
  <2> QED
    BY <2>1 DEF ListsWithinGrants, WithinGrants, ServedWithinGrants
<1>8. ASSUME NEW q \in Req, NEW t \in Token, NEW k \in Kinds, Validate(q, t, k)
      PROVE  (ListsWithinGrants /\ ServedWithinGrants)'
  <2>1. /\ UNCHANGED <<allow, cli, tokens, session, granted>>
        /\ \A p \in Req \ {q} : req'[p] = req[p]
        /\ req'[q].pc # "mint" /\ req'[q].who = tokens[t].who /\ req'[q].tier = TierOf[k]
        /\ tokens[t] # None /\ Covers(tokens[t].tier, TierOf[k])
    BY <1>8 DEF TypeOK, Validate, Ready
  <2>2. Covers(granted[tokens[t].who], TierOf[k])
    <3>1. Covers(granted[tokens[t].who], tokens[t].tier)
      BY <2>1 DEF ServedWithinGrants
    <3> QED
      BY <2>1, <3>1, WithinFacts, TierOfTyped, KindsKnown, CoversTrans DEF Covers
  <2> QED
    BY <2>1, <2>2 DEF ListsWithinGrants, WithinGrants, ServedWithinGrants
<1>9. ASSUME NEW q \in Req, NEW k \in Kinds, LocalRequest(q, k)
      PROVE  (ListsWithinGrants /\ ServedWithinGrants)'
  <2>1. /\ UNCHANGED <<allow, cli, tokens, session, granted>>
        /\ \A p \in Req \ {q} : req'[p] = req[p]
        /\ req'[q].pc # "mint" /\ req'[q].who = Local
    BY <1>9 DEF TypeOK, LocalRequest, Ready
  <2> QED
    BY <2>1, NamesApart DEF ListsWithinGrants, WithinGrants, ServedWithinGrants
<1>10. ASSUME NEW q \in Req, Mint(q) PROVE (ListsWithinGrants /\ ServedWithinGrants)'
  <2>1. /\ UNCHANGED <<allow, cli, session, granted>>
        /\ \A p \in Req \ {q} : req'[p] = req[p]
        /\ req'[q] = Ready
    BY <1>10, DoneMoves DEF Mint
  <2>2. ASSUME NEW t \in Token, tokens'[t] # None
        PROVE  Covers(granted[tokens[t].who], tokens[t].tier)'
    <3>1. CASE tokens'[t] = tokens[t]
      BY <2>1, <2>2, <3>1 DEF ServedWithinGrants
    <3>2. CASE tokens'[t] # tokens[t]
      <4>1. /\ Mintable(q) /\ req[q].pc = "mint" /\ t = minted + 1
            /\ tokens'[t] = [who |-> req[q].who, tier |-> Higher(req[q].copy, req[q].tier)]
        BY <1>10, <3>2 DEF Mint, TypeOK
      <4>2. req[q].copy # None /\ req[q].who \in Identity /\ req[q].copy \in Tier
            /\ req[q].copy >= req[q].tier
        BY <4>1, WithinFacts DEF Mintable, Covers, Purposeful
      <4>3. Covers(granted[req[q].who], req[q].copy)
        BY <4>1, <4>2 DEF ListsWithinGrants, WithinGrants
      <4>4. Higher(req[q].copy, req[q].tier) = req[q].copy
        BY <4>2 DEF Higher, Covers
      <4> QED
        BY <2>1, <4>1, <4>3, <4>4
    <3> QED
      BY <3>1, <3>2
  <2> QED
    BY <2>1, <2>2 DEF ListsWithinGrants, WithinGrants, ServedWithinGrants
<1>11. ASSUME NEW q \in Req, RevokeOwn(q) PROVE (ListsWithinGrants /\ ServedWithinGrants)'
  <2>1. /\ UNCHANGED <<allow, cli, session, granted>>
        /\ \A p \in Req \ {q} : req'[p] = req[p]
        /\ req'[q] = Ready
        /\ \A u \in Token : tokens'[u] = None \/ tokens'[u] = tokens[u]
    BY <1>11, DoneMoves DEF RevokeOwn, TypeOK
  <2> QED
    BY <2>1 DEF ListsWithinGrants, WithinGrants, ServedWithinGrants
<1>12. ASSUME NEW q \in Req,
              GetTunnel(q) \/ Launch(q) \/ CopyBootToken(q) \/ Rotate(q) \/ SetTunnel(q)
       PROVE  (ListsWithinGrants /\ ServedWithinGrants)'
  <2>1. UNCHANGED <<allow, cli, tokens, granted>> /\ session' \in {session, None} /\ Serving(q)
    BY <1>12 DEF Serving, GetTunnel, Launch, CopyBootToken, Rotate, SetTunnel
  <2>2. /\ \A p \in Req \ {q} : req'[p] = req[p]
        /\ \/ req'[q] = Ready
           \/ /\ req'[q].pc # "mint" /\ req'[q].who = req[q].who /\ req'[q].tier = req[q].tier
    BY <1>12, MovedOn DEF SameAim
  <2> QED
    BY <2>1, <2>2, NamesApart DEF ListsWithinGrants, WithinGrants, ServedWithinGrants, Serving
<1>13. ASSUME NEW q \in Req, Proxy(q) PROVE (ListsWithinGrants /\ ServedWithinGrants)'
  <2>1. /\ UNCHANGED <<allow, cli, tokens, granted>>
        /\ \A p \in Req \ {q} : req'[p] = req[p]
        /\ req'[q] = Ready
    BY <1>13, DoneMoves DEF Proxy
  <2>2. session' \in Identity => Covers(granted[session'], TierOf.acquire)
    <3>1. \/ session' \in {session, None}
          \/ session' = req[q].who /\ req[q].kind = "acquire"
      BY <1>13 DEF Proxy, SessionAfter
    <3>2. CASE session' = req[q].who /\ req[q].kind = "acquire"
      <4>1. Serving(q)
        BY <1>13 DEF Proxy, Serving
      <4>2. req[q].tier = TierOf.acquire
        BY <3>2, <4>1 DEF Purposeful, TierOf
      <4> QED
        BY <3>2, <4>1, <4>2 DEF ServedWithinGrants, Serving
    <3> QED
      BY <3>1, <3>2, NamesApart DEF ServedWithinGrants
  <2> QED
    BY <2>1, <2>2 DEF ListsWithinGrants, WithinGrants, ServedWithinGrants
<1>14. CASE AppExits
  BY <1>14, NamesApart DEF ListsWithinGrants, WithinGrants, ServedWithinGrants, AppExits
<1>15. CASE UNCHANGED vars
  BY <1>15 DEF ListsWithinGrants, WithinGrants, ServedWithinGrants, vars
<1> QED
  BY <1>1, <1>2, <1>3, <1>4, <1>5, <1>6, <1>7, <1>8, <1>9, <1>10, <1>11, <1>12, <1>13, <1>14,
     <1>15 DEF Next, Owner, Daemon

\* TypeOK, of every variable of the daemon, the tool and the device.
THEOREM TypeCorrect == Spec => []TypeOK
<1>1. Init => TypeOK /\ Purposeful
  BY InitGInv DEF GInv
<1>2. TypeOK /\ Purposeful /\ [Next]_vars => (TypeOK /\ Purposeful)'
  BY TypeStep, PurposefulStep
<1> QED
  BY <1>1, <1>2, PTL DEF Spec

\* No agent holds a token, a request past the daemon or the device's session above the tier its
\* owner gave it (mintForCaller, handleTailnet): the property ServedWithinGrants.
THEOREM NoTierBeyondGrant == Spec => []ServedWithinGrants
<1>1. Init => GInv
  BY InitGInv
<1>2. GInv /\ [Next]_vars => GInv'
  BY TypeStep, PurposefulStep, GrantsStep DEF GInv
<1>3. GInv => ServedWithinGrants
  BY DEF GInv
<1> QED
  BY <1>1, <1>2, <1>3, PTL DEF Spec

-----------------------------------------------------------------------------
(***************************************************************************)
(* The tunnel.                                                             *)
(***************************************************************************)

LEMMA FitsStep ==
    ASSUME TypeOK, TypeOK', AllFit, [Next]_vars
    PROVE  AllFit'
<1> USE InitialsTyped, ReadyTyped
<1>0. /\ app.boot \in Boot /\ app'.boot \in Boot
      /\ \A q \in Req : req[q].tunnel \in Tunnels
  BY DEF TypeOK, Requests
<1>n. Fits(NoTunnel)'
  BY <1>0 DEF Fits
<1>1. ASSUME NEW q \in Req, UNCHANGED <<tunnel, app>>,
             \A p \in Req \ {q} : req'[p] = req[p], req'[q].pc \notin {"set", "rotate"}
      PROVE  AllFit'
  BY <1>1 DEF AllFit, Fits
<1>2. ASSUME UNCHANGED <<tunnel, app, req>> PROVE AllFit'
  BY <1>2 DEF AllFit, Fits
<1>3. ASSUME Owner PROVE AllFit'
  BY <1>2, <1>3 DEF Owner, CliLoad, CliTruncate, CliWrite, CliKilled, RevokeByIdentity
<1>4. ASSUME NEW q \in Req, NEW i \in Identity, NEW t \in {TierOf[k] : k \in Kinds}, MintLoad(q, i, t)
      PROVE  AllFit'
  <2>1. (\A p \in Req \ {q} : req'[p] = req[p]) /\ req'[q].pc = "mint"
    BY <1>4 DEF MintLoad, TypeOK, Ready
  <2> QED
    BY <1>1, <1>4, <2>1 DEF MintLoad
<1>5. ASSUME NEW q \in Req, NEW t \in Token, NEW k \in Kinds, Validate(q, t, k) PROVE AllFit'
  <2>1. (\A p \in Req \ {q} : req'[p] = req[p]) /\ req'[q].pc \in {"revoke", "tunnel"}
    BY <1>5 DEF Validate, TypeOK, Ready
  <2> QED
    BY <1>1, <1>5, <2>1 DEF Validate
<1>6. ASSUME NEW q \in Req, NEW k \in Kinds, LocalRequest(q, k) PROVE AllFit'
  <2>1. (\A p \in Req \ {q} : req'[p] = req[p]) /\ req'[q].pc = "tunnel"
    BY <1>6 DEF LocalRequest, TypeOK, Ready
  <2> QED
    BY <1>1, <1>6, <2>1 DEF LocalRequest
<1>7. ASSUME NEW q \in Req, Mint(q) \/ RevokeOwn(q) \/ Proxy(q) PROVE AllFit'
  <2>1. Done(q) /\ UNCHANGED <<tunnel, app>>
    BY <1>7 DEF Mint, RevokeOwn, Proxy
  <2> QED
    BY <1>1, <2>1, DoneMoves
<1>8. ASSUME NEW q \in Req, GetTunnel(q) PROVE AllFit'
  <2>1. (\A p \in Req \ {q} : req'[p] = req[p]) /\ req'[q].pc \in {"proxy", "launch"}
    BY <1>8, GotoMoves, GotoWithMoves DEF GetTunnel, TypeOK
  <2> QED
    BY <1>1, <1>8, <2>1 DEF GetTunnel
<1>9. ASSUME NEW q \in Req, Launch(q) PROVE AllFit'
  <2>1. /\ \A p \in Req \ {q} : req'[p] = req[p]
        /\ req'[q].pc = "copy" \/ (req'[q].pc = "set" /\ req'[q].tunnel = NoTunnel)
    BY <1>9, GotoMoves, GiveUpMoves DEF Launch
  <2>2. tunnel' = tunnel /\ (app' = app \/ app'.boot = app.boot + 1)
    BY <1>9 DEF Launch, Launched
  <2>3. \A t \in Tunnels : Fits(t) => Fits(t)'
    BY <1>0, <2>2 DEF Fits
  <2>4. \A t \in Tunnels : t.boot <= app.boot => t.boot <= app'.boot
    BY <1>0, <2>2
  <2>5. Fits(tunnel)'
    BY <2>2, <2>3 DEF AllFit, TypeOK
  <2>6. ASSUME NEW p \in Req \ {q}
        PROVE  /\ req'[p].pc = "set" => Fits(req[p].tunnel)'
               /\ req'[p].pc = "rotate" => req'[p].tunnel.boot <= app'.boot /\ req'[p].tunnel.by = p
    BY <1>0, <2>1, <2>3, <2>4 DEF AllFit
  <2> QED
    BY <1>n, <2>1, <2>5, <2>6 DEF AllFit
<1>10. ASSUME NEW q \in Req, CopyBootToken(q) PROVE AllFit'
  <2>0. [boot |-> app.boot, by |-> q] \in Tunnels
    BY DEF TypeOK
  <2>1. /\ \A p \in Req \ {q} : req'[p] = req[p]
        /\ \/ req'[q].pc = "rotate" /\ req'[q].tunnel = [boot |-> app.boot, by |-> q]
           \/ req'[q].pc = "set" /\ req'[q].tunnel = NoTunnel
    <3>1. CASE GiveUp(q)
      BY <3>1, GiveUpMoves
    <3>2. CASE req' = [req EXCEPT ![q].pc = "rotate",
                                  ![q].tunnel = [boot |-> app.boot, by |-> q]]
      BY <2>0, <3>2, GotoWithMoves
    <3> QED
      BY <1>10, <3>1, <3>2 DEF CopyBootToken
  <2>2. UNCHANGED <<tunnel, app>>
    BY <1>10 DEF CopyBootToken
  <2> QED
    BY <1>0, <1>n, <2>1, <2>2 DEF AllFit, Fits
<1>11. ASSUME NEW q \in Req, Rotate(q) PROVE AllFit'
  <2>1. /\ \A p \in Req \ {q} : req'[p] = req[p]
        /\ \/ req'[q].pc = "set" /\ req'[q].tunnel = req[q].tunnel /\ Takes(q) /\ app' = Rotated(q)
           \/ req'[q].pc = "set" /\ req'[q].tunnel = NoTunnel
    BY <1>11, GotoMoves, GiveUpMoves DEF Rotate, Accepted
  <2>2. tunnel' = tunnel /\ (app' = app \/ (Takes(q) /\ app' = Rotated(q)))
    BY <1>11 DEF Rotate
  <2>3. /\ app'.boot = app.boot
        /\ app' # app => app.rotated = None /\ app'.rotated = q
    BY <2>2 DEF Takes, Rotated, TypeOK
  <2>4. \A t \in Tunnels : Fits(t) => Fits(t)'
    BY <1>0, <2>3 DEF Fits
  <2>5. Fits(tunnel)'
    BY <2>2, <2>4 DEF AllFit, TypeOK
  <2>6. ASSUME NEW p \in Req \ {q}
        PROVE  /\ req'[p].pc = "set" => Fits(req[p].tunnel)'
               /\ req'[p].pc = "rotate" => req'[p].tunnel.boot <= app'.boot /\ req'[p].tunnel.by = p
    BY <1>0, <2>1, <2>3, <2>4 DEF AllFit
  <2>7. Takes(q) /\ app' = Rotated(q) => Fits(req[q].tunnel)'
    <3>1. req[q].tunnel.by = q /\ req[q].tunnel.boot <= app.boot
      BY <1>11 DEF Rotate, AllFit
    <3>2. app' = Rotated(q) => app'.rotated = q /\ app'.boot = app.boot
      BY DEF Rotated, TypeOK
    <3>3. Takes(q) /\ app' = Rotated(q) =>
             req[q].tunnel.boot <= app'.boot /\ req[q].tunnel.by = app'.rotated /\ q # None
      BY <3>1, <3>2, NamesApart
    <3>4. ASSUME Takes(q), app' = Rotated(q), req[q].tunnel.boot = app'.boot
          PROVE  req[q].tunnel.by # None
      BY <3>1, NamesApart
    <3>5. req'[q].tunnel = req[q].tunnel \/ req'[q].tunnel = NoTunnel
      BY <2>1
    <3> QED
      BY <3>3, <3>4, <3>5, <1>n DEF Fits
  <2> QED
    BY <1>n, <2>1, <2>5, <2>6, <2>7 DEF AllFit
<1>12. ASSUME NEW q \in Req, SetTunnel(q) PROVE AllFit'
  <2>1. /\ \A p \in Req \ {q} : req'[p] = req[p]
        /\ req'[q].pc \notin {"set", "rotate"}
    BY <1>12, GotoMoves, DoneMoves DEF SetTunnel
  <2>2. app' = app /\ tunnel' = req[q].tunnel /\ Fits(req[q].tunnel)
    BY <1>12 DEF SetTunnel, AllFit
  <2> QED
    BY <2>1, <2>2 DEF AllFit, Fits
<1>13. ASSUME NEW t \in Token, TokenExpires(t) PROVE AllFit'
  BY <1>2, <1>13 DEF TokenExpires
<1>14. CASE AppExits
  <2>1. UNCHANGED <<tunnel, req>> /\ app'.boot = app.boot /\ app'.rotated = app.rotated
    BY <1>14 DEF AppExits, TypeOK
  <2> QED
    BY <2>1 DEF AllFit, Fits
<1>15. CASE UNCHANGED vars
  BY <1>2, <1>15 DEF vars
<1> QED
  BY <1>3, <1>4, <1>5, <1>6, <1>7, <1>8, <1>9, <1>10, <1>11, <1>12, <1>13, <1>14, <1>15
     DEF Next, Daemon

\* The tunnel the daemon keeps is never one that the running launch answers with 401
\* (bootstrapTunnel, getTunnel, handleAuthRotate): the property TunnelWorks.
THEOREM TunnelCarriesToken == Spec => []TunnelWorks
<1>1. Init => TypeOK /\ Purposeful /\ AllFit
  <2> SUFFICES ASSUME Init PROVE TypeOK /\ Purposeful /\ AllFit
    OBVIOUS
  <2>1. TypeOK /\ Purposeful
    BY InitGInv DEF GInv
  <2>2. app.boot = 1
    BY DEF Init, Launched
  <2>3. tunnel.boot = 0 /\ \A q \in Req : req[q].pc = "ready"
    BY ReadyTyped DEF Init
  <2> QED
    BY <2>1, <2>2, <2>3 DEF AllFit, Fits
<1>2. TypeOK /\ Purposeful /\ AllFit /\ [Next]_vars => (TypeOK /\ Purposeful /\ AllFit)'
  BY TypeStep, PurposefulStep, FitsStep
<1>3. AllFit => TunnelWorks
  BY DEF AllFit, Fits, TunnelWorks, Works
<1> QED
  BY <1>1, <1>2, <1>3, PTL DEF Spec

-----------------------------------------------------------------------------
(***************************************************************************)
(* Revocation.                                                             *)
(***************************************************************************)

\* A step that adds nobody to out, reads nothing but the list and mints nothing.
LEMMA OffKept ==
    ASSUME OffEveryList, RevokedCutOff, out' = out, UNCHANGED <<allow, granted>>,
           \A c \in Cli : cli'[c].copy \in {cli[c].copy, allow, Nobody},
           \A t \in Token : tokens'[t] = None \/ tokens'[t] = tokens[t],
           \A q \in Req : \/ req'[q] = req[q] \/ req'[q].pc # "mint"
                          \/ \E i \in Identity : req'[q].who = i /\ req'[q].copy \in {None, allow[i]},
           out \subseteq Identity
    PROVE  (OffEveryList /\ RevokedCutOff)'
<1>1. ASSUME NEW i \in out PROVE TokensOf(i)' = {}
  BY <1>1 DEF RevokedCutOff, TokensOf
<1>2. ASSUME NEW i \in out, NEW c \in Cli PROVE cli'[c].copy[i] = None
  BY <1>2 DEF OffEveryList, Nobody
<1>3. ASSUME NEW i \in out, NEW q \in Req, req'[q].pc = "mint", req'[q].who = i
      PROVE  req'[q].copy = None
  BY <1>3 DEF OffEveryList
<1> QED
  BY <1>1, <1>2, <1>3 DEF OffEveryList, RevokedCutOff

LEMMA OffStep ==
    ASSUME TypeOK, Purposeful, OffEveryList, RevokedCutOff, [Next]_vars
    PROVE  (OffEveryList /\ RevokedCutOff)'
<1> USE InitialsTyped, ReadyTyped
<1>0. out \subseteq Identity
  BY DEF TypeOK
<1>1. ASSUME NEW c \in Cli, NEW i \in Identity, NEW t \in Grants \union {None}, CliLoad(c, i, t)
      PROVE  (OffEveryList /\ RevokedCutOff)'
  <2>1. \A d \in Cli : cli'[d].copy \in {cli[d].copy, allow, Nobody}
    BY <1>1 DEF CliLoad, TypeOK
  <2> QED
    BY <1>0, <1>1, <2>1, OffKept DEF CliLoad
<1>2. ASSUME NEW c \in Cli, CliTruncate(c) PROVE (OffEveryList /\ RevokedCutOff)'
  <2>1. \A d \in Cli : cli'[d].copy \in {cli[d].copy, allow, Nobody}
    BY <1>2 DEF CliTruncate, TypeOK
  <2> QED
    BY <1>0, <1>2, <2>1, OffKept DEF CliTruncate
<1>3. ASSUME NEW c \in Cli, CliWrite(c) PROVE (OffEveryList /\ RevokedCutOff)'
  <2>1. /\ UNCHANGED <<req, tokens>>
        /\ out' = {j \in out : allow'[j] = None}
        /\ allow' = [cli[c].copy EXCEPT ![cli[c].who] = cli[c].tier]
    BY <1>3 DEF CliWrite
  <2>2. \A d \in Cli : cli'[d].copy \in {cli[d].copy, Nobody}
    BY <1>3 DEF CliWrite, TypeOK
  <2>3. ASSUME NEW i \in out' PROVE i \in out /\ allow'[i] = None /\ i \in Identity
    BY <1>0, <2>1, <2>3
  <2>4. ASSUME NEW i \in out', NEW d \in Cli PROVE cli'[d].copy[i] = None
    BY <2>2, <2>3, <2>4 DEF OffEveryList, Nobody
  <2>5. ASSUME NEW i \in out' PROVE TokensOf(i)' = {}
    BY <2>1, <2>3, <2>5 DEF RevokedCutOff, TokensOf
  <2>6. ASSUME NEW i \in out', NEW q \in Req, req[q].pc = "mint", req[q].who = i
        PROVE  req[q].copy = None
    BY <2>3, <2>6 DEF OffEveryList
  <2> QED
    BY <2>1, <2>3, <2>4, <2>5, <2>6 DEF OffEveryList, RevokedCutOff
<1>4. ASSUME NEW c \in Cli, CliKilled(c) PROVE (OffEveryList /\ RevokedCutOff)'
  <2>1. UNCHANGED <<req, tokens, out>> /\ allow' = Nobody
    BY <1>4 DEF CliKilled
  <2>2. \A d \in Cli : cli'[d].copy \in {cli[d].copy, Nobody}
    BY <1>4 DEF CliKilled, TypeOK
  <2>3. ASSUME NEW i \in out, NEW d \in Cli PROVE cli'[d].copy[i] = None
    BY <1>0, <2>2, <2>3 DEF OffEveryList, Nobody
  <2>4. \A i \in out : allow'[i] = None
    BY <1>0, <2>1 DEF Nobody
  <2>5. \A i \in out : TokensOf(i)' = {}
    BY <2>1 DEF RevokedCutOff, TokensOf
  <2> QED
    BY <2>1, <2>3, <2>4, <2>5 DEF OffEveryList, RevokedCutOff
<1>5. ASSUME NEW i \in Identity, RevokeByIdentity(i) PROVE (OffEveryList /\ RevokedCutOff)'
  <2>1. /\ UNCHANGED <<allow, cli, req>>
        /\ \A t \in Token : tokens'[t] = IF t \in TokensOf(i) THEN None ELSE tokens[t]
        /\ out' = out \/ (allow[i] = None /\ ~Underway(i) /\ out' = out \union {i})
    BY <1>5 DEF RevokeByIdentity, RevokedTokens
  <2>2. \A j \in out' \ {i} : j \in out
    BY <2>1
  <2>3. ASSUME NEW j \in out' PROVE TokensOf(j)' = {}
    <3>1. CASE j = i
      BY <2>1, <3>1 DEF TokensOf
    <3>2. CASE j # i
      BY <2>1, <2>2, <2>3, <3>2 DEF TokensOf, RevokedCutOff
    <3> QED
      BY <3>1, <3>2
  <2>4. ASSUME NEW j \in out', j \notin out
        PROVE  /\ allow[j] = None
               /\ \A c \in Cli : cli[c].copy[j] = None
               /\ \A q \in Req : req[q].pc = "mint" /\ req[q].who = j => req[q].copy = None
    <3>1. j = i /\ allow[i] = None /\ ~Underway(i)
      BY <2>1, <2>4
    <3>2. \A c \in Cli : cli[c].pc = "start"
      BY <3>1 DEF Underway, TypeOK
    <3>3. \A c \in Cli : cli[c].copy = Nobody
      BY <3>2 DEF Purposeful
    <3> QED
      BY <3>1, <3>3 DEF Underway, Nobody
  <2> QED
    BY <2>1, <2>3, <2>4 DEF OffEveryList, RevokedCutOff
<1>6. ASSUME NEW t \in Token, TokenExpires(t) PROVE (OffEveryList /\ RevokedCutOff)'
  <2>1. \A u \in Token : tokens'[u] = None \/ tokens'[u] = tokens[u]
    BY <1>6 DEF TokenExpires, TypeOK
  <2> QED
    BY <1>0, <1>6, <2>1, OffKept DEF TokenExpires
<1>7. ASSUME NEW q \in Req, NEW i \in Identity, NEW k \in Kinds, MintLoad(q, i, TierOf[k])
      PROVE  (OffEveryList /\ RevokedCutOff)'
  <2>1. /\ \A p \in Req \ {q} : req'[p] = req[p]
        /\ req'[q].who = i /\ req'[q].copy \in {None, allow[i]}
    BY <1>7 DEF MintLoad, TypeOK, Ready
  <2> QED
    BY <1>0, <1>7, <2>1, OffKept DEF MintLoad
<1>8. ASSUME NEW q \in Req, NEW t \in Token, NEW k \in Kinds, Validate(q, t, k)
      PROVE  (OffEveryList /\ RevokedCutOff)'
  <2>1. (\A p \in Req \ {q} : req'[p] = req[p]) /\ req'[q].pc # "mint"
    BY <1>8 DEF Validate, TypeOK, Ready
  <2> QED
    BY <1>0, <1>8, <2>1, OffKept DEF Validate
<1>9. ASSUME NEW q \in Req, NEW k \in Kinds, LocalRequest(q, k)
      PROVE  (OffEveryList /\ RevokedCutOff)'
  <2>1. (\A p \in Req \ {q} : req'[p] = req[p]) /\ req'[q].pc # "mint"
    BY <1>9 DEF LocalRequest, TypeOK, Ready
  <2> QED
    BY <1>0, <1>9, <2>1, OffKept DEF LocalRequest
<1>10. ASSUME NEW q \in Req, Mint(q) PROVE (OffEveryList /\ RevokedCutOff)'
  <2>1. /\ UNCHANGED <<allow, cli, out>>
        /\ (\A p \in Req \ {q} : req'[p] = req[p]) /\ req'[q].pc = "ready"
    BY <1>10, DoneMoves DEF Mint
  <2>2. ASSUME NEW i \in out PROVE TokensOf(i)' = {}
    <3>1. ASSUME NEW t \in Token, tokens'[t] # tokens[t] PROVE tokens'[t].who # i
      <4>1. /\ Mintable(q) /\ req[q].pc = "mint"
            /\ tokens'[t] = [who |-> req[q].who, tier |-> Higher(req[q].copy, req[q].tier)]
        BY <1>10, <3>1 DEF Mint, TypeOK
      <4>2. req[q].copy # None
        BY <4>1 DEF Mintable, Covers
      <4> QED
        BY <4>1, <4>2 DEF OffEveryList
    <3> QED
      BY <2>2, <3>1 DEF TokensOf, RevokedCutOff
  <2> QED
    BY <2>1, <2>2 DEF OffEveryList, RevokedCutOff
<1>11. ASSUME NEW q \in Req, RevokeOwn(q) \/ Proxy(q) PROVE (OffEveryList /\ RevokedCutOff)'
  <2>1. \A t \in Token : tokens'[t] = None \/ tokens'[t] = tokens[t]
    BY <1>11 DEF RevokeOwn, Proxy, TypeOK
  <2>2. (\A p \in Req \ {q} : req'[p] = req[p]) /\ req'[q].pc = "ready"
    BY <1>11, DoneMoves DEF RevokeOwn, Proxy
  <2> QED
    BY <1>0, <1>11, <2>1, <2>2, OffKept DEF RevokeOwn, Proxy
<1>12. ASSUME NEW q \in Req,
              GetTunnel(q) \/ Launch(q) \/ CopyBootToken(q) \/ Rotate(q) \/ SetTunnel(q)
       PROVE  (OffEveryList /\ RevokedCutOff)'
  <2>1. (\A p \in Req \ {q} : req'[p] = req[p]) /\ req'[q].pc # "mint"
    BY <1>12, MovedOn
  <2>2. UNCHANGED <<allow, granted, out, cli, tokens>>
    BY <1>12 DEF GetTunnel, Launch, CopyBootToken, Rotate, SetTunnel
  <2> QED
    BY <1>0, <2>1, <2>2, OffKept
<1>13. CASE AppExits \/ UNCHANGED vars
  BY <1>0, <1>13, OffKept DEF AppExits, vars
<1> QED
  BY <1>1, <1>2, <1>3, <1>4, <1>5, <1>6, <1>7, <1>8, <1>9, <1>10, <1>11, <1>12, <1>13
     DEF Next, Owner, Daemon

\* Once off the list and revoked with nothing on the way, an identity has no token until it is
\* granted again (handleLoopback's revoke, gstack-ios-qa-mint): the property RevokedCutOff.
THEOREM RevocationHolds == Spec => []RevokedCutOff
<1>1. Init => TypeOK /\ Purposeful /\ OffEveryList /\ RevokedCutOff
  <2> SUFFICES ASSUME Init PROVE TypeOK /\ Purposeful /\ OffEveryList /\ RevokedCutOff
    OBVIOUS
  <2>1. out = {}
    BY DEF Init
  <2> QED
    BY <2>1, InitGInv DEF GInv, OffEveryList, RevokedCutOff
<1>2. TypeOK /\ Purposeful /\ OffEveryList /\ RevokedCutOff /\ [Next]_vars
         => (TypeOK /\ Purposeful /\ OffEveryList /\ RevokedCutOff)'
  BY TypeStep, PurposefulStep, OffStep
<1> QED
  BY <1>1, <1>2, PTL DEF Spec
=============================================================================
