---------------------------- MODULE LoginProofs ----------------------------
(***************************************************************************)
(* Theorems about Login, for every set of processes and accounts and every *)
(* number of commands.                                                     *)
(***************************************************************************)
EXTENDS Login, TLAPS

Chosen == chosen \union {None}

\* What is on file, and what a process may yet put there, was chosen.
Provenance ==
    /\ file # None => file.token \in Chosen /\ file.user \in Chosen
    /\ \A p \in Proc : code[p] \in Chosen /\ creds[p].token \in Chosen /\ creds[p].user \in Chosen

\* A login has stored its token, and not its user yet.
Midway(p) == purpose[p] = "setUser"

\* What a process at a control point has in mind.
Purposeful ==
    \A p \in Proc :
        /\ pc[p] \in {"idle", "waiting", "exchange", "signout", "delete"} => ~Storing(p)
        /\ pc[p] = "write" => Storing(p)

\* A login that crossed no other one is the only one that stores.
Apart == \A p, q \in Proc : Storing(p) /\ Storing(q) /\ p \notin crossed => p = q

\* Such a login finds the token it stored, or none, when it stores its user.
OwnToken ==
    \A p \in Proc : Midway(p) /\ p \notin crossed =>
        /\ file # None => file.token \in {None, code[p]}
        /\ pc[p] = "write" => creds[p].token \in {None, code[p]}

SInv == TypeOK /\ Purposeful /\ Apart /\ OwnToken /\ OneSessionOnFile

USE DEF history, memory

LEMMA NoneIsNothing == None \notin Purposes /\ None \notin Credentials
BY LoginAssumption

\* What is read is what the file holds, as long as no token is in the environment.
LEMMA OverlayTyped ==
    ASSUME NEW c \in Credentials
    PROVE  Overlay(c) \in Credentials
BY LoginAssumption DEF Overlay, Credentials

LEMMA OverlayNone ==
    ASSUME EnvToken = None, NEW c
    PROVE  Overlay(c) = c
BY DEF Overlay

LEMMA UpdatedTyped ==
    ASSUME NEW c \in Credentials, NEW why, NEW account \in Account \union {None}
    PROVE  Updated(c, why, account) \in Credentials
BY DEF Updated, Credentials

LEMMA AfterSteps ==
    ASSUME NEW why, NEW c
    PROVE  /\ After(why, c) \in {"write", "signout", "idle"}
           /\ After(why, c) = "write" => why \in {"setToken", "setUser"}
           /\ why \in {"setToken", "setUser"} => After(why, c) = "write"
BY DEF After

LEMMA ForgetTyped ==
    ASSUME TypeOK, NEW p \in Proc, Forget(p)
    PROVE  /\ pc' \in [Proc -> Steps \union {"idle"}]
           /\ pending' \in [Proc -> BOOLEAN]
           /\ code' \in [Proc -> Account \union {None}]
           /\ purpose' \in [Proc -> Purposes \union {None}]
           /\ creds' \in [Proc -> Credentials]
BY DEF TypeOK, Forget, Credentials, NoCredentials

LEMMA ResolvedTyped ==
    ASSUME TypeOK, NEW p \in Proc, NEW c \in Credentials, Resolved(p, c)
    PROVE  /\ pc' \in [Proc -> Steps \union {"idle"}]
           /\ pending' \in [Proc -> BOOLEAN]
           /\ code' \in [Proc -> Account \union {None}]
           /\ purpose' \in [Proc -> Purposes \union {None}]
           /\ creds' \in [Proc -> Credentials]
<1>1. CASE Forget(p)
  BY <1>1, ForgetTyped
<1>2. CASE ~Forget(p)
  BY <1>2, OverlayTyped, AfterSteps DEF Resolved, TypeOK, Steps
<1> QED
  BY <1>1, <1>2

LEMMA HistoryTyped ==
    ASSUME TypeOK, [Next]_vars
    PROVE  torn' \in BOOLEAN /\ crossed' \subseteq Proc
<1>1. CASE UNCHANGED <<crossed, torn>>
  BY <1>1 DEF TypeOK
<1>2. ASSUME NEW p \in Proc, Exchange(p) PROVE torn' = torn /\ crossed' \subseteq Proc
  BY <1>2 DEF TypeOK, Exchange
<1>3. ASSUME NEW p \in Proc, WriteFile(p)
      PROVE  (torn' = torn \/ torn' = (p \in crossed)) /\ crossed' \subseteq crossed
  BY <1>3 DEF WriteFile
<1>4. ASSUME NEW p \in Proc, Delete(p) PROVE torn' = FALSE /\ crossed' = crossed
  BY <1>4 DEF Delete
<1>5. ASSUME NEW p \in Proc, Die(p)
      PROVE  torn' = (torn \/ purpose[p] = "setUser") /\ crossed' \subseteq crossed
  BY <1>5 DEF Die
<1>6. ASSUME NEW p \in Proc, ReadFile(p) \/ Seed(p) \/ Browser(p) \/ Timeout(p) \/ ExchangeFails(p)
                              \/ Signout(p) \/ StartLogin(p) \/ StartLogout(p) \/ StartWhoami(p)
      PROVE  UNCHANGED <<crossed, torn>>
  BY <1>6 DEF ReadFile, Seed, Browser, Callback, StrayCallback, Timeout, ExchangeFails, Signout,
              StartLogin, StartLogout, StartWhoami
<1>7. torn \in BOOLEAN /\ crossed \subseteq Proc
  BY DEF TypeOK
<1>8. CASE UNCHANGED vars
  BY <1>1, <1>8 DEF vars
<1> QED
  <2>1. ASSUME NEW p \in Proc, WriteFile(p) PROVE torn' \in BOOLEAN /\ crossed' \subseteq Proc
    <3>1. crossed' \subseteq Proc
      BY <1>3, <1>7, <2>1
    <3>2. CASE torn' = torn
      BY <1>7, <3>1, <3>2
    <3>3. CASE torn' = (p \in crossed)
      BY <3>1, <3>3
    <3> QED
      BY <1>3, <2>1, <3>2, <3>3
  <2>2. ASSUME NEW p \in Proc, Die(p) PROVE torn' \in BOOLEAN /\ crossed' \subseteq Proc
    <3>1. crossed' \subseteq Proc
      BY <1>5, <1>7, <2>2
    <3>2. (torn \/ purpose[p] = "setUser") \in BOOLEAN
      BY Zenon
    <3> QED
      BY <1>5, <2>2, <3>1, <3>2
  <2>3. ASSUME NEW p \in Proc, Exchange(p) \/ Delete(p) PROVE torn' \in BOOLEAN /\ crossed' \subseteq Proc
    BY <1>2, <1>4, <1>7, <2>3
  <2> QED
    BY <1>1, <1>6, <1>8, <2>1, <2>2, <2>3 DEF Next, Step

\* Every variable keeps its type (the services and CredentialsFile).
LEMMA TypeStep == TypeOK /\ [Next]_vars => TypeOK'
<1> SUFFICES ASSUME TypeOK, [Next]_vars PROVE TypeOK'
  OBVIOUS
<1>1. ASSUME NEW p \in Proc, StartLogin(p) \/ StartLogout(p) \/ StartWhoami(p) PROVE TypeOK'
  <2>1. started' \in Nat
    BY <1>1 DEF TypeOK, StartLogin, StartLogout, StartWhoami, Begin
  <2>2. CASE StartLogin(p)
    BY <2>1, <2>2 DEF TypeOK, StartLogin, Begin, Goto, Steps
  <2>3. CASE StartLogout(p) \/ StartWhoami(p)
    BY <2>1, <2>3 DEF TypeOK, StartLogout, StartWhoami, Begin, Goto, Read, Steps, Purposes
  <2> QED
    BY <1>1, <2>2, <2>3
<1>2. ASSUME NEW p \in Proc, NEW a \in Account, NEW own \in BOOLEAN, Callback(p, a, own)
      PROVE  TypeOK'
  <2>0. /\ file' \in Credentials \union {None} /\ started' \in Nat /\ chosen' \subseteq Account
        /\ torn' \in BOOLEAN /\ crossed' \subseteq Proc
    BY <1>2, HistoryTyped DEF TypeOK, Callback
  <2>1. CASE Forget(p)
    BY <2>0, <2>1, ForgetTyped DEF TypeOK
  <2>2. CASE ~Forget(p)
    <3>1. /\ pc' = [pc EXCEPT ![p] = "exchange"]
          /\ pending' = [pending EXCEPT ![p] = FALSE]
          /\ code' = [code EXCEPT ![p] = a]
          /\ UNCHANGED <<purpose, creds>>
      BY <1>2, <2>2 DEF Callback
    <3>2. pending' \in [Proc -> BOOLEAN]
      BY <3>1 DEF TypeOK
    <3>3. /\ pc' \in [Proc -> Steps \union {"idle"}] /\ code' \in [Proc -> Account \union {None}]
          /\ purpose' \in [Proc -> Purposes \union {None}] /\ creds' \in [Proc -> Credentials]
      BY <3>1 DEF TypeOK, Steps
    <3> QED
      BY <2>0, <3>2, <3>3 DEF TypeOK
  <2> QED
    BY <2>1, <2>2
<1>3. ASSUME NEW p \in Proc, StrayCallback(p) \/ Timeout(p) \/ ExchangeFails(p) \/ Die(p) PROVE TypeOK'
  BY <1>3, ForgetTyped DEF TypeOK, StrayCallback, Timeout, ExchangeFails, Die
<1>4. ASSUME NEW p \in Proc, Exchange(p) \/ Signout(p) PROVE TypeOK'
  BY <1>4 DEF TypeOK, Exchange, Signout, Goto, Read, Steps, Purposes
<1>5. ASSUME NEW p \in Proc, ReadFile(p) PROVE TypeOK'
  <2>1. CASE file = None
    BY <1>5, <2>1 DEF TypeOK, ReadFile, Goto, Steps
  <2>2. CASE file # None
    BY <1>5, <2>2, ResolvedTyped DEF TypeOK, ReadFile
  <2> QED
    BY <2>1, <2>2
<1>6. ASSUME NEW p \in Proc, Seed(p) PROVE TypeOK'
  <2>1. NoCredentials \in Credentials
    BY DEF NoCredentials, Credentials
  <2> QED
    BY <1>6, <2>1, ResolvedTyped DEF TypeOK, Seed
<1>7. ASSUME NEW p \in Proc, WriteFile(p) PROVE TypeOK'
  <2>1. /\ file' \in Credentials /\ pc' \in [Proc -> Steps \union {"idle"}]
        /\ purpose' \in [Proc -> Purposes \union {None}]
        /\ UNCHANGED <<started, chosen, pending, code, creds>>
    BY <1>7, UpdatedTyped DEF TypeOK, WriteFile, Read, Goto, NextPurpose, Steps, Purposes
  <2>2. torn' \in BOOLEAN /\ crossed' \subseteq Proc
    BY HistoryTyped
  <2> QED
    BY <2>1, <2>2 DEF TypeOK
<1>8. ASSUME NEW p \in Proc, Delete(p) PROVE TypeOK'
  BY <1>8, ForgetTyped DEF TypeOK, Delete
<1>9. CASE UNCHANGED vars
  BY <1>9 DEF TypeOK, vars
<1> QED
  BY <1>1, <1>2, <1>3, <1>4, <1>5, <1>6, <1>7, <1>8, <1>9 DEF Next, Browser, Step

LEMMA InitTypeOK == Init => TypeOK
<1> SUFFICES ASSUME Init PROVE TypeOK
  OBVIOUS
<1>1. pending \in [Proc -> BOOLEAN]
  BY DEF Init
<1>2. torn \in BOOLEAN
  BY DEF Init
<1>3. NoCredentials \in Credentials
  BY DEF NoCredentials, Credentials
<1> QED
  BY <1>1, <1>2, <1>3 DEF Init, TypeOK

\* Every variable has its type throughout.
THEOREM TypeCorrect == Spec => []TypeOK
BY InitTypeOK, TypeStep, PTL DEF Spec

\* A process that resolved the credentials has what was read, or nothing.
LEMMA ResolvedKeeps ==
    ASSUME TypeOK, EnvToken = None, NEW p \in Proc, NEW c \in Credentials, Resolved(p, c),
           Provenance, c.token \in Chosen, c.user \in Chosen, chosen' = chosen
    PROVE  \A q \in Proc : code'[q] \in Chosen' /\ creds'[q].token \in Chosen' /\ creds'[q].user \in Chosen'
<1>1. CASE Forget(p)
  BY <1>1 DEF Forget, TypeOK, Provenance, Chosen, NoCredentials
<1>2. CASE ~Forget(p)
  BY <1>2, OverlayNone DEF Resolved, TypeOK, Provenance, Chosen
<1> QED
  BY <1>1, <1>2

LEMMA ProvenanceStep ==
    ASSUME EnvToken = None, TypeOK, Provenance, [Next]_vars
    PROVE  Provenance'
<1>1. ASSUME NEW p \in Proc, StartLogin(p) \/ StartLogout(p) \/ StartWhoami(p) \/ Exchange(p) \/ Signout(p)
      PROVE  Provenance'
  BY <1>1 DEF Provenance, Chosen, StartLogin, StartLogout, StartWhoami, Begin, Exchange, Signout
<1>2. ASSUME NEW p \in Proc, NEW a \in Account, NEW own \in BOOLEAN, Callback(p, a, own)
      PROVE  Provenance'
  <2>1. CASE Forget(p)
    BY <1>2, <2>1 DEF Callback, Forget, TypeOK, Provenance, Chosen, NoCredentials
  <2>2. CASE ~Forget(p)
    BY <1>2, <2>2 DEF Callback, StateMatches, TypeOK, Provenance, Chosen
  <2> QED
    BY <2>1, <2>2
<1>3. ASSUME NEW p \in Proc, Forget(p), file' \in {file, None}, chosen' = chosen
      PROVE  Provenance'
  BY <1>3 DEF Forget, TypeOK, Provenance, Chosen, NoCredentials
<1>4. ASSUME NEW p \in Proc, ReadFile(p) PROVE Provenance'
  <2>1. CASE file = None
    BY <1>4, <2>1 DEF ReadFile, Provenance, Chosen
  <2>2. CASE file # None
    BY <1>4, <2>2, ResolvedKeeps DEF TypeOK, ReadFile, Provenance, Chosen
  <2> QED
    BY <2>1, <2>2
<1>5. ASSUME NEW p \in Proc, Seed(p) PROVE Provenance'
  <2>1. /\ NoCredentials \in Credentials
        /\ NoCredentials.token \in Chosen /\ NoCredentials.user \in Chosen
    BY DEF NoCredentials, Credentials, Chosen
  <2> QED
    BY <1>5, <2>1, ResolvedKeeps DEF Seed, Provenance, Chosen
<1>6. ASSUME NEW p \in Proc, WriteFile(p) PROVE Provenance'
  BY <1>6 DEF WriteFile, Read, Goto, Updated, Credentials, TypeOK, Provenance, Chosen
<1>7. CASE UNCHANGED vars
  BY <1>7 DEF Provenance, Chosen, vars
<1> QED
  <2>1. ASSUME NEW p \in Proc, StrayCallback(p) \/ Timeout(p) \/ ExchangeFails(p) \/ Die(p) \/ Delete(p)
        PROVE  Provenance'
    BY <1>3, <2>1 DEF StrayCallback, Timeout, ExchangeFails, Die, Delete
  <2> QED
    BY <1>1, <1>2, <1>4, <1>5, <1>6, <1>7, <2>1 DEF Next, Browser, Step

\* Without AIPKG_TOKEN, the accounts that get on file are ones that answered a
\* login with that login's own state, however many commands run at once and die
\* (authService.login, startLoopback, CredentialsFile).
THEOREM ChosenOnly == EnvToken = None => (Spec => []OnlyChosenAccounts)
<1> SUFFICES ASSUME EnvToken = None PROVE Spec => []OnlyChosenAccounts
  OBVIOUS
<1>1. Init => Provenance
  BY DEF Init, Provenance, Chosen, NoCredentials
<1>2. TypeOK /\ Provenance /\ [Next]_vars => Provenance'
  BY ProvenanceStep
<1>3. Provenance => OnlyChosenAccounts
  BY DEF Provenance, Chosen, OnlyChosenAccounts
<1> QED
  BY <1>1, <1>2, <1>3, TypeCorrect, PTL DEF Spec

\* A process that stores nothing leaves what the others rely on, whatever it
\* deletes or seeds; a login that ends half way is recorded as torn.
LEMMA QuietS ==
    ASSUME SInv, TypeOK', NEW p \in Proc, ~Storing(p)', Purposeful',
           \A q \in Proc : q # p =>
               pc'[q] = pc[q] /\ purpose'[q] = purpose[q] /\ code'[q] = code[q] /\ creds'[q] = creds[q],
           file' \in {file, None, NoCredentials},
           crossed \ {p} \subseteq crossed', crossed' \subseteq crossed,
           Midway(p) => torn', torn' \/ ~torn \/ file' = None
    PROVE  SInv'
<1>1. \A q \in Proc : Storing(q)' => q # p /\ Storing(q)
  BY DEF Storing
<1>2. \A q \in Proc : Midway(q)' => q # p /\ Midway(q)
  BY DEF Storing, Midway
<1>3. Apart'
  BY <1>1 DEF SInv, Apart
<1>4. OwnToken'
  <2> SUFFICES ASSUME NEW q \in Proc, Midway(q)', q \notin crossed'
               PROVE  /\ file' # None => file'.token \in {None, code'[q]}
                      /\ pc'[q] = "write" => creds'[q].token \in {None, code'[q]}
    BY DEF OwnToken
  <2>1. q # p /\ Midway(q) /\ q \notin crossed
    BY <1>2
  <2>2. /\ file # None => file.token \in {None, code[q]}
        /\ pc[q] = "write" => creds[q].token \in {None, code[q]}
    BY <2>1 DEF SInv, OwnToken
  <2>3. NoCredentials.token = None
    BY DEF NoCredentials
  <2> QED
    BY <2>1, <2>2, <2>3
<1>5. OneSessionOnFile'
  <2> SUFFICES ASSUME \A q \in Proc : ~Midway(q)', ~torn', file' = file PROVE WholeSession'
    BY DEF OneSessionOnFile, WholeSession, NoCredentials, Midway
  <2>1. ~Midway(p) /\ (~torn \/ file' = None)
    OBVIOUS
  <2>2. \A q \in Proc : ~Midway(q)
    BY <2>1 DEF Midway
  <2> QED
    BY <2>1, <2>2 DEF SInv, OneSessionOnFile, WholeSession, Midway
<1> QED
  BY <1>3, <1>4, <1>5 DEF SInv

\* A process that ends has no purpose left.
LEMMA ForgetS ==
    ASSUME SInv, TypeOK', NEW p \in Proc, Forget(p),
           file' \in {file, None, NoCredentials},
           crossed \ {p} \subseteq crossed', crossed' \subseteq crossed,
           Midway(p) => torn', torn' \/ ~torn \/ file' = None
    PROVE  SInv'
<1>1. /\ pc'[p] = "idle" /\ purpose'[p] = None
      /\ \A q \in Proc : q # p =>
             pc'[q] = pc[q] /\ purpose'[q] = purpose[q] /\ code'[q] = code[q] /\ creds'[q] = creds[q]
  BY DEF Forget, SInv, TypeOK
<1>2. ~Storing(p)'
  BY <1>1, NoneIsNothing DEF Purposes, Storing
<1>3. Purposeful'
  BY <1>1, <1>2 DEF SInv, Purposeful, Storing
<1> QED
  BY <1>1, <1>2, <1>3, QuietS

\* The credentials are resolved: what a login reads half way is its own token, or
\* none.
LEMMA ResolvedS ==
    ASSUME SInv, EnvToken = None, NEW p \in Proc, NEW c \in Credentials, Resolved(p, c), TypeOK',
           pc[p] \in {"read", "seed"}, crossed' = crossed, torn' = torn, file' = c,
           c \in {file, NoCredentials}
    PROVE  SInv'
<1>1. CASE Forget(p)
  <2>1. ~Midway(p)
    <3>1. purpose[p] # "setUser" \/ pc'[p] = "write"
      BY AfterSteps DEF Resolved, SInv, TypeOK
    <3>2. pc'[p] = "idle"
      BY <1>1 DEF Forget, SInv, TypeOK
    <3> QED
      BY <3>1, <3>2 DEF Midway
  <2> QED
    BY <1>1, <2>1, ForgetS DEF SInv, TypeOK
<1>2. CASE ~Forget(p)
  <2>1. /\ pc' = [pc EXCEPT ![p] = After(purpose[p], c)]
        /\ creds' = [creds EXCEPT ![p] = c]
        /\ code' = code /\ purpose' = purpose
        /\ After(purpose[p], c) # "idle"
    BY <1>2, OverlayNone DEF Resolved
  <2>2. /\ pc'[p] \in {"write", "signout"} /\ pc'[p] = After(purpose[p], c) /\ creds'[p] = c
        /\ \A q \in Proc : q # p => pc'[q] = pc[q] /\ creds'[q] = creds[q]
    BY <2>1, AfterSteps DEF SInv, TypeOK
  <2>3. Purposeful'
    BY <2>1, <2>2, AfterSteps DEF SInv, Purposeful, Storing
  <2>4. CASE ~Storing(p)
    <3>1. ~Storing(p)' /\ ~Midway(p)
      BY <2>1, <2>4 DEF Storing, Midway
    <3> QED
      BY <2>1, <2>2, <2>3, <3>1, QuietS DEF SInv, TypeOK
  <2>5. CASE Storing(p)
    <3>1. Apart'
      BY <2>1 DEF SInv, Apart, Storing
    <3>2. c # None /\ NoCredentials.token = None
      BY NoneIsNothing DEF NoCredentials
    <3>3. OwnToken'
      <4> SUFFICES ASSUME NEW q \in Proc, Midway(q)', q \notin crossed'
                   PROVE  /\ file' # None => file'.token \in {None, code'[q]}
                          /\ pc'[q] = "write" => creds'[q].token \in {None, code'[q]}
        BY DEF OwnToken
      <4>1. Midway(q) /\ Storing(q) /\ q \notin crossed
        BY <2>1 DEF Midway, Storing
      <4>2. q = p
        BY <2>5, <4>1 DEF SInv, Apart
      <4>3. c.token \in {None, code[q]}
        BY <3>2, <4>1 DEF SInv, OwnToken
      <4> QED
        BY <2>1, <2>2, <4>2, <4>3
    <3>4. OneSessionOnFile'
      <4> SUFFICES ASSUME \A q \in Proc : ~Midway(q)', ~torn', file' = file PROVE WholeSession'
        BY DEF OneSessionOnFile, WholeSession, NoCredentials, Midway
      <4> QED
        BY <2>1 DEF SInv, OneSessionOnFile, WholeSession, Midway
    <3> QED
      BY <2>3, <3>1, <3>3, <3>4 DEF SInv
  <2> QED
    BY <2>4, <2>5
<1> QED
  BY <1>1, <1>2

LEMMA NextS ==
    ASSUME EnvToken = None, SInv, [Next]_vars
    PROVE  SInv'
<1>0. TypeOK'
  BY TypeStep DEF SInv
<1>1. ASSUME NEW p \in Proc, StartLogin(p) \/ StartLogout(p) \/ StartWhoami(p) PROVE SInv'
  <2>1. UNCHANGED <<file, crossed, torn, code, creds>> /\ pc[p] = "idle"
    BY <1>1 DEF StartLogin, StartLogout, StartWhoami, Begin, Read, Goto
  <2>2. /\ \A q \in Proc : q # p => pc'[q] = pc[q] /\ purpose'[q] = purpose[q]
        /\ pc'[p] \in {"waiting", "read"}
        /\ purpose'[p] \in {purpose[p], "logout", "whoami"}
    BY <1>1 DEF StartLogin, StartLogout, StartWhoami, Begin, Read, Goto, SInv, TypeOK
  <2>3. ~Storing(p) /\ ~Storing(p)'
    BY <2>1, <2>2 DEF SInv, Purposeful, Storing
  <2>4. Purposeful' /\ ~Midway(p)
    BY <2>2, <2>3 DEF SInv, Purposeful, Storing, Midway
  <2> QED
    BY <1>0, <2>1, <2>2, <2>3, <2>4, QuietS DEF SInv, TypeOK
<1>2. ASSUME NEW p \in Proc, NEW a \in Account, NEW own \in BOOLEAN, Callback(p, a, own) PROVE SInv'
  <2>1. UNCHANGED <<file, crossed, torn>> /\ pc[p] = "waiting" /\ ~Midway(p)
    BY <1>2 DEF Callback, SInv, Purposeful, Storing, Midway
  <2>2. CASE Forget(p)
    BY <1>0, <2>1, <2>2, ForgetS DEF SInv, TypeOK
  <2>3. CASE ~Forget(p)
    <3>1. /\ pc'[p] = "exchange" /\ purpose' = purpose
          /\ \A q \in Proc : q # p => pc'[q] = pc[q] /\ code'[q] = code[q] /\ creds'[q] = creds[q]
      BY <1>2, <2>3 DEF Callback, SInv, TypeOK
    <3>2. ~Storing(p)' /\ Purposeful'
      BY <2>1, <3>1 DEF SInv, Purposeful, Storing
    <3> QED
      BY <1>0, <2>1, <3>1, <3>2, QuietS DEF SInv, TypeOK
  <2> QED
    BY <2>2, <2>3
<1>3. ASSUME NEW p \in Proc, StrayCallback(p) \/ Timeout(p) \/ ExchangeFails(p) PROVE SInv'
  <2>1. Forget(p) /\ UNCHANGED <<file, crossed, torn>> /\ ~Midway(p)
    BY <1>3 DEF StrayCallback, Timeout, ExchangeFails, SInv, Purposeful, Storing, Midway
  <2> QED
    BY <1>0, <2>1, ForgetS DEF SInv, TypeOK
<1>4. ASSUME NEW p \in Proc, Die(p) PROVE SInv'
  <2>1. /\ Forget(p) /\ file' = file /\ crossed' = crossed \ {p}
        /\ Midway(p) => torn'
        /\ torn' \/ ~torn
    BY <1>4 DEF Die, Midway
  <2> QED
    BY <1>0, <2>1, ForgetS
<1>5. ASSUME NEW p \in Proc, Exchange(p) PROVE SInv'
  <2>1. /\ UNCHANGED <<file, torn, code, creds>> /\ pc[p] = "exchange" /\ pc'[p] = "read"
        /\ purpose'[p] = "setToken"
        /\ \A q \in Proc : q # p => pc'[q] = pc[q] /\ purpose'[q] = purpose[q]
    BY <1>5 DEF Exchange, Read, Goto, SInv, TypeOK
  <2>2. /\ crossed \subseteq crossed'
        /\ \A q \in Proc : Storing(q) => q \in crossed' /\ p \in crossed'
    BY <1>5 DEF Exchange
  <2>3. ~Storing(p) /\ Storing(p)' /\ \A q \in Proc : Midway(q)' <=> Midway(q)
    BY <2>1 DEF SInv, Purposeful, Storing, Midway
  <2>4. Purposeful'
    BY <2>1, <2>3 DEF SInv, Purposeful, Storing
  <2>5. Apart'
    <3> SUFFICES ASSUME NEW q \in Proc, NEW r \in Proc, Storing(q)', Storing(r)', q \notin crossed', q # r
                 PROVE  FALSE
      BY DEF Apart
    <3>1. ~Storing(q)
      BY <2>2
    <3>2. q = p
      BY <2>1, <3>1 DEF Storing
    <3>3. Storing(r)
      BY <2>1, <3>2 DEF Storing
    <3> QED
      BY <2>2, <3>2, <3>3
  <2>6. OwnToken'
    BY <2>1, <2>2, <2>3 DEF SInv, OwnToken
  <2>7. OneSessionOnFile'
    BY <2>1, <2>3 DEF SInv, OneSessionOnFile, WholeSession, Midway
  <2> QED
    BY <1>0, <2>4, <2>5, <2>6, <2>7 DEF SInv
<1>6. ASSUME NEW p \in Proc, Signout(p) PROVE SInv'
  <2>1. /\ UNCHANGED <<file, crossed, torn, code, creds, purpose>> /\ pc[p] = "signout" /\ pc'[p] = "delete"
        /\ \A q \in Proc : q # p => pc'[q] = pc[q]
    BY <1>6 DEF Signout, Goto, SInv, TypeOK
  <2>2. ~Storing(p) /\ ~Storing(p)' /\ ~Midway(p) /\ Purposeful'
    BY <2>1 DEF SInv, Purposeful, Storing, Midway
  <2> QED
    BY <1>0, <2>1, <2>2, QuietS DEF SInv, TypeOK
<1>7. ASSUME NEW p \in Proc, ReadFile(p) PROVE SInv'
  <2>1. CASE file = None
    <3>1. /\ UNCHANGED <<file, crossed, torn, code, creds, purpose>> /\ pc[p] = "read" /\ pc'[p] = "seed"
          /\ \A q \in Proc : q # p => pc'[q] = pc[q]
      BY <1>7, <2>1 DEF ReadFile, Goto, SInv, TypeOK
    <3>2. Purposeful' /\ Apart'
      BY <3>1 DEF SInv, Purposeful, Apart, Storing
    <3>3. OwnToken'
      BY <3>1 DEF SInv, OwnToken, Midway
    <3>4. OneSessionOnFile'
      BY <3>1 DEF SInv, OneSessionOnFile, WholeSession
    <3> QED
      BY <1>0, <3>2, <3>3, <3>4 DEF SInv
  <2>2. CASE file # None
    <3>1. file \in Credentials
      BY <2>2 DEF SInv, TypeOK
    <3> QED
      BY <1>0, <1>7, <2>2, <3>1, ResolvedS DEF ReadFile
  <2> QED
    BY <2>1, <2>2
<1>8. ASSUME NEW p \in Proc, Seed(p) PROVE SInv'
  <2>1. NoCredentials \in Credentials
    BY DEF NoCredentials, Credentials
  <2> QED
    BY <1>0, <1>8, <2>1, ResolvedS DEF Seed
<1>9. ASSUME NEW p \in Proc, WriteFile(p) PROVE SInv'
  <2>1. /\ UNCHANGED <<code, creds>> /\ pc[p] = "write" /\ pc'[p] = "read"
        /\ purpose'[p] = NextPurpose(purpose[p])
        /\ \A q \in Proc : q # p => pc'[q] = pc[q] /\ purpose'[q] = purpose[q]
        /\ file' = Updated(creds[p], purpose[p], code[p])
    BY <1>9 DEF WriteFile, Read, Goto, SInv, TypeOK
  <2>2. Storing(p)
    BY <2>1 DEF SInv, Purposeful
  <2>3. Purposeful'
    BY <2>1 DEF SInv, Purposeful, Storing
  <2>4. creds[p] \in Credentials /\ code[p] \in Account \union {None}
    BY DEF SInv, TypeOK
  <2>5. ASSUME NEW q \in Proc, q # p PROVE ~(Storing(q) /\ q \notin crossed)
    BY <2>2, <2>5 DEF SInv, Apart
  <2>6. CASE purpose[p] = "setToken"
    <3>1. UNCHANGED <<crossed, torn>> /\ purpose'[p] = "setUser"
      BY <1>9, <2>1, <2>6 DEF WriteFile, NextPurpose
    <3>2. file'.token = code[p]
      BY <2>1, <2>4, <2>6 DEF Updated, Credentials
    <3>3. Apart'
      BY <2>1, <2>2, <3>1 DEF SInv, Apart, Storing
    <3>4. OwnToken'
      <4> SUFFICES ASSUME NEW q \in Proc, Midway(q)', q \notin crossed'
                   PROVE  /\ file' # None => file'.token \in {None, code'[q]}
                          /\ pc'[q] = "write" => creds'[q].token \in {None, code'[q]}
        BY DEF OwnToken
      <4>1. q = p
        BY <2>1, <2>5, <3>1 DEF Midway, Storing
      <4> QED
        BY <2>1, <3>2, <4>1
    <3>5. OneSessionOnFile'
      BY <3>1 DEF OneSessionOnFile
    <3> QED
      BY <1>0, <2>3, <3>3, <3>4, <3>5 DEF SInv
  <2>7. CASE purpose[p] = "setUser"
    <3>1. torn' = (p \in crossed) /\ crossed' = crossed \ {p} /\ purpose'[p] = "report"
      BY <1>9, <2>1, <2>7 DEF WriteFile, NextPurpose
    <3>2. ~Storing(p)' /\ \A q \in Proc : Storing(q)' => Storing(q) /\ q # p
      BY <2>1, <3>1 DEF Storing
    <3>3. Apart'
      BY <3>1, <3>2 DEF SInv, Apart
    <3>4. OwnToken'
      <4>1. \A q \in Proc : Midway(q)' => q \in crossed'
        BY <2>5, <3>1, <3>2 DEF Midway, Storing
      <4> QED
        BY <4>1 DEF OwnToken
    <3>5. ASSUME p \notin crossed PROVE WholeSession'
      <4>1. creds[p].token \in {None, code[p]}
        BY <2>1, <2>7, <3>5 DEF SInv, OwnToken, Midway
      <4>2. file'.user = code[p] /\ file'.token = creds[p].token
        BY <2>1, <2>4, <2>7 DEF Updated, Credentials
      <4> QED
        BY <4>1, <4>2 DEF WholeSession
    <3>6. OneSessionOnFile'
      BY <3>1, <3>5 DEF OneSessionOnFile
    <3> QED
      BY <1>0, <2>3, <3>3, <3>4, <3>6 DEF SInv
  <2> QED
    BY <2>2, <2>6, <2>7 DEF Storing
<1>10. ASSUME NEW p \in Proc, Delete(p) PROVE SInv'
  <2>1. Forget(p) /\ file' = None /\ crossed' = crossed /\ ~Midway(p)
    BY <1>10 DEF Delete, SInv, Purposeful, Storing, Midway
  <2> QED
    BY <1>0, <2>1, ForgetS DEF SInv, TypeOK
<1>11. CASE UNCHANGED vars
  <2>1. UNCHANGED <<file, crossed, torn, pc, code, creds, purpose>>
    BY <1>11 DEF vars
  <2>2. Purposeful' /\ Apart'
    BY <2>1 DEF SInv, Purposeful, Apart, Storing
  <2>3. OwnToken'
    BY <2>1 DEF SInv, OwnToken, Midway
  <2>4. OneSessionOnFile'
    BY <2>1 DEF SInv, OneSessionOnFile, WholeSession
  <2> QED
    BY <1>0, <2>2, <2>3, <2>4 DEF SInv
<1> QED
  BY <1>1, <1>2, <1>3, <1>4, <1>5, <1>6, <1>7, <1>8, <1>9, <1>10, <1>11 DEF Next, Browser, Step

\* Without AIPKG_TOKEN, and wherever commands are killed or cross each other, a
\* token and a user that do not belong together stay on file only until the next
\* login that stores by itself, or the next logout (CredentialsFile.setToken,
\* setUser; authService.login).
THEOREM OneSession == EnvToken = None => (Spec => []OneSessionOnFile)
<1> SUFFICES ASSUME EnvToken = None PROVE Spec => []OneSessionOnFile
  OBVIOUS
<1>1. Init => SInv
  <2> SUFFICES ASSUME Init PROVE SInv
    OBVIOUS
  <2>1. \A p \in Proc : ~Storing(p) /\ ~Midway(p) /\ pc[p] = "idle"
    BY NoneIsNothing DEF Init, Storing, Midway, Purposes
  <2>2. Purposeful /\ Apart /\ OwnToken
    BY <2>1 DEF Purposeful, Apart, OwnToken
  <2>3. OneSessionOnFile
    BY DEF Init, OneSessionOnFile, WholeSession, NoCredentials
  <2> QED
    BY <2>2, <2>3, InitTypeOK DEF SInv
<1>2. SInv /\ [Next]_vars => SInv'
  BY NextS
<1>3. SInv => OneSessionOnFile
  BY DEF SInv
<1> QED
  BY <1>1, <1>2, <1>3, PTL DEF Spec
=============================================================================
