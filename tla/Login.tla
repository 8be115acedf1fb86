-------------------------------- MODULE Login --------------------------------
(***************************************************************************)
(* `aipkg login`, `logout` and `whoami` (cli/src/services/auth.ts) and the *)
(* credentials file they share (cli/src/files/credentials.ts).             *)
(*                                                                         *)
(* A login waits on a loopback server for the browser it opened to call    *)
(* back with a code and the login's own state, or for the timeout; it then *)
(* exchanges the code for a session and stores the session's token and the *)
(* user in two read-modify-write rounds.  A code, and the token it is      *)
(* exchanged for, stand for the account they belong to.                    *)
(***************************************************************************)
EXTENDS Naturals

CONSTANTS
    Proc,         \* CLI processes
    Account,      \* accounts a browser may be signed in as
    EnvToken,     \* the account AIPKG_TOKEN belongs to, or None when not set
    MaxCommands,  \* bound: commands started
    None          \* an absent value

Steps == {"waiting", "exchange", "read", "seed", "write", "signout", "delete"}

\* What a command does with the credentials it reads.
Purposes == {"setToken", "setUser", "report", "logout", "whoami"}

Credentials == [token : Account \union {None}, user : Account \union {None}]
NoCredentials == [token |-> None, user |-> None]

ASSUME LoginAssumption ==
    /\ None \notin Account \union Purposes \union Credentials
    /\ EnvToken \in Account \union {None}
    /\ MaxCommands \in Nat

VARIABLES
    file,      \* credentials.json, None while there is none
    started,   \* commands started so far
    chosen,    \* history: accounts that answered a login with its own state
    crossed,   \* history: logins that store while another login does, or did
    torn,      \* history: the last login to store a token was cut short before its
               \* user, or crossed another one, and nobody logged out since
    pc,        \* where each process is
    pending,   \* the callback of a login's loopback server is still open
    code,      \* the code a login got, and then its session
    purpose,   \* what the credentials are read for
    creds      \* the credentials read

history == <<chosen, crossed, torn>>
memory == <<pending, code, purpose, creds>>
vars == <<file, started, history, pc, memory>>

Init ==
    /\ file \in {None, NoCredentials}
    /\ started = 0
    /\ chosen = {}
    /\ crossed = {}
    /\ torn = FALSE
    /\ pc = [p \in Proc |-> "idle"]
    /\ pending = [p \in Proc |-> FALSE]
    /\ code = [p \in Proc |-> None]
    /\ purpose = [p \in Proc |-> None]
    /\ creds = [p \in Proc |-> NoCredentials]

Goto(p, from, to) == pc[p] = from /\ pc' = [pc EXCEPT ![p] = to]

\* The process ends: its server is closed and its memory gone.
Forget(p) ==
    /\ pc' = [pc EXCEPT ![p] = "idle"]
    /\ pending' = [pending EXCEPT ![p] = FALSE]
    /\ code' = [code EXCEPT ![p] = None]
    /\ purpose' = [purpose EXCEPT ![p] = None]
    /\ creds' = [creds EXCEPT ![p] = NoCredentials]

Begin(p) ==
    /\ started < MaxCommands
    /\ started' = started + 1

(***************************************************************************)
(* Waiting for the browser.                                                *)
(***************************************************************************)

\* The server listens, the browser is opened and the callback awaited.
StartLogin(p) ==
    /\ Begin(p)
    /\ Goto(p, "idle", "waiting")
    /\ pending' = [pending EXCEPT ![p] = TRUE]
    /\ UNCHANGED <<file, history, code, purpose, creds>>

\* Mutant: any state will do.
StateMatchesAny(own) == TRUE

\* The state a callback brings is the one this login made up.
StateMatches(own) == own

\* A callback with code and state settles the wait, and the login goes on if
\* the state is its own, and fails otherwise.
Callback(p, account, own) ==
    /\ pc[p] = "waiting"
    /\ pending[p]
    /\ chosen' = IF own THEN chosen \union {account} ELSE chosen
    /\ \/ /\ StateMatches(own)
          /\ pc' = [pc EXCEPT ![p] = "exchange"]
          /\ pending' = [pending EXCEPT ![p] = FALSE]
          /\ code' = [code EXCEPT ![p] = account]
          /\ UNCHANGED <<purpose, creds>>
       \/ ~StateMatches(own) /\ Forget(p)
    /\ UNCHANGED <<file, started, crossed, torn>>

\* Mutant: the wait is closed before it is rejected.
StrayCallbackDropsPending(p) ==
    /\ pc[p] = "waiting"
    /\ pending[p]
    /\ pending' = [pending EXCEPT ![p] = FALSE]
    /\ UNCHANGED <<file, started, history, pc, code, purpose, creds>>

\* A callback without code or state makes the login fail.
StrayCallback(p) ==
    /\ pc[p] = "waiting"
    /\ pending[p]
    /\ Forget(p)
    /\ UNCHANGED <<file, started, history>>

\* The timer runs out while the callback is open.
Timeout(p) ==
    /\ pc[p] = "waiting"
    /\ pending[p]
    /\ Forget(p)
    /\ UNCHANGED <<file, started, history>>

(***************************************************************************)
(* The exchange, and the credentials file.                                 *)
(***************************************************************************)

Read(p, why, from) ==
    /\ Goto(p, from, "read")
    /\ purpose' = [purpose EXCEPT ![p] = why]

\* A login stores its session: its token, then its user.
Storing(p) == purpose[p] \in {"setToken", "setUser"}

\* The session is there: its token is stored first.
Exchange(p) ==
    /\ Read(p, "setToken", "exchange")
    /\ LET others == {q \in Proc : Storing(q)} IN
       crossed' = crossed \union others \union {q \in {p} : others # {}}
    /\ UNCHANGED <<file, started, chosen, torn, pending, code, creds>>

ExchangeFails(p) ==
    /\ pc[p] = "exchange"
    /\ Forget(p)
    /\ UNCHANGED <<file, started, history>>

StartLogout(p) ==
    /\ Begin(p)
    /\ Read(p, "logout", "idle")
    /\ UNCHANGED <<file, history, pending, code, creds>>

StartWhoami(p) ==
    /\ Begin(p)
    /\ Read(p, "whoami", "idle")
    /\ UNCHANGED <<file, history, pending, code, creds>>

\* AIPKG_TOKEN, when set, takes the place of the token read.
Overlay(c) == IF EnvToken = None THEN c ELSE [c EXCEPT !.token = EnvToken]

\* What reading the credentials leads to.
After(why, c) ==
    CASE why \in {"setToken", "setUser"}          -> "write"
      [] why = "logout" /\ Overlay(c).token # None -> "signout"
      [] OTHER                                     -> "idle"

\* The credentials c were read: a command that only reports them ends.
Resolved(p, c) ==
    \/ After(purpose[p], c) = "idle" /\ Forget(p)
    \/ /\ After(purpose[p], c) # "idle"
       /\ pc' = [pc EXCEPT ![p] = After(purpose[p], c)]
       /\ creds' = [creds EXCEPT ![p] = Overlay(c)]
       /\ UNCHANGED <<pending, code, purpose>>

ReadFile(p) ==
    /\ pc[p] = "read"
    /\ \/ /\ file = None
          /\ Goto(p, "read", "seed")
          /\ UNCHANGED memory
       \/ file # None /\ Resolved(p, file)
    /\ UNCHANGED <<file, started, history>>

\* A file that was not there is written, empty, before anything else.
Seed(p) ==
    /\ pc[p] = "seed"
    /\ file' = NoCredentials
    /\ Resolved(p, NoCredentials)
    /\ UNCHANGED <<started, history>>

\* Mutant: a user that is already known is kept.
UpdatedKeepsUser(c, why, account) ==
    IF why = "setToken" THEN [c EXCEPT !.token = account]
    ELSE IF c.user # None THEN c ELSE [c EXCEPT !.user = account]

\* Mutant: what is stored replaces the credentials.
UpdatedReplaces(c, why, account) ==
    IF why = "setToken" THEN [token |-> account] ELSE [user |-> account]

\* The token of the session, or its user, in the credentials read.
Updated(c, why, account) ==
    IF why = "setToken" THEN [c EXCEPT !.token = account] ELSE [c EXCEPT !.user = account]

\* The token first, then the user, then what is reported is read back.
NextPurpose(why) == IF why = "setToken" THEN "setUser" ELSE "report"

WriteFile(p) ==
    /\ Read(p, NextPurpose(purpose[p]), "write")
    /\ file' = Updated(creds[p], purpose[p], code[p])
    /\ IF purpose[p] = "setUser" THEN /\ torn' = (p \in crossed)
                                      /\ crossed' = crossed \ {p}
                                 ELSE UNCHANGED <<crossed, torn>>
    /\ UNCHANGED <<started, chosen, pending, code, creds>>

\* The server is told, whatever it answers, and the file deleted.
Signout(p) ==
    /\ Goto(p, "signout", "delete")
    /\ UNCHANGED <<file, started, history, memory>>

Delete(p) ==
    /\ pc[p] = "delete"
    /\ file' = None
    /\ torn' = FALSE
    /\ Forget(p)
    /\ UNCHANGED <<started, chosen, crossed>>

\* The process is killed, or a file operation fails, wherever it is.
Die(p) ==
    /\ pc[p] # "idle"
    /\ torn' = (torn \/ purpose[p] = "setUser")
    /\ crossed' = crossed \ {p}
    /\ Forget(p)
    /\ UNCHANGED <<file, started, chosen>>

Browser(p) ==
    \/ \E account \in Account, own \in BOOLEAN : Callback(p, account, own)
    \/ StrayCallback(p)

Step(p) ==
    \/ Timeout(p)
    \/ Exchange(p) \/ ExchangeFails(p)
    \/ ReadFile(p) \/ Seed(p) \/ WriteFile(p)
    \/ Signout(p) \/ Delete(p)

Next == \E p \in Proc :
    \/ StartLogin(p) \/ StartLogout(p) \/ StartWhoami(p)
    \/ Browser(p) \/ Step(p) \/ Die(p)

Spec == Init /\ [][Next]_vars

\* Timers run out, requests end and files are read and written; nothing makes a
\* browser call back.
FairSpec == Spec /\ \A p \in Proc : WF_vars(Step(p))

(***************************************************************************)
(* Properties.                                                             *)
(***************************************************************************)

\* Every variable has the shape the code gives it.
TypeOK ==
    /\ file \in Credentials \union {None}
    /\ started \in Nat
    /\ chosen \subseteq Account
    /\ crossed \subseteq Proc
    /\ torn \in BOOLEAN
    /\ pc \in [Proc -> Steps \union {"idle"}]
    /\ pending \in [Proc -> BOOLEAN]
    /\ code \in [Proc -> Account \union {None}]
    /\ purpose \in [Proc -> Purposes \union {None}]
    /\ creds \in [Proc -> Credentials]

\* The token and the user on file belong together, or nobody is signed in.  The
\* code does not promise this: the two are stored in two rounds (auth.ts:58-59),
\* and a kill between them, or another login's rounds in between, leaves the
\* token of one account with the user of another (LoginHalves.cfg).
WholeSession == file # None => file.token = None \/ file.user = file.token

\* Such a mix does not outlive the next login that stores by itself, or the next
\* logout, whoever the accounts are and whatever waiting logins, logouts and
\* whoamis read, seed and delete in between: when no login is between its token
\* and its user, the session on file is whole unless the last login to store was
\* killed half way or crossed another one.
OneSessionOnFile ==
    (\A p \in Proc : purpose[p] # "setUser") /\ ~torn => WholeSession

\* Whatever reaches the loopback server, the accounts that get on file are ones
\* that answered a login with that login's own state.
OnlyChosenAccounts ==
    file # None => {file.token, file.user} \subseteq chosen \union {None}

\* A login, and every other command, comes to an end, if only by its timeout.
EveryCommandEnds == \A p \in Proc : pc[p] # "idle" ~> pc[p] = "idle"

\* After "Logged in as ..." the token on file is the one of the account that was
\* named.
LoggedInAsNamed ==
    \A p \in Proc :
        purpose[p] = "report" /\ pc[p] = "read" /\ file # None => file.token = file.user

=============================================================================
