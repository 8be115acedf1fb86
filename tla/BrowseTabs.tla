----------------------------- MODULE BrowseTabs -----------------------------
(***************************************************************************)
(* The tabs of the browse daemon: BrowserManager of browser-manager.ts,    *)
(* driven by the commands that handleCommandInternalImpl of server.ts runs *)
(* for several clients at once (gstack/skills/browse/src).                 *)
(*                                                                         *)
(* One action per stretch of a command between two awaits.  The browser is *)
(* outside: pages open and close there, and tell the daemon so.  A tab id  *)
(* is never used twice, so that it stands for its page too.                *)
(***************************************************************************)
EXTENDS Naturals, FiniteSetsExt

CONSTANTS
    Req,          \* commands under way
    Agent,        \* clients with a token of their own, bound to their own tabs
    Root, NoOwner,
    Requests,     \* what is asked: functions from Req to [cmd, who, pin, arg]
    Scales,       \* what a device scale may be
    MaxTabs, MaxContexts,   \* bounds: tab ids and browser contexts ever made
    MaxFailures     \* bound: failing calls of the browser, pages that close themselves

Id == 1..MaxTabs
Context == 1..MaxContexts
Client == Agent \union {Root}
FirstTabs == {1, 2}       \* the user's, and the first agent's

ASSUME TabAssumption ==
    /\ Requests \subseteq
         [Req -> [cmd : {"newtab", "close", "tab", "page", "scale", "handoff", "load"},
                  who : Client, pin : 0..MaxTabs, arg : Nat]]
    /\ \A f \in Requests, r \in Req : f[r].cmd = "scale" => f[r].arg \in Scales
    /\ Scales \subseteq Nat \ {0} /\ 1 \in Scales
    /\ MaxTabs \in Nat /\ MaxTabs >= 2 /\ MaxContexts \in Nat \ {0} /\ MaxFailures \in Nat
    /\ Agent # {} /\ Root \notin Agent /\ NoOwner \notin Agent

VARIABLES
    ask,         \* the commands: name, client, tab they are pinned to, argument
    req,         \* where each is, and its local variables
    listed,      \* ids in the maps of pages and sessions
    owner,       \* tabOwnership
    active,      \* activeTabId; 0 after the last tab closed
    nextId,
    context, mode, scale,   \* the context in use, its mode, the scale it should have
    alive, at, contexts,    \* the browser: open pages, their contexts; each context's scale, 0 when closed
    failures,
    by,          \* history: whose page it is
    orphaned     \* history: tabs opened before another command cleared the owners

tabs == <<listed, owner, active, nextId>>
browser == <<alive, at, contexts>>
tabsVars == <<ask, req, tabs, context, mode, scale, browser, failures, by, orphaned>>

TabsInit ==
    /\ ask \in Requests
    /\ req = [r \in Req |-> [pc |-> "start", saved |-> 0, tab |-> 0, ctx |-> 0,
                             left |-> {}, mark |-> 0, prev |-> 0, round |-> 0]]
    /\ listed = FirstTabs /\ alive = FirstTabs
    /\ by = [i \in Id |-> IF i = 2 THEN CHOOSE a \in Agent : TRUE ELSE Root]
    /\ owner = [i \in 0..MaxTabs |-> IF i = 2 THEN by[2] ELSE NoOwner]
    /\ active = 1 /\ nextId = 3
    /\ at = [i \in Id |-> IF i \in FirstTabs THEN 1 ELSE 0]
    /\ contexts = [c \in Context |-> IF c = 1 THEN 1 ELSE 0]
    /\ context = 1 /\ mode = "launched" /\ scale = 1
    /\ failures = 0 /\ orphaned = {}

Failure == failures < MaxFailures /\ failures' = failures + 1
Proceed(r, l) == req' = [req EXCEPT ![r].pc = l]
At(r, l) == req[r].pc = l

\* The page 'close' handler: the tab leaves the maps; the last one left is active.
Closed(gone) ==
    /\ alive' = alive \ gone
    /\ listed' = listed \ gone
    /\ active' = IF active \notin gone \intersect listed THEN active
                 ELSE IF listed \ gone = {} THEN 0 ELSE Max(listed \ gone)

\* Mutant: the id is handed out again.
RegisterAgain(c, client) ==
    /\ nextId' = nextId
    /\ listed' = listed \union {nextId}
    /\ alive' = alive \union {nextId}
    /\ at' = [at EXCEPT ![nextId] = c]
    /\ by' = [by EXCEPT ![nextId] = client]

\* A page of context c is registered under the next id, up to the bound.
Register(c, client) ==
    /\ nextId \in Id
    /\ nextId' = nextId + 1
    /\ listed' = listed \union {nextId}
    /\ alive' = alive \union {nextId}
    /\ at' = [at EXCEPT ![nextId] = c]
    /\ by' = [by EXCEPT ![nextId] = client]

\* Contexts are numbered as they are made; the one in use is always the last.
FreshContext == context + 1

\* A new context of a given scale, up to the bound; the old one stays or is closed.
Replace(old, fresh) ==
    /\ FreshContext \in Context
    /\ contexts' = [contexts EXCEPT ![context] = old, ![FreshContext] = fresh]
    /\ context' = FreshContext

PagesOf(c) == {i \in alive : at[i] = c}

(***************************************************************************)
(* handleCommandInternalImpl: pin, check the owner, run, unpin.            *)
(***************************************************************************)

\* An agent is bound to its own tabs.
Denied(r, target) ==
    ask[r].who \in Agent /\ ask[r].cmd # "newtab" /\ owner[target] # ask[r].who

\* Where a command goes on that has an active tab to run on.
Entry(a) ==
    CASE a.cmd = "newtab" -> "newPage"
      [] a.cmd \in {"scale", "handoff"} -> IF mode = "launched" THEN "save" ELSE "end"
      [] a.cmd = "tab" -> "end"
      [] OTHER -> a.cmd

Start(r) ==
    LET a == ask[r]
        pinned == IF a.pin \in listed THEN a.pin ELSE active
        target == IF a.pin # 0 THEN a.pin ELSE active
        scoped == a.who \in Agent /\ a.cmd = "newtab"
        go == CASE Denied(r, target) -> "done"
                [] scoped -> "newPage"
                [] pinned \notin listed -> "end"      \* no active page
                [] OTHER -> Entry(a)
    IN
    /\ At(r, "start")
    /\ active' = IF go = "end" /\ a.cmd = "tab" /\ a.arg \in listed THEN a.arg ELSE pinned
    /\ scale' = IF go = "save" /\ a.cmd = "scale" THEN a.arg ELSE scale
    /\ req' = [req EXCEPT ![r].pc = go,
                          ![r].saved = IF a.pin = 0 THEN 0 ELSE active,
                          ![r].tab = IF a.cmd = "close" /\ a.arg # 0 THEN a.arg ELSE pinned,
                          ![r].ctx = context,
                          ![r].prev = scale]
    /\ UNCHANGED <<ask, listed, owner, nextId, context, mode, browser, failures, by, orphaned>>

\* The tab that was active before is active again.
End(r) ==
    /\ At(r, "end")
    /\ active' = IF req[r].saved \in listed THEN req[r].saved ELSE active
    /\ Proceed(r, "done")
    /\ UNCHANGED <<ask, listed, owner, nextId, context, mode, scale, browser, failures, by, orphaned>>

\* Any command on the page; it may fail.
RunOnPage(r) ==
    /\ At(r, "page")
    /\ Proceed(r, "end")
    /\ UNCHANGED <<ask, tabs, context, mode, scale, browser, failures, by, orphaned>>

(***************************************************************************)
(* newTab and closeTab.                                                    *)
(***************************************************************************)

\* A tab of its own for an agent.  An agent's command ends here, pinned or not.
NewTab(r) ==
    LET who == ask[r].who
        agent == who \in Agent /\ ask[r].cmd = "newtab" IN
    /\ At(r, "newPage")
    /\ IF contexts[req[r].ctx] # 0
       THEN /\ Register(req[r].ctx, IF agent THEN who ELSE Root)
            /\ active' = nextId
            /\ owner' = IF agent THEN [owner EXCEPT ![nextId] = who] ELSE owner
       ELSE UNCHANGED <<tabs, alive, at, by>>
    /\ Proceed(r, IF agent THEN "done" ELSE "end")
    /\ UNCHANGED <<ask, context, mode, scale, contexts, failures, orphaned>>

\* The handler of the page runs first, and has then chosen another tab; or
\* closeTab does, which opens a tab when none is left.
CloseTab(r) ==
    LET i == req[r].tab IN
    /\ At(r, "close")
    /\ IF i \in listed
       THEN /\ Closed({i})
            /\ owner' = [owner EXCEPT ![i] = NoOwner]
            /\ \/ Proceed(r, "end")
               \/ /\ active = i /\ listed = {i}
                  /\ req' = [req EXCEPT ![r].pc = "newPage", ![r].ctx = context]
       ELSE Proceed(r, "end") /\ UNCHANGED <<listed, owner, active, alive>>
    /\ UNCHANGED <<ask, nextId, context, mode, scale, at, contexts, failures, by, orphaned>>

\* The user or a script closes a page.
PageCloses(i) ==
    /\ i \in alive /\ Failure
    /\ Closed({i})
    /\ UNCHANGED <<ask, req, owner, nextId, context, mode, scale, at, contexts, by, orphaned>>

(***************************************************************************)
(* recreateContext, handoff and state load: save, replace, restore.        *)
(***************************************************************************)

Failed(r) == CASE ask[r].cmd = "scale" -> "fallback"
               [] ask[r].cmd = "handoff" -> "undo"
               [] OTHER -> "end"

\* Mutant: the active tab's owner is saved with every page.
SavedOfActive(i) == [tab |-> i, owner |-> owner[active], active |-> i = active,
                     by |-> IF i \in orphaned THEN Root ELSE by[i]]

Saved(i) == [tab |-> i, owner |-> owner[i], active |-> i = active,
             by |-> IF i \in orphaned THEN Root ELSE by[i]]

\* saveState, all its reads at once.
Save(r) ==
    /\ At(r, "save")
    /\ \/ /\ req' = [req EXCEPT ![r].left = {Saved(i) : i \in listed},
                                ![r].mark = 0,
                                ![r].pc = IF ask[r].cmd = "scale" THEN "closing" ELSE "launch"]
          /\ UNCHANGED failures
       \/ Failure /\ Proceed(r, IF ask[r].cmd = "scale" THEN "fallback" ELSE "end")
    /\ UNCHANGED <<ask, tabs, context, mode, scale, browser, by, orphaned>>

\* closeAllPages, and the same loop in recreateContext.  A state file holds no
\* owners: one page of the user's.
ClosePages(r) ==
    /\ req[r].pc \in {"closing", "load"}
    /\ Closed(listed)
    /\ req' = IF At(r, "closing") THEN [req EXCEPT ![r].pc = "context"]
              ELSE [req EXCEPT ![r].pc = "owners", ![r].mark = 0,
                      ![r].left = {[tab |-> 1, owner |-> NoOwner, by |-> Root, active |-> TRUE]}]
    /\ UNCHANGED <<ask, owner, nextId, context, mode, scale, at, contexts, failures, by, orphaned>>

\* Mutant: the scale of the context is the one from before.
ScaleOfBefore(r) == req[r].prev

ScaleOf(r) == scale

\* The old context is closed, with what opened in it meanwhile, and a new one made.
NewContext(r) ==
    /\ At(r, "context")
    /\ Closed(PagesOf(context))
    /\ \/ /\ Replace(0, ScaleOf(r))
          /\ Proceed(r, "owners") /\ UNCHANGED failures
       \/ /\ contexts' = [contexts EXCEPT ![context] = 0]
          /\ Proceed(r, "fallback") /\ Failure /\ UNCHANGED context
    /\ UNCHANGED <<ask, owner, nextId, mode, scale, at, by, orphaned>>

\* handoff: a headed browser takes over, the old one stays until all is restored.
LaunchHeaded(r) ==
    /\ At(r, "launch")
    /\ \/ /\ Replace(contexts[context], 1)
          /\ listed' = {} /\ mode' = "headed"
          /\ Proceed(r, "owners") /\ UNCHANGED failures
       \/ Failure /\ Proceed(r, "end") /\ UNCHANGED <<contexts, context, listed, mode>>
    /\ UNCHANGED <<ask, owner, active, nextId, scale, alive, at, by, orphaned>>

\* restoreState: cookies first, then the ids of the old tabs own nothing any more.
ClearOwners(r) ==
    /\ At(r, "owners")
    /\ IF contexts[context] # 0
       THEN /\ owner' = [i \in 0..MaxTabs |-> NoOwner] /\ orphaned' = orphaned \union listed
            /\ Proceed(r, "restore")
       ELSE Proceed(r, Failed(r)) /\ UNCHANGED <<owner, orphaned>>
    /\ UNCHANGED <<ask, listed, active, nextId, context, mode, scale, browser, failures, by>>

\* The saved pages are opened one by one, in the order of their old ids.
RestorePage(r) ==
    \E saved \in req[r].left :
    /\ At(r, "restore") /\ \A other \in req[r].left : saved.tab <= other.tab
    /\ \/ /\ contexts[context] # 0
          /\ Register(context, saved.by)
          /\ owner' = [owner EXCEPT ![nextId] = saved.owner]
          /\ req' = [req EXCEPT ![r].left = @ \ {saved},
                                ![r].mark = IF saved.active THEN nextId ELSE @]
          /\ UNCHANGED failures
       \/ /\ IF contexts[context] # 0 THEN Failure ELSE UNCHANGED failures
          /\ Proceed(r, Failed(r))
          /\ UNCHANGED <<listed, owner, nextId, alive, at, by>>
    /\ UNCHANGED <<ask, active, context, mode, scale, contexts, orphaned>>

\* The active tab is active again, even if it has been closed meanwhile.  A
\* browser without a tab gets one.  After a handoff the old browser closes.
RestoreEnd(r) ==
    LET old == IF ask[r].cmd = "handoff" THEN {c \in Context : c # context} ELSE {} IN
    /\ At(r, "restore") /\ req[r].left = {}
    /\ contexts' = [c \in Context |-> IF c \in old THEN 0 ELSE contexts[c]]
    /\ IF listed = {}
       THEN req' = [req EXCEPT ![r].pc = "newPage", ![r].ctx = context]
            /\ UNCHANGED <<listed, active>> /\ alive' = {i \in alive : at[i] \notin old}
       ELSE /\ Proceed(r, "end")
            /\ alive' = {i \in alive : at[i] \notin old}
            /\ listed' = listed \intersect alive'
            /\ active' = IF req[r].mark # 0 THEN req[r].mark ELSE Min(listed)
    /\ UNCHANGED <<ask, owner, nextId, context, mode, scale, at, failures, by, orphaned>>

\* Mutant: the maps keep the tabs of the context that is given up.
DropTabsKeeps(gone) == active' = active /\ alive' = alive \ gone /\ listed' = listed

DropTabs(gone) == active' = active /\ alive' = alive \ gone /\ listed' = {}

\* A clean context with a blank tab.  After a failed change of scale the old
\* scale is set again, and the context made once more.
Fallback(r) ==
    LET again == req[r].round = 0 IN
    /\ At(r, "fallback")
    /\ DropTabs(PagesOf(context))
    /\ \/ /\ Replace(0, ScaleOf(r))
          /\ req' = [req EXCEPT ![r].pc = "blank", ![r].ctx = FreshContext] /\ UNCHANGED <<failures, scale>>
       \/ /\ contexts' = [contexts EXCEPT ![context] = 0]
          /\ req' = [req EXCEPT ![r].pc = IF again THEN "save" ELSE "end", ![r].round = 1]
          /\ scale' = IF again THEN req[r].prev ELSE scale
          /\ Failure /\ UNCHANGED context
    /\ UNCHANGED <<ask, owner, nextId, mode, at, by, orphaned>>

Blank(r) ==
    LET again == req[r].round = 0 IN
    /\ At(r, "blank")
    /\ IF contexts[context] # 0
       THEN Register(context, Root) /\ active' = nextId
       ELSE UNCHANGED <<listed, active, nextId, alive, at, by>>
    /\ req' = [req EXCEPT ![r].pc = IF again THEN "save" ELSE "end", ![r].round = 1]
    /\ scale' = IF again THEN req[r].prev ELSE scale
    /\ UNCHANGED <<ask, owner, context, mode, contexts, failures, orphaned>>

\* A handoff that could not restore closes the new browser, which stays the one
\* in use.
UndoHandoff(r) ==
    /\ At(r, "undo")
    /\ Closed(PagesOf(context))
    /\ contexts' = [contexts EXCEPT ![context] = 0]
    /\ Proceed(r, "end")
    /\ UNCHANGED <<ask, owner, nextId, context, mode, scale, at, failures, by, orphaned>>

TabsStep(r) ==
    \/ Start(r) \/ End(r) \/ RunOnPage(r) \/ NewTab(r) \/ CloseTab(r)
    \/ Save(r) \/ ClosePages(r) \/ NewContext(r) \/ LaunchHeaded(r) \/ ClearOwners(r)
    \/ RestorePage(r) \/ RestoreEnd(r) \/ Fallback(r) \/ Blank(r) \/ UndoHandoff(r)

TabsNext == (\E r \in Req : TabsStep(r)) \/ (\E i \in Id : PageCloses(i))

TabsSpec == TabsInit /\ [][TabsNext]_tabsVars

(***************************************************************************)
(* Properties.                                                             *)
(***************************************************************************)

\* Every variable keeps its type; what is listed, active or remembered by a command
\* is a tab id that was given out.
TabsTypeOK ==
    /\ listed \subseteq 1..(nextId - 1) /\ nextId \in 1..(MaxTabs + 1)
    /\ owner \in [0..MaxTabs -> Agent \union {NoOwner}]
    /\ active \in 0..(nextId - 1)
    /\ context \in Context /\ mode \in {"launched", "headed"} /\ scale \in Scales
    /\ at \in [Id -> 0..MaxContexts] /\ contexts \in [Context -> {0} \union Scales]
    /\ by \in [Id -> Client] /\ orphaned \subseteq Id
    /\ \A r \in Req :
         /\ req[r].saved \in 0..(nextId - 1) /\ req[r].mark \in 0..(nextId - 1)
         /\ req[r].ctx \in 0..MaxContexts

\* A tab the daemon lists is a page that is open, whatever contexts were
\* replaced, handed over or given up around it: no command finds a dead page
\* behind a tab id.
ListedAlive == listed \subseteq alive

\* "Preserve tab ownership through recreation so scoped agents aren't locked
\* out", and never for another client: a tab is owned by the agent that opened
\* it, under each of its ids, unless a command that restores tabs cleared the
\* owners after it was opened.
OwnershipKept ==
    \A i \in listed \ orphaned : owner[i] = IF by[i] \in Agent THEN by[i] ELSE NoOwner

\* "So a bad call doesn't leave the manager in an inconsistent state": once a
\* command is through, the context in use has the scale the daemon believes in.
Idle == \A r \in Req : req[r].pc \in {"start", "done"}
ScaleTracked ==
    Idle /\ mode = "launched" /\ contexts[context] # 0 => contexts[context] = scale
=============================================================================
