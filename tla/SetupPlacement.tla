--------------------------- MODULE SetupPlacement ---------------------------
(***************************************************************************)
(* Setups and rules placed for one agent (placement/src/targets): a        *)
(* bundle's scripts go to a directory named by the ref of its package, its *)
(* hooks, its statusLine and its MCP servers into files the user and other *)
(* bundles have entries in too.  Every entry has to be found again, and    *)
(* nothing else, when the bundle is installed anew or removed.             *)
(*                                                                         *)
(* Claude and open-std tag the entries with the ref of the package, their  *)
(* owner.  Codex tags hooks, has no statusLine, and keeps the owners of    *)
(* MCP servers in a ledger of its own, because its config takes no tags.   *)
(* A rule is a file of its own, but for codex, which reads all of them     *)
(* from AGENTS.md, each in a marked block amid the user's own prose.       *)
(*                                                                         *)
(* Files are read, changed and written back whole, in two steps; the user  *)
(* may edit them at any time, also in between.                             *)
(***************************************************************************)
EXTENDS Naturals, Sequences

CONSTANTS
    Ref,          \* refs of packages: org/key?/slug, of a rule its slug
    RuleRef,      \* those of the packages that are rules
    Bundle,       \* bundles: what some version of a package contains
    Content,      \* what a bundle contains, see ContentType
    Inside,       \* the refs whose script directory lies in that of a ref
    File, Event, Name,   \* of scripts, of hooks, of MCP servers
    UserName,     \* the name of an MCP server the user configures, maybe also a bundle's
    Agent,        \* the agents looked at: "tagging", "codex"
    CrashPoints,  \* tasks at which a command may die
    MaxCommands,  \* bound: commands started
    MaxEdits,     \* bound: edits of the user
    User,         \* where an entry that belongs to no bundle comes from
    Gone, None    \* a package that was removed; an absent value

Tasks == {"writeScript", "mergeHooks", "setStatusLine", "upsertServer", "recordOwner",
          "removeScripts", "removeHooks", "checkStatusLine", "clearStatusLine",
          "readLedger", "removeServers", "writeLedger",
          "writeRule", "removeRule", "upsertBlock", "stripBlock"}

ContentType ==
    [owner : Ref, scripts : Seq(File), events : SUBSET Event, line : BOOLEAN, mcps : Seq(Name)]

ASSUME SetupAssumption ==
    /\ RuleRef \subseteq Ref
    /\ Content \in [Bundle -> ContentType]
    /\ \A b \in Bundle : Content[b].owner \in RuleRef =>     \* a rule is a text, no more
           /\ Content[b].scripts = <<>> /\ Content[b].events = {}
           /\ ~Content[b].line /\ Content[b].mcps = <<>>
    /\ Inside \in [Ref -> SUBSET Ref]
    /\ \A r \in Ref : r \in Inside[r]
    /\ Agent \subseteq {"tagging", "codex"}
    /\ CrashPoints \subseteq Tasks
    /\ MaxCommands \in Nat /\ MaxEdits \in Nat
    /\ User \notin Bundle
    /\ Gone \notin Bundle /\ None \notin Bundle \union Ref \union {Gone}

\* An entry holds its owner's tag, if any; `from` stands for what it says.
Scripts == [dir : Ref, file : File, from : Bundle]
Hooks == [event : Event, owner : Ref \union {None}, from : Bundle \union {User}]
Lines == [owner : Ref \union {None}, from : Bundle \union {User}]
Servers == [key : (Ref \union {None}) \X (Name \union {UserName}),
            owner : Ref \union {None}, from : Bundle \union {User}]
Owners == [name : Name, owner : Ref]
Rules == [slug : Ref \union {None}, from : Bundle \union {User}]
Commands == [bundle : Bundle \union {None}, ref : Ref]

ASSUME NoneAssumption == None \notin Lines /\ None \notin Commands

Task(do, arg) == [do |-> do, arg |-> arg]

VARIABLES
    agent,     \* the agent placed for
    scripts,   \* script files
    hooks,     \* hooks in the settings
    line,      \* statusLine in the settings
    servers,   \* MCP servers in their config
    ledger,    \* codex: the owner of each server
    rules,     \* rule files, or the blocks and the prose of AGENTS.md
    cmd,       \* the command that runs: its bundle (None: a removal) and ref
    todo,      \* tasks it has left
    copy,      \* what it has read, None when the next task has read nothing yet
    owned,     \* codex: the ledger a removal has read
    claim,     \* the owner of the statusLine according to aipkg.lock
    commands, edits,   \* counts, for the bounds
    status,    \* history: per ref the bundle installed, Gone, or None in between
    kept       \* history: entries of the user made while no command ran

settings == <<hooks, line>>
disk == <<scripts, settings, servers, ledger, rules>>
progress == <<cmd, todo, copy, owned>>
world == <<agent, claim, commands, edits, status, kept>>
vars == <<disk, progress, world>>

Init ==
    /\ agent \in Agent
    /\ scripts = {}
    /\ hooks = {} /\ line = None
    /\ servers = {} /\ ledger = {}
    /\ rules = {}
    /\ cmd = None /\ todo = <<>> /\ copy = None /\ owned = {}
    /\ claim = None
    /\ commands = 0 /\ edits = 0
    /\ status = [r \in Ref |-> Gone]
    /\ kept = {}

(***************************************************************************)
(* What is written, as functions of what was read.                         *)
(***************************************************************************)

\* Mutant: a file that is there already is not written.
WriteFileOnce(existing, r, f, b) ==
    IF \E s \in existing : s.dir = r /\ s.file = f
    THEN existing
    ELSE existing \union {[dir |-> r, file |-> f, from |-> b]}

WriteFile(existing, r, f, b) ==
    {s \in existing : ~(s.dir = r /\ s.file = f)} \union {[dir |-> r, file |-> f, from |-> b]}

\* Mutant: an incoming event replaces everybody's hooks for it.
MergeOwnedHooksAll(existing, b) ==
    LET r == Content[b].owner IN
    {h \in existing : h.event \notin Content[b].events}
        \union [event : Content[b].events, owner : {r}, from : {b}]

\* The incoming events' hooks of this owner are replaced, all others stay.
MergeOwnedHooks(existing, b) ==
    LET r == Content[b].owner IN
    {h \in existing : ~(h.owner = r /\ h.event \in Content[b].events)}
        \union [event : Content[b].events, owner : {r}, from : {b}]

RemoveOwnedHooks(existing, r) == {h \in existing : h.owner # r}

\* The key of a server, and its tag: codex has bare names and no tags.
Key(r, n) == IF agent = "codex" THEN <<None, n>> ELSE <<r, n>>
Tag(r) == IF agent = "codex" THEN None ELSE r

ServerOf(b, n) ==
    [key |-> Key(Content[b].owner, n), owner |-> Tag(Content[b].owner), from |-> b]

\* Mutant: the server is added beside what has its key.
UpsertServerBeside(existing, b, n) == existing \union {ServerOf(b, n)}

UpsertServer(existing, b, n) ==
    {s \in existing : s.key # Key(Content[b].owner, n)} \union {ServerOf(b, n)}

RecordOwner(existing, n, r) ==
    {o \in existing : o.name # n} \union {[name |-> n, owner |-> r]}

OwnedNames(r) == {o.name : o \in {x \in owned : x.owner = r}}

\* Codex goes by the names in the ledger it has read, the others by tag.
RemoveOwnedServers(existing, r) ==
    IF agent = "codex"
    THEN {s \in existing : s.key \notin {<<None, n>> : n \in OwnedNames(r)}}
    ELSE {s \in existing : s.owner # r}

\* Mutant: the block is put into an AGENTS.md of its own.
PutRuleAlone(existing, b) == {[slug |-> Content[b].owner, from |-> b]}

\* The rule's file or block is replaced, or added behind what is there.
PutRule(existing, b) ==
    {x \in existing : x.slug # Content[b].owner} \union {[slug |-> Content[b].owner, from |-> b]}

StripRule(existing, r) == {x \in existing : x.slug # r}

(***************************************************************************)
(* Commands: a list of tasks, each an awaited call.                        *)
(***************************************************************************)

Running == cmd # None

Begin(r) ==
    /\ ~Running
    /\ commands < MaxCommands
    /\ commands' = commands + 1
    /\ status' = [status EXCEPT ![r] = None]
    /\ UNCHANGED <<disk, copy, owned, agent, claim, edits>>

Each(do, args) == [i \in DOMAIN args |-> Task(do, args[i])]
If(cond, tasks) == IF cond THEN tasks ELSE <<>>

SetupTasks(b) ==
    LET c == Content[b] IN
    Each("writeScript", c.scripts)
        \o If(c.events # {}, <<Task("mergeHooks", None)>>)
        \o If(c.line /\ agent # "codex", <<Task("setStatusLine", None)>>)
        \o Each("upsertServer", c.mcps)

InstallTasks(b) ==
    IF Content[b].owner \in RuleRef
    THEN <<Task(IF agent = "codex" THEN "upsertBlock" ELSE "writeRule", None)>>
    ELSE SetupTasks(b)

\* Mutant: servers are left out of a removal.
RemoveSetupTasksNoServers ==
    <<Task("removeScripts", None), Task("removeHooks", None)>>
        \o If(agent # "codex", <<Task("checkStatusLine", None)>>)

RemoveSetupTasks ==
    <<Task("removeScripts", None), Task("removeHooks", None)>>
        \o (IF agent = "codex"
            THEN <<Task("readLedger", None)>>
            ELSE <<Task("checkStatusLine", None), Task("removeServers", None)>>)

RemoveTasks(r) ==
    IF r \in RuleRef
    THEN <<Task(IF agent = "codex" THEN "stripBlock" ELSE "removeRule", None)>>
    ELSE RemoveSetupTasks

\* The server the user configures, under a bare name.
UserServer == [key |-> <<None, UserName>>, owner |-> None, from |-> User]

\* Codex has one server per name: a command that writes or removes servers of
\* these names does so with the user's, too.
GivenUp(names) == IF agent = "codex" /\ UserName \in names THEN {UserServer} ELSE {}

NamesIn(b) == {Content[b].mcps[i] : i \in DOMAIN Content[b].mcps}

\* Called once the lockfile has granted the statusLine, if there is one; it
\* takes the place of one the user has set.
InstallPackage(b) ==
    LET r == Content[b].owner IN
    /\ Content[b].line => claim \in {None, r}
    /\ Begin(r)
    /\ cmd' = [bundle |-> b, ref |-> r]
    /\ todo' = InstallTasks(b)
    /\ kept' = (IF Content[b].line THEN kept \ Lines ELSE kept) \ GivenUp(NamesIn(b))

RemovePackage(r) ==
    /\ Begin(r)
    /\ cmd' = [bundle |-> None, ref |-> r]
    /\ todo' = RemoveTasks(r)
    /\ kept' = kept \ GivenUp({o.name : o \in {x \in ledger : x.owner = r}})

\* The next task is this one; a task that works on a copy has to have read it.
Doing(do) == Running /\ todo # <<>> /\ Head(todo).do = do
Reading == {"mergeHooks", "setStatusLine", "removeHooks", "clearStatusLine",
            "upsertServer", "removeServers", "upsertBlock", "stripBlock"}
Goto(tasks) ==
    /\ todo' = tasks
    /\ copy' = None
    /\ UNCHANGED <<cmd, world>>
GoOn == Goto(Tail(todo))

ReadCopy ==
    /\ Running /\ todo # <<>> /\ copy = None
    /\ Head(todo).do \in Reading
    /\ copy' = [hooks |-> hooks, line |-> line, servers |-> servers, rules |-> rules]
    /\ UNCHANGED <<disk, cmd, todo, owned, world>>

WriteScript ==
    /\ Doing("writeScript")
    /\ scripts' = WriteFile(scripts, cmd.ref, Head(todo).arg, cmd.bundle)
    /\ GoOn
    /\ UNCHANGED <<settings, servers, ledger, rules, owned>>

RemoveScripts ==
    /\ Doing("removeScripts")
    /\ scripts' = {s \in scripts : s.dir \notin Inside[cmd.ref]}
    /\ GoOn
    /\ UNCHANGED <<settings, servers, ledger, rules, owned>>

MergeHooks ==
    /\ Doing("mergeHooks") /\ copy # None
    /\ hooks' = MergeOwnedHooks(copy.hooks, cmd.bundle)
    /\ line' = copy.line
    /\ GoOn
    /\ UNCHANGED <<scripts, servers, ledger, rules, owned>>

\* Nothing is written unless some hook was removed.
RemoveHooks ==
    /\ Doing("removeHooks") /\ copy # None
    /\ LET after == RemoveOwnedHooks(copy.hooks, cmd.ref)
       IN IF after # copy.hooks
          THEN hooks' = after /\ line' = copy.line
          ELSE UNCHANGED settings
    /\ GoOn
    /\ UNCHANGED <<scripts, servers, ledger, rules, owned>>

SetStatusLine ==
    /\ Doing("setStatusLine") /\ copy # None
    /\ hooks' = copy.hooks
    /\ line' = [owner |-> cmd.ref, from |-> cmd.bundle]
    /\ GoOn
    /\ UNCHANGED <<scripts, servers, ledger, rules, owned>>

OwnsLine(l, r) == l # None /\ l.owner = r

\* clearOwnedStatusLine: the owner is looked up in one read of the settings ...
CheckStatusLine ==
    /\ Doing("checkStatusLine")
    /\ Goto(If(OwnsLine(line, cmd.ref), <<Task("clearStatusLine", None)>>) \o Tail(todo))
    /\ UNCHANGED <<disk, owned>>

\* ... and the line cleared in the next, whoever owns it by then.
ClearStatusLine ==
    /\ Doing("clearStatusLine") /\ copy # None
    /\ IF copy.line # None
       THEN hooks' = copy.hooks /\ line' = None
       ELSE UNCHANGED settings
    /\ GoOn
    /\ UNCHANGED <<scripts, servers, ledger, rules, owned>>

AddServer ==
    /\ Doing("upsertServer") /\ copy # None
    /\ servers' = UpsertServer(copy.servers, cmd.bundle, Head(todo).arg)
    /\ Goto(If(agent = "codex", <<Task("recordOwner", Head(todo).arg)>>) \o Tail(todo))
    /\ UNCHANGED <<scripts, settings, ledger, rules, owned>>

\* Nobody else writes the ledger, so reading it is part of the step.
Record ==
    /\ Doing("recordOwner")
    /\ ledger' = RecordOwner(ledger, Head(todo).arg, cmd.ref)
    /\ GoOn
    /\ UNCHANGED <<scripts, settings, servers, rules, owned>>

ReadLedger ==
    /\ Doing("readLedger")
    /\ owned' = ledger
    /\ Goto(If(\E o \in ledger : o.owner = cmd.ref,
               <<Task("removeServers", None), Task("writeLedger", None)>>) \o Tail(todo))
    /\ UNCHANGED disk

\* Codex writes its config in any case, the others when a server was removed.
RemoveServers ==
    /\ Doing("removeServers") /\ copy # None
    /\ LET after == RemoveOwnedServers(copy.servers, cmd.ref)
       IN servers' = IF agent = "codex" \/ after # copy.servers THEN after ELSE servers
    /\ GoOn
    /\ UNCHANGED <<scripts, settings, ledger, rules, owned>>

WriteLedger ==
    /\ Doing("writeLedger")
    /\ ledger' = {o \in owned : o.owner # cmd.ref}
    /\ GoOn
    /\ UNCHANGED <<scripts, settings, servers, rules, owned>>

\* A rule's file is written or removed in one call, whatever is there.
WriteRule ==
    /\ Doing("writeRule")
    /\ rules' = PutRule(rules, cmd.bundle)
    /\ GoOn
    /\ UNCHANGED <<scripts, settings, servers, ledger, owned>>

RemoveRule ==
    /\ Doing("removeRule")
    /\ rules' = StripRule(rules, cmd.ref)
    /\ GoOn
    /\ UNCHANGED <<scripts, settings, servers, ledger, owned>>

\* AGENTS.md is written back whole, by a removal only if the block was there.
UpsertBlock ==
    /\ Doing("upsertBlock") /\ copy # None
    /\ rules' = PutRule(copy.rules, cmd.bundle)
    /\ GoOn
    /\ UNCHANGED <<scripts, settings, servers, ledger, owned>>

StripBlock ==
    /\ Doing("stripBlock") /\ copy # None
    /\ LET after == StripRule(copy.rules, cmd.ref)
       IN rules' = IF after # copy.rules THEN after ELSE rules
    /\ GoOn
    /\ UNCHANGED <<scripts, settings, servers, ledger, owned>>

Stop == cmd' = None /\ todo' = <<>> /\ copy' = None /\ owned' = {}

\* The command saves its lockfile, the claim on the statusLine with it.
Finish ==
    /\ Running /\ todo = <<>>
    /\ Stop
    /\ LET r == cmd.ref
           b == cmd.bundle
       IN /\ status' = [status EXCEPT ![r] = IF b = None THEN Gone ELSE b]
          /\ claim' = IF b = None
                      THEN IF claim = r THEN None ELSE claim
                      ELSE IF Content[b].line THEN r ELSE claim
    /\ UNCHANGED <<disk, agent, commands, edits, kept>>

\* A kill, or a file that cannot be read or written.
Die ==
    /\ Running /\ todo # <<>>
    /\ Head(todo).do \in CrashPoints
    /\ Stop
    /\ UNCHANGED <<disk, world>>

(***************************************************************************)
(* The user, who has entries of his own in the same files.                 *)
(***************************************************************************)

Edit(entry) ==
    /\ edits < MaxEdits
    /\ edits' = edits + 1
    /\ kept' = IF Running THEN kept ELSE kept \union {entry}
    /\ UNCHANGED <<scripts, ledger, progress, agent, claim, commands, status>>

EditHook(e) ==
    LET mine == [event |-> e, owner |-> None, from |-> User] IN
    Edit(mine) /\ hooks' = hooks \union {mine} /\ UNCHANGED <<line, servers, rules>>

EditLine ==
    LET mine == [owner |-> None, from |-> User] IN
    /\ agent # "codex"
    /\ Edit(mine) /\ line' = mine /\ UNCHANGED <<hooks, servers, rules>>

\* The name is free, or the user's already.
EditServer ==
    /\ \A s \in servers : s.key = UserServer.key => s = UserServer
    /\ Edit(UserServer)
    /\ servers' = servers \union {UserServer}
    /\ UNCHANGED <<settings, rules>>

EditAgentsMd ==
    LET mine == [slug |-> None, from |-> User] IN
    /\ agent = "codex"
    /\ Edit(mine) /\ rules' = rules \union {mine} /\ UNCHANGED <<settings, servers>>

Install == WriteScript \/ MergeHooks \/ SetStatusLine \/ AddServer \/ Record
               \/ WriteRule \/ UpsertBlock
Remove == RemoveScripts \/ RemoveHooks \/ CheckStatusLine \/ ClearStatusLine
              \/ ReadLedger \/ RemoveServers \/ WriteLedger
              \/ RemoveRule \/ StripBlock
UserEdits == (\E e \in Event : EditHook(e)) \/ EditLine \/ EditServer
                 \/ EditAgentsMd

Next ==
    \/ \E b \in Bundle : InstallPackage(b)
    \/ \E r \in Ref : RemovePackage(r)
    \/ ReadCopy \/ Install \/ Remove
    \/ Finish \/ Die
    \/ UserEdits

Spec == Init /\ [][Next]_vars

(***************************************************************************)
(* Properties.                                                             *)
(***************************************************************************)

\* Every variable has its type, and no path, key or name is taken twice.
TypeOK ==
    /\ agent \in Agent
    /\ scripts \subseteq Scripts
    /\ \A s, u \in scripts : s.dir = u.dir /\ s.file = u.file => s = u
    /\ hooks \subseteq Hooks
    /\ line \in Lines \union {None}
    /\ servers \subseteq Servers
    /\ \A s, u \in servers : s.key = u.key => s = u
    /\ ledger \subseteq Owners
    /\ \A o, q \in ledger : o.name = q.name => o = q
    /\ rules \subseteq Rules
    /\ \A x, y \in rules : x.slug = y.slug => x = y
    /\ cmd \in Commands \union {None}
    /\ todo \in Seq([do : Tasks, arg : File \union Name \union {None}])
    /\ copy \in [hooks : SUBSET Hooks, line : Lines \union {None},
                 servers : SUBSET Servers, rules : SUBSET Rules] \union {None}
    /\ owned \subseteq Owners
    /\ claim \in Ref \union {None}
    /\ commands \in 0..MaxCommands /\ edits \in 0..MaxEdits
    /\ status \in [Ref -> Bundle \union {Gone, None}]
    /\ kept \subseteq Hooks \union Lines \union Servers \union Rules

From(r) == {b \in Bundle : Content[b].owner = r}

\* What the bundles of a package have on disk, the shared statusLine aside.
EntriesOf(r) ==
    << {s \in scripts : s.from \in From(r)}, {h \in hooks : h.from \in From(r)},
       {s \in servers : s.from \in From(r)}, {o \in ledger : o.owner = r},
       {x \in rules : x.from \in From(r)} >>

\* "Ownership (not names) drives removal so a bundle only ever reverses its own
\* entries": whatever a command writes back, only its own package's scripts,
\* hooks, servers and rule change.
OnlyOwnEntries ==
    [][\A r \in Ref : EntriesOf(r)' # EntriesOf(r) => Running /\ cmd.ref = r]_vars

Claimed(r) == claim = r /\ agent # "codex"

\* A package whose last command was an install, maybe a retry after one that
\* died, or of another version, has everything of that version in place, also
\* while other packages come and go; only the user takes over a statusLine.
InstalledStays ==
    \A r \in Ref : status[r] \in Bundle =>
        LET b == status[r]
            c == Content[b]
        IN /\ r \in RuleRef => [slug |-> r, from |-> b] \in rules
           /\ \A i \in DOMAIN c.scripts :
                  [dir |-> r, file |-> c.scripts[i], from |-> b] \in scripts
           /\ \A e \in c.events : [event |-> e, owner |-> r, from |-> b] \in hooks
           /\ c.line /\ Claimed(r) => OwnsLine(line, r) \/ line = [owner |-> None, from |-> User]
           /\ \A i \in DOMAIN c.mcps :
                  /\ ServerOf(b, c.mcps[i]) \in servers
                  /\ agent = "codex" => [name |-> c.mcps[i], owner |-> r] \in ledger

\* Of a package whose last command was a removal nothing is left, whichever of
\* its versions put it there and whatever died in between.
RemovedIsGone ==
    \A r \in Ref : status[r] = Gone =>
        /\ EntriesOf(r) = << {}, {}, {}, {}, {} >>
        /\ ~OwnsLine(line, r)

\* What the user wrote while no command ran is never lost, but for two things the
\* files have room for once: a statusLine, in the place of which a bundle's is
\* installed; and, on codex, a server of a name that a bundle being installed
\* brings as well, or that the ledger has for the package being removed
\* (mcp-config.ts:84, :104).
UserKept == kept \subseteq hooks \union servers \union {line} \union rules

\* "A user's hand-written keys and values are preserved": every server of the
\* user that a command has read is in what it writes back.  Codex does not keep
\* to it when a bundle brings a server of the same name (SetupServer.cfg).
UserServersWrittenBack ==
    [][AddServer \/ RemoveServers => \A s \in copy.servers : s.from = User => s \in servers']_vars

\* "Reinstalls replace prior entries": after an install, the hooks of a package
\* are those of the version installed.
ReinstallReplaces ==
    \A r \in Ref : status[r] \in Bundle =>
        {h \in hooks : h.owner = r}
            = [event : Content[status[r]].events, owner : {r}, from : {status[r]}]

=============================================================================
