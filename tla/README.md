# aipkgs-cli: a verification project

TLA+ models of the command line tool `aipkg` (`src/packages/cli`), of the
packages it is built on (`src/packages/archive`, `src/packages/placement`), and
of the stateful programs shipped with its gstack package
(`src/aipkgs/gstack/skills`: a browser daemon with its command line, lock, tabs
and terminal, a daemon for iOS devices, and a sync of memories and code into
gbrain), model-checked with TLC, and theorems about them checked with TLAPS.

Paths below are relative to `src/packages/`, those that begin with `browse/`,
`ios-qa/` or `gstack/` to `src/aipkgs/gstack/skills/`.

## 1. Inventory

| Component | State | Operations | Talks to |
|---|---|---|---|
| lockfile (`cli/src/files/lockfile.ts`, keys from `archive/src/ref.ts`) | `aipkg.lock`: per deps bucket and entry key the ref, version, sha and parent of an archive; the owner of the one statusLine | resolve (seeds a missing file), getEntry, resolvePkgRef, upsertEntry, removeEntry, collectSubtree, upsertStatusLine, removeStatusLine, write | install, remove |
| install (`cli/src/actions/install/`, `cli/src/files/manifest.ts`) | `aipkg.json`; copies of both files in memory; the recursion over dependencies | installAction, installAllAction, hydratePkg, resolveDeps | lockfile, registry, mirror, placement, config |
| remove (`cli/src/actions/remove.ts`) | copies of both files | removeAction | lockfile, placement, mirror |
| mirror (`cli/src/io/mirror.ts`) | `.aipkgs/` | writeAipkgsMirror, removeAipkgsMirror | install, remove |
| placement (`placement/src/`) | the files of each agent: skills, rules, subagents, scripts | install, remove per target | install, remove |
| setup merging (`placement/src/targets/hooks-format.ts`, `*-config.ts`) | `settings.local.json`, `.mcp.json`, codex `hooks.json`, `config.toml` and its ledger | merge and remove what an owner put there | placement |
| codex AGENTS.md (`placement/src/targets/codex/agents-config.ts`) | a file shared with the user, with one managed block per rule | upsertRule, removeRule | placement |
| autocomplete (`cli/src/autocomplete/autocomplete.ts`) | input, rows, highlight, debounce timer, sequence number of searches | key handlers, runSearch, scheduleSearch | registry search, install |
| login (`cli/src/services/auth.ts`, `cli/src/files/credentials.ts`) | the loopback server's open callback; `credentials.json` | login, logout, whoami | browser, API |
| config (`cli/src/files/config.ts`) | `config.json`: targets, mirror | set, resolve (migrates), resolvedTargets | install, remove, mirror |
| publish (`cli/src/actions/publish/publish.ts`) | a manifest whose version is bumped | publishAction | registry |
| archive and manifest parsing, file collection, prompts, command line | none that outlives a call | pure functions, wiring, one-question prompts | all |
| browse launch (`browse/src/cli.ts`, `server.ts`) | the daemon processes; the state file that names one; the lock file for starting one | ensureServer, startServer, killServer, sendCommand, connect, disconnect; start, shutdown, emergencyCleanup | every browse command |
| browse CDP lock (`browse/src/browser-manager.ts`, `cdp-bridge.ts`) | a chain of promises per tab and one for the browser | acquireTabLock, acquireGlobalCdpLock, dispatchCdpCall | browser |
| browse tabs (`browse/src/browser-manager.ts`, `server.ts`) | tabs, their owners, the active tab, the context and its scale | newTab, closeTab, pin, saveState, restoreState, recreateContext, handoff, setDeviceScaleFactor | browse commands, agents, browser |
| sidebar terminal (`browse/src/terminal-agent.ts`, `pty-session-*.ts`, `server.ts`) | daemon: leases and requests; agent: tokens, sessions, sockets, timers; the claude processes | /pty-session, reattach, restart, dispose; websocket open, start, close; watchdog | sidebar, daemon, agent |
| iOS QA daemon (`ios-qa/daemon/src/`, `StateServer.swift.template`) | the allowlist file, tokens, the tunnel; in the app the boot token and the session | mint, revoke, proxy, getTunnel, bootstrapTunnel; grant and revoke of the owner's tool; rotate, acquire, release | owner, callers, app |
| gbrain sync (`gstack/bin/gstack-gbrain-sync.ts`, `gstack-memory-ingest.ts`) | the lock file, the sources registered, the state file, staging directories, the import's checkpoint | acquireLock, runCodeImport, ingestPass, resume, signal handling | gbrain |
| browse page commands, other packages under `src/aipkgs` | none beyond the above | one call each | browser |

What makes it hard: nothing in `aipkg` locks anything. Commands work on copies
of files they write back whole; every `await` lets another process, the user or
the registry act; a process may die between any two of a dozen effects on disk;
and identifiers are deliberately coarser than packages (a rule is tracked by
its bare slug, a bundled asset by the ref of its box). In the two event-driven
parts, the picker and the login, keys, timers, answers and callbacks come in any
order. The gstack programs do lock, lease and supervise, and that is what can go
wrong in them: a lock file is created before it names its holder, a lock is taken
over by age, a process is killed by a pid read earlier, a timer fires for a
session that somebody has come back to, and state read before an `await` is used
after the context, the tunnel or the grant it was about has been replaced.

What makes each part correct:

- lockfile, install: an install of a locked project is reproducible; what is
  locked, declared, mirrored and placed agree when a command has finished; one
  statusLine has one owner; a dependency is installed as what it was declared as;
  an upgrade is possible; a dependency recursion ends.
- remove: takes what belongs to the package and nothing else.
- autocomplete: what is shown, highlighted and installed is what the user typed
  and chose, whatever order answers come in.
- login: the account on file is one the user chose; token and user belong together,
  or do so again after the next login; a login ends.
- setup merging, AGENTS.md: an install replaces its own entries, a removal takes
  only those, and what the user wrote stays.
- publish: one version is uploaded once; the manifest says what was published.
- browse launch: one daemon, though many commands look for it at once; the
  visible browser is not replaced behind the user's back; a command ends.
- CDP lock: conflicting calls exclude each other, in the order they came, and a
  call that gives up blocks nobody.
- browse tabs: tab ids name open pages, agents keep the tabs they opened, and the
  daemon knows the scale in use, whatever is replaced under them.
- terminal: a session somebody is attached to has its process, one that was left
  ends, and no process is lost sight of.
- iOS daemon: nobody is served beyond what the owner granted, a revoked caller is
  cut off, and a tunnel that is kept works.
- gbrain sync: what is recorded as ingested has landed, and the old index of a
  repository goes when the new one is there, not before.

The hazards in full, each at its line and with the property that covers it or
the reason none does yet, are in `PROJECT.json`.

## 2. Modules

```
Lockfile     operators on lockfile contents            (no state of its own)
  Install    install, installAll, remove: processes, disk, registry, user
    MCInstall        small catalogs and projects for TLC
    InstallProofs    theorems about Install
Autocomplete   the picker                       MCAutocomplete    AutocompleteProofs
Login          login, logout, whoami                              LoginProofs
SetupPlacement setups and rules of an agent     MCSetupPlacement  SetupProofs
BrowseLaunch   the daemon and its command line  MCBrowseLaunch    BrowseProofs
TabExclusion   what the lock around CDP calls promises (abstract)
  CdpLock      the chains of promises that implement it
                                                MCCdpLock         BrowseProofs
BrowseTabs     tabs and browser contexts        MCBrowseTabs      BrowseProofs
Terminal       daemon, agent and sidebar        MCTerminal        TerminalProofs
IosDaemon      grants, tokens, tunnel, app      MCIosDaemon       IosDaemonProofs
Gbrain         two stages of the sync           MCGbrain          GbrainProofs
```

### Lockfile

A lock entry is `[arc, parent]`: the archive (a model value that stands for its
bytes, so that equality is equality of the sha) and the ref of the parent. The
entry's `aipkgRef`, `version` and `sha` are those of the archive. What an
archive decodes to is the constant `Content`. `Slot` is a pair of deps bucket
and entry key, and `SlotOf` says which slot a package has: two packages share a
slot when the code gives them the same `entryKey`.

`UpsertEntry`, `RemoveEntry`, `ResolvePkgRef`, `CollectSubtree`,
`LineConflicts`, ... are the methods of the class with the same names.
`CollectSubtree` is the set the breadth-first queue of the code visits; the
order in which entries are visited is chosen freely by whoever uses it.

### Install

Each process runs one command at a time: `install` (one typed reference),
`installAll`, or `remove`. Its program counter `pc` moves through

```
readLock [seedLock] / readManifest [seedManifest]   -> plan
plan -> fetch -> mirror -> place* -> record -> (next package: fetch | saveManifest)
plan -> unplace* -> unmirror -> saveManifest
saveManifest -> saveLock -> idle
```

and an action ends where the code awaits. `Fetch` is `hydratePkg` up to and
including the SHA guard (the stale pin is dropped and the archive compared in
memory, so nothing can come between); `MirrorAndClaim` mirrors and claims the
statusLine; `PlaceAsset` writes one asset for one agent; `Record` is the
upserts of children and package followed by putting the dependencies on the
agenda; `PlanRemove` clears the copy of the lockfile, `Unplace` deletes one
slot of one agent, `Unmirror` the mirror. `*Fails` actions are the errors the
code throws itself; `Die` is a kill or any failed call at the points of
`CrashPoints`, and may leave the mirror being rewritten wiped. `SeedLock` and
`SeedManifest` are the writes of an empty file by a command that found none,
also over what another command has put there since.

The recursion of `hydratePkg` into `resolveDeps` is the sequence `agenda`: the
head is being hydrated, dependencies go in front of the rest, which is the
order of the depth-first recursion. `late` items are resolved through the
lockfile when their turn comes (`resolveDeps`), the tasks of `installAll` before
the first is hydrated (`collectTasks`).

Around the commands, the registry publishes versions and republishes them as
other builds, the user sets targets and declares dependencies by hand.

Abstractions: a file that was not there and an empty one have the same content,
and `missing` tells them apart; a write of a JSON file is one step (a torn file,
which no later command can parse, is left out); the parent a statusLine claim
records is left out, because nothing reads it; in a removal, pins and claim are
cleared in the copy at once and the files afterwards, which nobody can tell
apart, since the copy is private; only agents of `LineTarget` have a statusLine;
skill directories that codex and open-std share are not told apart; hooks, MCP
servers and scripts of a setup are one asset at the slot of its package, which
SetupPlacement looks into.

### Autocomplete

One event loop; every handler is an action. `Type` is the `userInput` event with
a value, `Arrow` the `userInput` event an arrow key fires first, followed by
`cursor`; `Fire` the timer, `Answer` and `Fail` the two continuations of
`source`, in any order and also after the prompt has closed; `Close` Enter or Esc. Texts are
atoms; the row a text is highlighted in counts from 1. `typed` is a history
variable: the text of the user's own last edit.

### Login

`StartLogin` is everything up to the wait on the loopback server. While
`pending`, `Callback` (a code, with the login's own state or another),
`StrayCallback` (no code or state) and `Timeout` compete. After the exchange
the token and the user are each stored by reading the file (`ReadFile`; `Seed`
when there is none), and writing it back (`WriteFile`), and the result is read
once more for the report. `logout` reads, signs out and deletes, `whoami` reads.
A code and the token it is exchanged for are represented by their account.
`Overlay` is AIPKG_TOKEN, which `resolve` puts in place of the token it read.
Requests that reach the server once the wait is settled find `pending` null and
change nothing. A command may be killed anywhere (`Die`), also between the two
rounds that store a session, and any commands may overlap. `chosen`, `crossed` and
`torn` are history variables: who answered logins, which logins store while another
does (`Storing`), and whether the last to store a token was cut short before its
user or crossed another.

### SetupPlacement

`Agent.install` and `Agent.remove` of one agent, for a setup or a rule, as lists
of tasks (`InstallTasks`, `RemoveTasks`), each an awaited call. A task that
rewrites a file is two steps: `ReadCopy`, then the action that writes the changed
copy back, so that a user's edit in between is lost, as it is in the code. `agent`
says which layout: tags in the entries (Claude and open-std, whose modules differ
in paths only), or codex, with bare server names and a ledger; `Key`, `Tag`,
`RemoveOwnedServers` and the lists of tasks are where they differ.
`CheckStatusLine` and `ClearStatusLine` are the two reads of
`clearOwnedStatusLine`. A rule is a file, written or removed in one call, or, on
codex, a block of AGENTS.md between markers with its slug (`UpsertBlock`,
`StripBlock`), where the user has prose of his own. `Finish` is what the caller
does to the lockfile's claim. The server the user configures (`UserServer`) may have
the bare name of one a bundle brings; the user adds it where the name is free
(`EditServer`). Codex has room for one server of a name, and `GivenUp` says from when
on the user's is no longer among those `kept`: from the install of a bundle that
brings the name, or the removal of the package the ledger has for it.

An entry records the tag the code gives it and, as `from`, the bundle it came
from, which stands for what it says; the code never reads `from`. `status` and
`kept` are history variables. Scripts are never cleared before an install, as in
`writeFileTree`. Left out: other top-level keys of `.mcp.json`, which
`mcpConfig.write` drops while `config.toml` keeps them; the blank lines `tidy`
collapses in AGENTS.md, and that a block moves to its end; subagents and skills,
which are a file and a tree of their own on every agent; several targets, whose
files are disjoint and which are served one after the other; two commands at a
time, which lose updates as two users of an editor would.

### BrowseLaunch

Every invocation of the command line is a process with a program counter, and so
is every daemon (`unused`, `booting`, `up`, `hung`, `closing`, `dead`):

```
start -> probe -> [lock -> created -> locked | stale | wait] -> term -> kill -> spawn -> await -> send
start -> connect -> [term -> kill ->] spawn -> await;  start -> disconnect -> term -> kill
```

`ReadState` is the state file read, `Probe` the health check and what follows
from it (use, refuse because of other flags, replace after an update, refuse
because a headed daemon lives but does not answer, or go for the lock).
`AcquireServerLock` is two steps because the lock file is created before the pid
is written into it, and `RemoveStaleLock` unlinks whatever is there. `Term` and
`Kill` are `killServer`, `Spawn` and `Await` `startServer`, `LostConnection` the
retry of `sendCommand`, which starts a daemon without the lock. `releaseLock` says
who has a lock to release: not those who start a daemon after an update, a lost
connection or `connect`. The daemon's actions are `Boot` (which writes the state
file), `EndShutdown` and `Crash` (which remove it, whoever it names). A state
file names a pid, a port and a token; all three are the daemon, but for the
well-known port that the daemons of `connect` share (`AtPort`, `fixed`). A daemon is
started headed by `connect` or with `--headed` (`Shown`), and the state file keeps the
mode it started in (`recorded`), which is what the command line goes by. A page
command may be `handoff` (`Handoff`): the daemon then shows its browser (`headed`) and
goes by that itself, while the file still says launched. Left out: the supervisor
loop one may opt into, `pair-agent`, Xvfb, BROWSE_NO_AUTOSTART, and that a handoff
may fail before anything is shown, which is a page command like any other.

`excused` is a history variable: daemons the lock does not protect from a second
one, because they were started without it, or removed from the file, hung, or were
booting when nobody waited for them any more or when the lock file was removed under
the one who did, by its own timeout, by another's release or as stale. `OneServer` is
about the others.

### CdpLock and TabExclusion

A call takes a ticket and waits for the tails it finds (`Acquire`), its own link
becoming the tail; the link resolves (`Resolve`) when what it waits for has
resolved and the call has released it. `AcquireTimeout` gives up waiting,
`BridgeTimeout` abandons a call that Chromium has. TabExclusion is what a caller
sees: a call waits, holds, or is through; it is granted when no conflicting call
made before it is still there and none holds the lock. `Phase` maps the one to
the other.

### BrowseTabs

A page has every tab id it was ever listed under; ids only grow. A request goes
through `Start` (pin of another tab, check of ownership), the handler, and `End`
(back to the tab that was active). Handlers that replace the context are split
into `Save` (all that is saved, at once), `ClosePages`, `NewContext`, `ClearOwners`,
`RestorePage`, `RestoreEnd`, with `Fallback` and `Blank` where recreating fails and
`LaunchHeaded` and `UndoHandoff` for a hand-off to a visible browser. `PageCloses` is a
page closed by anybody at any time. `by` and `orphaned` are history: who opened
each tab, and which tabs a restore has taken the owner from because they were
opened while it was running. What a command has saved is a set of pages (`left`),
restored in the order of their ids; that `saveState` awaits each page in turn, so that a
page may close or be adopted while others are read, is left out. What commands do on a page, cookies, storage and
frames are left out.

Definitions of CdpLock and BrowseTabs that other modules would also call `Spec`,
`Next`, `TypeOK` or `Goto` are named for their module (`LockSpec`, `TabsSpec`, ...), so
that one module of proofs extends both and BrowseLaunch.

### Terminal

Three parties: the sidebar (`Call`, sockets that come and go), the daemon
(`PtySession`, `Reattach`, `RestartOrDispose`, `Grant`; leases that expire) and the
terminal agent (`Open`, `MaybeSpawnPty`, `Close`, `DetachTimer`, `InternalRestart`,
`Dispose`, `KillTimer`, `Exited`). A request to the daemon is a call in steps,
because the daemon asks the agent and awaits the answer. The agent learns that a
socket is gone some time after it went. `Respawn` is the watchdog: the agent dies
with its memory and its processes with it. Terminal output, its replay and
resizing are left out.

### IosDaemon

The owner's tool rewrites the allowlist in two steps (`CliTruncate`, `CliWrite`);
a mint or an audit that reads it in between finds none. A request to mint reads
the file (`MintLoad`) and mints (`Mint`); a request to the device validates its
token (`Validate`), gets the tunnel (`GetTunnel`, or `Launch`, `CopyBootToken`,
`Rotate`, `SetTunnel`), and is carried out (`Proxy`) by the app, which checks the
token it has (`Works`) and the session (`SessionAfter`). The app restarts with a
new boot token, which is good once. `granted` and `out` are history: the highest
tier ever granted, and who was removed with all tokens revoked. A request is one of a
few kinds, and `TierOf` is the tier its path is classified as. Left out: the text of
URLs, so that the path `index.ts` classifies and the raw URL `proxy.ts:56` forwards are
one and the same; the pid file that keeps a second daemon from starting, the audit
log, request bodies.

### Gbrain

Each run takes the lock (or takes over one that is older than five minutes),
runs the code stage (`RemoveLegacy`, `Plan`, `Register`, `Walk`, `Count`,
`RemoveOrphaned`: each a call of gbrain, or two, between which other runs act) and the
memory stage (`Decide`, `Prepare`, `Stage`, the external import, `Record`), and
unlocks. A staging directory is a record of the files and versions in it; the
state file maps files to the version stamped. The import is external: it lands
some of the files, writes a checkpoint, and succeeds or fails. After it the run reads
what failed (`ImportEnds`): all of it, or what of it could be read, and of a directory
that was resumed nothing, because there is no map back to the sources (`Mapped`). What
it does not know of (`unseen`) it stamps. `Terminated` is the signal handler, which
keeps a directory that has a checkpoint. `SourceEmptied` is somebody who removes the
new source, or its pages, by hand. `excused` and `emptied` are history: files stamped
without having landed, for the reasons `Record` names, and runs whose page count such
a removal has made untrue.

## 3. Runs

| Run | Question | Result |
|---|---|---|
| `install` | one process, three commands, kills and failures at every point that leaves a trace on disk except between the two writes, two changes of the world | all hold (2.1 million states) |
| `install_pair` | two commands at once, on a project that is new or was checked out locked while the registry has moved on; a kill between the writes too | all hold, both commands end |
| `install_upgrade` | is an upgrade of a box accepted? | violated, see Disagreements |
| `autocomplete` | four keys, answers late, failed and out of order | all hold |
| `login` | two processes, two accounts, four commands that overlap at will, stray callbacks, timeouts, a kill anywhere | all hold, every command ends (52 thousand states) |
| `setup` | both layouts, two setups and a rule, four installs, upgrades and removals, an edit of the user at any time, also of a server of a name a setup brings, kills | all hold (368 thousand states) |
| `browse_launch` | every two of page (with `--headed` or not, or a handoff), stop, connect and disconnect at once, three daemons, one crash, hang, kill, idle shutdown or update, on a project without a daemon or with a headed one | all hold, every command ends (904 thousand states) |
| `cdp_lock` | four calls on two tabs or the browser, any of which gives up or is abandoned | all hold, TabExclusion is implemented, every waiting call is served |
| `browse_tabs` | a command that replaces the context beside any command that uses tabs, or beside a change of scale, two failures | all hold (4.4 million states) |
| `terminal` | two calls, sockets, sessions and processes, two faults (expiry, lost socket, respawn) | all hold, what is left ends |
| `ios` | one identity, two requests, the owner's tool, two launches of the app | all hold (3.5 million states), no deadlock |
| `gbrain` | two overlapping runs, a file in two versions, one fault | all hold (6.3 million states) |

### Properties that hold

- `PinsKept`: `aipkg install` never changes nor drops a pin it read, however the
  references it hydrates resolve and whatever bundled children and dependencies
  it records on the way.
- `PinnedArchiveOnly`: what it installs for a slot that was pinned is the pinned
  archive, even when the registry serves another build of the same version.
- `InstalledInSync`: when an install is about to write its files back, each
  package it was asked for is pinned, its pinned archive lies in every target and
  in the mirror, also when it retries after a failure half way or the targets
  have changed.
- `TopLevelTracked`: between commands no pin without parent lacks a manifest entry.
- `ClaimedLineKept`: a statusLine that has an owner is never replaced by another.
- `EveryCommandEnds` (Install, Login); of Install where dependencies are acyclic, as in
  every catalog of the runs: on a cycle the recursion does not end.
- `HighlightShown`, `RowsOfLastText`, `TextGetsRows`: the
  highlight is on a visible row; once quiet, the rows are those of the last text;
  the text left standing gets its rows.
- `OneSessionOnFile`: token and user on file are of one account whenever no login is
  between storing the one and the other, unless the last login to store was killed
  there or crossed another one that stored. So a mixed session, which the code does
  leave (`WholeSession`, below), lasts until the next login that stores by itself, or
  the next logout, whatever other commands read, seed and delete. `OnlyChosenAccounts`: no account gets on
  file that did not answer a login with that login's own state.

- `OnlyOwnEntries`: a command changes scripts, hooks, servers and ledger lines of
  its own package only, whatever it writes back. `UserKept`: nor does it lose what
  the user wrote before it started, but for a statusLine where a bundle with one is
  installed, and a server of codex whose name a bundle brings (`SetupServer`, below).
- `InstalledStays`: after an install, also a retry or another version, everything
  of that version is there and stays while others come and go. `RemovedIsGone`:
  after a removal nothing of any version is left, whatever died before.
- `OneServer`: of the daemons that were started under the lock and are not
  excused, at most one runs. `HeadedKept`: a daemon that was started headed and
  lives is ended by a command only if that is its purpose, after an update, or after it
  lost the connection. Not so of one that a handoff has shown since
  (`BrowseLaunchHandoff`, below). `CommandEnds`.
- `Exclusive`, `Implements`, `Served` (CdpLock): conflicting calls exclude each
  other, in order; a waiting call is served though it never gives up itself.
- `ListedAlive`, `OwnershipKept`, `ScaleTracked` (BrowseTabs): no tab id names a
  page that is gone; a tab is owned by the agent that opened it, and nobody else,
  under each id it gets; when no command runs, the context has the scale recorded.
- `NoZombie` (Terminal): a socket the agent believes in leads to every running
  claude, or a timer will stop it. `RunsWhileAttached`: a claude whose sidebar is
  attached is stopped by a restart or dispose of its own session, or by another
  socket of the session closed on purpose, by no old timer and nobody else's
  restart. `LeftEnds`: a claude whose sockets are all gone is stopped, or somebody
  attaches again.
- `ServedWithinGrants`, `RevokedCutOff`, `TunnelWorks` (IosDaemon): a token
  carries no more than was granted; an identity removed, entry and tokens, has no
  token left; a tunnel the daemon keeps is answered by the launch it was made for.
- `RecordedLanded` (Gbrain): a file recorded as ingested is in gbrain in that
  version or a later one, as long as runs do not overlap; excused, until they land after
  all, are files gbrain failed on without the run knowing (it had resumed, or could not
  read the failures) and files stamped in a version that was not staged (`GbrainStamped`,
  below). `PagesKept`: when the pages of the path-hash source go, the source that
  replaces it has some. They are counted in one call of gbrain and removed in another,
  and overlapping runs rename, register and walk in between; excepted is a new source
  that somebody empties by hand in between. The oldest form of the source is removed
  without a count (`GbrainLegacy`, below).

Autocomplete, Login and SetupPlacement have a `TypeOK` as well, which no listed
run checks, since it says nothing the other properties would miss. Those of
Autocomplete and Login are proved.

### Disagreements

`install_upgrade` is a listed run: `UpgradeAccepted`. `hydratePkg` drops the
package's own stale pin so that an upgrade is not rejected, but a box is rejected
by the pins of its bundled assets. The other configurations are not among the
runs; each is there to be run by hand (`tlc -config X.cfg M`) and ends in a
short, legal use of the program that contradicts the line quoted (for `LoginHalves`
there is none to quote: it shows why `OneSessionOnFile` says no more than it does).

| Configuration (module) | Property | The source says | What happens |
|---|---|---|---|
| `InstallSlug` (MCInstall) | `DepAsDeclared` | `deps-resolution.ts:6`: "If we find an existing entry in the lockfile with same type and slug, we will throw a ConflictError" | the locked package is installed instead of the declared one |
| `InstallSibling` (MCInstall) | `SiblingsSurvive` | `lockfile.ts:119-121`: collectSubtree collects "the child deps of the root ref" | the pin of a bundled asset has the ref of the box; removing the asset takes the box's other children along |
| `SetupUpgrade` (MCSetupPlacement) | `ReinstallReplaces` | `hooks-format.ts:29-30`: tagged "so reinstalls replace prior entries" | hooks for an event the next version no longer uses stay |
| `AutocompleteEnter` (MCAutocomplete) | `HighlightInstalled` | `interactive.ts:7-8`: "installs the highlighted package on Enter" | rows that arrive while one is highlighted change the highlight and not the input Enter submits |
| `AutocompleteArrow` (MCAutocomplete) | `TypedByUser` | `autocomplete.ts:31`: typedQuery is "the last text the user actually typed" | after that, a key takes the arrow-filled ref for typed text |
| `SetupServer` (MCSetupPlacement) | `UserServersWrittenBack` | `placement/src/targets/codex/README.md:100-102`: "A user's hand-written keys and values are preserved" | an install writes a bundle's server over the user's of the same name (`mcp-config.ts:84`), and the removal then takes it |
| `LoginHalves` (Login) | `WholeSession` | no promise in the code: `auth.ts:58-59` stores token and user one after the other | a kill in between, or another login's two writes, leaves the token of one account beside the user of another |
| `LoginEnv` (Login) | `LoggedInAsNamed` | `login.ts:10`: "Logged in as" the new user | with AIPKG_TOKEN set, the second round of a login writes the variable's token over the session's |
| `BrowseLaunchLock` (MCBrowseLaunch) | `LockExclusive` | `browse/src/cli.ts:287-288`: "Acquire an exclusive lockfile to prevent concurrent ensureServer() races" | a lock file still empty counts as stale, so two invocations have the lock |
| `BrowseLaunchHandoff` (MCBrowseLaunch) | `ShownKept` | `browse/src/cli.ts:368-370`: "never silently replace a headed server with a headless one", "a user-visible Chrome window is (or was) controlled" | after a handoff the state file still says launched, so that a daemon with a visible browser that is slow to answer is killed and replaced by a headless one |
| `TerminalOutput` (MCTerminal) | `OutputSeen` | `browse/src/terminal-agent.ts`, on re-attach: output "goes to whichever ws is currently attached" (468) | the late close of the old socket detaches a session that was re-attached: output goes nowhere |
| `TerminalGrace` (MCTerminal) | `KilledAfterGrace` | `browse/src/terminal-agent.ts:353` ff.: "SIGINT, then SIGKILL after 3s" | dispose clears `session.proc` before the timer reads it: no SIGKILL is sent |
| `IosDaemonTunnel` (MCIosDaemon) | `TunnelKept` | `ios-qa/SKILL.md`: "daemon auto-reconnects within 30s" | a refresh that fails puts null in place of a tunnel that works |
| `GbrainStamped` (MCGbrain) | `OnlyLandedStamped` | `gstack/bin/gstack-memory-ingest.ts:1665`: "Only files that landed in gbrain get" stamped | a file edited after staging, not staged by a resumed run, or failed without the run being able to read it (1029-1033), is stamped as it is now |
| `GbrainLegacy` (MCGbrain) | `LegacyKept` | `gstack/bin/gstack-gbrain-sync.ts:783-784`: "Removing before sync would create a data-loss window if sync failed" | step 0a (657-678) removes the oldest source before anything is registered; when the sync then fails, no source has the pages |
| `GbrainNotes` (MCGbrain) | `NotesKept` | `gstack/bin/gstack-memory-ingest.ts:1266-1271`: "at worst we leak a staging dir" | the directory of an import the user had started is resumed, then removed |

### Bounds and why they are enough

`MaxCommands`, `MaxChanges`, `MaxKeys`, `MaxEdits` count commands, changes of the
world, keystrokes and a user's edits, and are in guards only.

- `install`: packages B (a box that bundles a skill, has a statusLine and
  depends on R; three versions, the last empty), R (a rule in two versions, one
  of them in two builds), S (a setup with its own statusLine). Three commands are
  an install, one that fails or is killed, and a retry or a removal; two changes
  are a republished build and a new version, or one of them and new targets. Two
  target lists, of one and two agents, of which one takes a statusLine.
- `install_pair`: one command per process from three starting points; both pins
  of the rule, the one that is the registry's build and the one that is not.
- `autocomplete`: a seed with three rows of which two are shown, a longer query
  and full refs with one row, the empty text; four keys are enough for a fill, a
  late answer, and two keys after it.
- `login`: two processes make commands overlap; the other two commands come
  before and after.
- `browse_launch`: two invocations are enough for a race; three daemons are the
  one left from before, if any, and one per invocation or its retry; a start beyond them does not come
  up, as any may. One fault can hit between any two steps. Two pages also run with
  different flags, of which one is `--headed`.
- `cdp_lock`: four calls put a browser-wide one between calls on tabs and one
  behind it. `browse_tabs`: two requests, three scales, since two requests may each change it;
  tabs and contexts are not used up, so that the guards of `Register` and `Replace`,
  where their bounds are, never bite.
- `terminal`: two sessions and sockets, for a re-attach while the old socket
  closes, or a restart beside another session.
- `ios`: tiers 0 and 1 tell a granted request from a higher one; two launches make
  a boot token stale. `gbrain`: two versions of one file, two staging directories.
- `setup`: `tools` in two versions that move the hook, add a server and a script
  and drop the statusLine, `guard`, which hooks the same event and has a
  statusLine, and `style`, a rule; four commands are an install, a killed upgrade,
  a retry or removal, and one of another package. One edit puts a hook, a server, a
  statusLine or prose of the user before, between or after: entries of the user do
  not interact with each other, so one at a time is enough.

`CHECK_DEADLOCK FALSE` everywhere but in `ios`: commands, changes,
keys, calls and edits are bounded, and a
user may stop. Symmetry is used in `ios` (requests) and `gbrain` (runs), which are
interchangeable and check no liveness; elsewhere packages, commands or accounts
differ, or the run checks liveness.

The `install` run leaves out one crash point: between the write of the manifest
and that of the lockfile. A removal killed there leaves a pin without a manifest
entry, which is what the code does and has no recovery for. `setup` likewise leaves
out those between a codex server and the record of its owner (`Recorded`):
the server is then in nobody's name, and only another install makes it removable.

The packages of `setup` have refs that do not nest (`Siblings`) and servers with
different names, which `SetupProofs` states as `Apart` and `NamesDiffer`: the script directory of `acme/tools` contains that of
`acme/tools/x`, so removing the former would take the latter's scripts, and codex
gives a server to the last bundle that ships its name, as its README says.

### Fairness

`FairSpec` of Install and Login is weak fairness of each process's `Step`: Node
runs the continuation of a settled promise, requests and file operations settle,
and timers fire. Starting commands, callbacks of a browser, kills and changes of
the world are never required. `FairSpec` of Autocomplete is weak fairness of the
timer and of the answers together, not of any single key.

`FairSpec` of BrowseLaunch is weak fairness of each invocation's `Step` (its polls
have deadlines, its sleeps end) and of `EndShutdown`, which the daemon's own
timeouts bring about; that a daemon boots, answers or recovers is never assumed.
`FairSpec` of CdpLock is weak fairness of each call's promises and of its own
timeout once it holds the lock, not of giving up while it waits. The timeout covers
`session.send` only: that Chromium gives or refuses the session before it
(`newCDPSession`, `cdp-bridge.ts:162`) is assumed, and with a Chromium that does neither
the lock is never released. `FairSpec` of
Terminal is weak fairness of the agent's close callbacks and detach timers, of
nothing else: not of the sidebar, the daemon, or a process that ought to exit.

## 4. Proofs

`InstallProofs` proves, for every catalog, registry, set of processes and
targets, and for every bound:

- `TypeCorrect == Spec => []TypeOK`, through `TypeInv == TypeOK /\ \A p :
  Shape(p)`: `Shape` says what a command holds at each control point (an agenda
  that is not empty while it hydrates, an archive from `mirror` to `record`, ...),
  without which `Head`, `Tail` and `Content[cur[p]]` could not be typed.
- `Reproducible == NoAliasing => (Spec => []PinsKept)` and
  `PinnedInstalls == NoAliasing => (Spec => []PinnedArchiveOnly)`, through
  `PinInv`. A pin is lost only where `hydratePkg` drops one of another version,
  so it has to be known that a reference whose slot was pinned asks for the
  version pinned. For late dependencies that follows from resolving through the
  lockfile (`ResolvedSameVersion`), provided that the entry at a package's slot
  is of a package of that slot (`OwnPins`). For the tasks `collectTasks` resolved at
  the start it has to be carried along (`AgendaPinned`), because the lock
  changes before their turn comes. `NamedAsServed` gives that the archive
  fetched is of the package asked for.

Three theorems are about commands that run one at a time (`OneAtATime`, a single
process; how many commands it runs is not bounded, and it may die anywhere). Two
at once write back copies of the same files, so that one drops the other's pins and
claims: all three are false then, which is a limit of the code and not of the
proofs.

- `ClaimRespected == OneAtATime => (Spec => ClaimedLineKept)`. The claim is read
  before the download and used after it; `ReadInv` says that the lockfile and the
  manifest a command works on are those on disk until it writes them, `ClaimInv` that
  what it is about to place was admitted against that claim.
- `TopLevelDeclared == OneAtATime /\ SavedWhole /\ NoAliasing /\ CheckoutsFiled /\
  CheckoutsTracked => (Spec => []TopLevelTracked)`. A pin without a parent is made by
  a task of the agenda that is not late, and such a task is one of the manifest
  (`AgendaInv`), which a command in progress may still have to write (`TrackInv`).
  `SavedWhole` excludes the kill between the two writes at the end, as the run
  `install` does; `CheckoutsFiled` and `CheckoutsTracked` say that a project starts
  out with each package declared under its own slot and with nothing locked at the
  top level that it does not declare.
- `InstallComplete == OneAtATime /\ NoAliasing /\ CheckoutsFiled => (Spec =>
  []InstalledInSync)`. The invariant `SyncInv` follows a package through the
  recursion: asked for and not yet served, it has a task (`Pending`); once recorded
  its slots are pinned to its archive (`PinnedTo`), its assets lie in every target
  and the archive in the mirror (`InPlace`), and it stays so: to drop a pin of
  another version leaves a task that records it again, and an archive of another
  package that writes over these assets will be refused when it comes to recording
  it, which fails the whole install (`Doomed`).

Assumptions: `LockfileAssumption` and `InstallAssumption` (types of the
constants; the registry serves an archive under the package and version its own
manifest names; slots are finite; no pin is the word for "none"), and `NoAliasing`: no asset bundled in a box
has the slot of a package, and the lockfiles a project is checked out with keep
that. Without it the theorem is false: the pin of a bundled asset resolves to
the box (`DepAsDeclared`, `SiblingsSurvive` show neighbouring effects), so
a declared package at that slot would be replaced by the box. It is a hypothesis of the theorems, not
an ASSUME, so that the runs with such catalogs (`InstallSibling`) stay legal.

`BrowseProofs` is about the three models of the browser daemon. Of CdpLock it proves,
for every set of tabs and number of calls (assumed: `LockAssumption`, the browser is no
tab), `LockTypeCorrect`, `MutualExclusion == LockSpec => []Exclusive` and `Refinement ==
LockSpec => Implements`. Exclusion is not inductive, because a call waits only for the
tails it found, not for every conflicting call before it. Each earlier one is at a tail
or behind a call that conflicts with it too (`TailsLast`, `Covered`), so that a link
resolves only after all conflicting ones before it (`InOrder`), and not before its call
is through (`ResolvedFree`); a call holds only after what it waits for
(`HeldAfterWaits`). With them every step maps to a step of TabExclusion or to none.

Of BrowseLaunch, for any number of invocations, daemons and faults (assumed:
`LaunchAssumption`, the types of the constants):

- `TypeCorrect == Spec => []TypeOK`.
- `OneDaemon == Spec => []OneServer`. Leave the excused daemons aside. While one boots,
  somebody has the lock and waits for it (`HolderWaits`); one that is up is named in
  the state file (`InFile`), so that who reads it under the lock and finds no healthy
  daemon is right until it has started its own (`NoneUp`, `HolderAt`). Hence one is
  started only where none runs, and at most one runs (`Single`).
- `HeadedSurvives == Spec => HeadedKept`. A kill acts on what was read several steps
  earlier. `KeepInv` carries the reason over those steps: an invocation about to kill
  is a `connect` or a `disconnect` (`InRole`), retries after a lost connection, has
  seen another version, or has seen that there is no headed daemon to keep (`MayKill`);
  and that stays true of the process seen, because it had been started (`Launched`,
  `Named`), the mode it started in is what the file has, and no process is of a later version than the command line
  (`NotNewer`).

Of BrowseTabs, for any agents, any requests at once and any number of tabs, contexts
and failures (assumed: `TabAssumption`, the types of the constants and that the ratio
asked for is valid, which the code checks before it does anything):

- `TabsTypeCorrect == TabsSpec => []TabsTypeOK`. `TabsTyped` adds the local
  variables of every command, and which command can be where (`CommandAt`), which
  the last theorem needs too.
- `TabsAreOpen == TabsSpec => []ListedAlive` is inductive as it stands.
- `TabsKeepOwners == TabsSpec => []OwnershipKept`. A tab registered without an owner
  must not find one under its id (`OrphansFree`), and what a command saved before it
  closed the pages, and restores after others have come and gone, names the owner the
  page had (`SavedFit`).
- `ScaleOfContext == TabsSpec => []ScaleTracked`. The scale is set before the context
  that has it is made, and set back when that fails, so in between the two may differ:
  then a command is at one of the points from which it has still to replace the
  context (`Rescaling`), or the context is closed (`ScaleInv`).

`AutocompleteProofs` proves `HighlightInRange` and `RowsSettle` (the properties
`HighlightShown`, `RowsOfLastText`), and `TimerDies`, that no search starts once
the prompt has closed. That the rows are those of the last text needs to be known
before the prompt is quiet: the timer, if set, holds the text last scheduled
(`Scheduled`), and a search with the newest number is for that text (`Newest`),
because numbers are never ahead of the counter (`Numbered`).

`LoginProofs` proves `TypeCorrect`; `ChosenOnly == EnvToken = None => (Spec =>
[]OnlyChosenAccounts)`, by what every copy of the credentials and every code may
hold (`Provenance`); and `OneSession == EnvToken = None => (Spec =>
[]OneSessionOnFile)`, for any number of processes that overlap and are killed
anywhere. A login that has crossed no other is the only one that stores (`Apart`),
and when it comes to store its user it finds the token it stored, or none
(`OwnToken`), whatever is read, seeded and deleted around it. The hypothesis is needed: a token in the environment is stored as if
it were the session's (`LoginEnv`).

`SetupProofs` proves the four properties of its run, for every catalog, every
set of points at which commands may die and any number of commands and edits.
A command writes back copies of files, so the common invariant `IInv` has to say
that what it copied of the bundles is what the file still has (`Fresh`: only the
user writes meanwhile), that every entry leads to its owner, by tag or by the codex
ledger (`Tagged`), and that a task is one its command could have (`Underway`).

- `UserEntriesKept == Spec => []UserKept` holds for every catalog, also for one that
  brings the name of the user's own server: what the user wrote while nothing ran is in
  the file and in every copy taken of it (`Polite`), but for what the property itself
  excepts, and no task that is left touches it (`Spared`).
- `Ownership == Apart /\ NamesDiffer => (Spec => OnlyOwnEntries)`, with the hypotheses
  that the bounds of `setup` describe: script directories do not nest, and on codex
  no two packages have a server of the same name.
- `InstalledStaysInPlace`, under the same hypotheses: `InstalledStays`. Of an
  installation under way, each thing the bundle brings is there or a task is left that
  will put it there, and no task of another package can take it.
- `RemovedLeavesNothing == Apart /\ NamesDiffer /\ OwnersRecorded => (Spec =>
  []RemovedIsGone)`. A removal finds what it takes by the tag, and on codex by the
  ledger, so the invariant says that the ledger has the owner of every server on file.
  An install killed between the server and the record (`OwnersRecorded` excludes
  that, on codex only) leaves a server nobody owns, and the theorem is false.

Assumed: `SetupAssumption` (types; a bundle that is a rule brings nothing else, as
the code has one path for each) and `NoneAssumption`.

`IosDaemonProofs` proves `TypeCorrect`, `NoTierBeyondGrant`, `TunnelCarriesToken`
and `RevocationHolds` (`TypeOK`, `ServedWithinGrants`, `TunnelWorks`,
`RevokedCutOff`), for any identities, requests, runs of the tool, tokens and
launches. Each needs to bound what is copied, not only what is there: every copy of
the list and of an entry is within the grants (`ListsWithinGrants`); a tunnel a
request is about to set fits the launch it was rotated for (`Fits`); no copy names
an identity taken off the list (`OffEveryList`). Assumed: `TiersGranted`,
`KindsKnown`, `BoundsPositive`, `NamesApart` (identities are not the words the
model uses for "none" and "this machine").

`GbrainProofs` proves `TypeCorrect`; `PagesSurvive == Spec => PagesKept`: what a run has
counted is still so when it comes to remove (`Counted`), because overlapping runs rename
only onto an id that is free and a walk takes no pages away; and `RecordsTrue == Spec =>
[]RecordedLanded`: while no runs have overlapped, one run is at work (`Alone`), what is
staged, resumable or checkpointed is never older than what is recorded, and what a run
has imported and does not know to have failed, or to have missed, has landed (`Current`,
by `Newer` and `CurrentFor`), so that recording it cannot go back. Assumed: `GbrainAssumption` (bounds and names).

`TerminalProofs` proves, for any number of sessions, sockets, processes and
failures, `NoZombies == Spec => []NoZombie`, `TypeCorrect == Spec => []TypeOK` and
`OthersUntouched == Spec => RunsWhileAttached`, which excepts, as the property does,
another socket of the same session that is closed on purpose. The invariant `ZInv` adds who can be
confused with whom: a token is used once (`Unused`), so a socket that opens makes a
session no process and no socket had before (`Made`); a session that was not
started has no process (`Spawned`), so a start forgets none; processes have numbers
not used before (`Numbered`); and what a session or a kill timer names was started
(`Held`). The other two need the maps as well: what is leased and granted was minted
(`Minted`), and in `Led` a session's id leads back to it (`Named`), a session with a live
socket is not waiting detached for another (`Attached`), and the process a session has
names that session as its host (`Hosted`).
Assumed: `BoundsNatural`.

Every safety property of the passing runs is stated by a theorem. Only model-checked:
liveness (`EveryCommandEnds`, `TextGetsRows`, `CommandEnds`, `Served`,
`LeftEnds`), which needs ENABLED and is out of the prover's reach; what recursive
definitions such as `CollectSubtree` compute for every input, which would need an
induction over data that the provers at hand cannot instantiate. No module uses
RECURSIVE operators; `CollectSubtree` is a recursive function.

## 5. Not modelled, and what is left

Modelled: what `aipkg` keeps on disk and in memory across calls (install, remove,
lockfile, mirror, placement of setups and rules, picker, login), and of the
programs shipped with it those in which several parties share state: the launch
of the browser daemon, its CDP lock, its tabs, the sidebar's terminal, the iOS
daemon and the gbrain sync.

What would come next, in this order:

1. `Publish` (`cli/src/actions/publish/publish.ts`): bump, upload, write-back, with
   a crash after the upload. It is short and sequential; a manifest that names a
   version that was never uploaded is the one thing to look for.
2. `ConfigFiles` (`cli/src/files/config.ts`): read-modify-write and migration of
   `config.json`.
3. An abstract store of what a project has installed, and Install with one process
   shown to implement it; orphans after upgrades of a parent, shared dependencies
   and packages first installed as a dependency. No doc says what should become
   of them, so that the abstract store would have to decide it first.
4. The pid file and the audit of the iOS daemon, the supervisor loop of the browser
   daemon, the pairing of remote agents (`browse/src/token-registry.ts`).

The runs are few on purpose. A new module gets one passing run; where it needs a
run for a disagreement, one that an upstream fix has settled makes room.

Not modelled, and why:

- Archive and manifest parsing and validation, references as strings, ignore
  patterns and directory walks: pure functions on text and bytes.
- HTTP, rendering and option parsing, `init`, the one-question prompts: I/O and
  wiring without state that outlives a call.
- Page commands of the browser (`browse/src/write-commands.ts`,
  `meta-commands.ts`, `read-commands.ts`, `snapshot.ts`, `cdp-inspector.ts`,
  `cookie-import-browser.ts`): each is one call, or a dozen in a row, of Playwright
  or SQLite, whose effects are in the browser; the state they share with each
  other, tabs and contexts, is in BrowseTabs.
- Rings of console and network events, activity streams, domain skills, the security
  classifiers: append-only buffers and text analysis.
- The text of memories and pages the gbrain sync transcribes, and its heuristics.
- The remaining contents of `src/aipkgs`: prompts, documents and one-shot scripts.

Most of the implementation lines are of these kinds, in files of
the gstack package that run to thousands of lines. That is why the map covers about
a tenth of all lines, although it covers the control flow of the components above.
