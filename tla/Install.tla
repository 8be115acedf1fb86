------------------------------- MODULE Install -------------------------------
(***************************************************************************)
(* `aipkg <type> <ref>`, `aipkg install` and `aipkg <type> remove <ref>`   *)
(* (cli/src/actions) running in one project directory.                     *)
(*                                                                         *)
(* Each command reads the lockfile and the manifest, works on its copies   *)
(* while it downloads archives and places their assets, and writes the     *)
(* manifest and then the lockfile back.  Every await of the code ends an   *)
(* action, so other commands, the user and the registry may act in         *)
(* between; what runs between two awaits is one action.  A command may be  *)
(* killed, or fail on any call it awaits, at every point of CrashPoints.   *)
(***************************************************************************)
EXTENDS Lockfile

CONSTANTS
    Proc,         \* CLI processes
    Target,       \* agents assets are placed for
    LineTarget,   \* agents whose settings file takes a statusLine
    TargetLists,  \* values of the `targets` setting
    Request,      \* references a user types or declares
    Published,    \* the registry at the start
    Checkouts,    \* manifest and lockfile a project is checked out with
    MirrorOn,     \* the `mirror` setting
    CrashPoints,  \* control points at which a command may die
    MaxCommands,  \* bound: commands started
    MaxChanges    \* bound: changes made by the world around the commands

Steps == {"readLock", "seedLock", "readManifest", "seedManifest", "plan",
          "fetch", "mirror", "place", "record", "unplace", "unmirror",
          "saveManifest", "saveLock"}
Files == {"manifest", "lockfile"}
Failures == {"notFound", "shaMismatch", "lineConflict", "empty", "conflict"}

Command == [op : {"install", "remove"}, ref : Request]
             \union [op : {"installAll"}, ref : {None}]
NoCommand == [op |-> "none", ref |-> None]

\* A package still to hydrate: `late` ones are declared dependencies, resolved
\* through the lockfile only when their turn comes.
Item == [ref : Ref, parent : Ref \union {None}, late : BOOLEAN]

Manifests == [Slot -> Ref \union {None}]
NoDeps == [s \in Slot |-> None]

ASSUME InstallAssumption ==
    /\ LineTarget \subseteq Target
    /\ TargetLists \subseteq Seq(Target) \ {<<>>}
    /\ Request \subseteq Ref
    /\ Published \in [Pkg -> [Ver -> Archive \union {None}]]
    /\ \A g \in Pkg, v \in Ver : Published[g][v] # None =>
          /\ Content[Published[g][v]].pkg = g
          /\ Content[Published[g][v]].ver = v
    /\ Checkouts \subseteq [manifest : Manifests, lockfile : Locks]
    /\ MirrorOn \in BOOLEAN
    /\ CrashPoints \subseteq Steps
    /\ MaxCommands \in Nat
    /\ MaxChanges \in Nat

VARIABLES
    manifest,   \* aipkg.json: the deps declared, by slot
    lockfile,   \* aipkg.lock
    missing,    \* the files of these two that are not there yet
    placed,     \* per agent, the archive whose asset sits at a slot
    settings,   \* per agent, the owner and block of its statusLine
    mirrored,   \* .aipkgs/: the archive mirrored for a package
    config,     \* the configured targets
    registry,   \* what the registry serves
    started,    \* commands started so far
    changes,    \* changes of the world so far
    pc,         \* where each command is
    cmd,        \* which command it is
    tgts,       \* the targets it read
    man,        \* its copy of the manifest
    lock,       \* its copy of the lockfile
    base,       \* the lockfile as it read it
    agenda,     \* packages still to hydrate, the current one first
    cur,        \* the archive being installed
    todo,       \* targets still to serve at the head of left
    left        \* assets still to place, or slots still to clear

disk == <<manifest, lockfile, missing, placed, settings, mirrored>>
world == <<config, registry, changes>>
copies == <<tgts, man, lock, base>>
work == <<agenda, cur, todo, left>>
vars == <<disk, world, started, pc, cmd, copies, work>>

Init ==
    /\ \E c \in Checkouts : manifest = c.manifest /\ lockfile = c.lockfile
    /\ missing = {f \in Files : IF f = "manifest" THEN manifest = NoDeps
                                                 ELSE lockfile = EmptyLock}
    /\ placed = [t \in Target |-> [s \in Slot |-> None]]
    /\ settings = [t \in Target |-> None]
    /\ mirrored = [g \in Pkg |-> None]
    /\ config \in TargetLists
    /\ registry = Published
    /\ started = 0
    /\ changes = 0
    /\ pc = [p \in Proc |-> "idle"]
    /\ cmd = [p \in Proc |-> NoCommand]
    /\ tgts = [p \in Proc |-> <<>>]
    /\ man = [p \in Proc |-> NoDeps]
    /\ lock = [p \in Proc |-> EmptyLock]
    /\ base = [p \in Proc |-> EmptyLock]
    /\ agenda = [p \in Proc |-> <<>>]
    /\ cur = [p \in Proc |-> None]
    /\ todo = [p \in Proc |-> <<>>]
    /\ left = [p \in Proc |-> <<>>]

Goto(p, from, to) == pc[p] = from /\ pc' = [pc EXCEPT ![p] = to]

\* The process is gone, and what it held in memory with it.
Forget(p) ==
    /\ pc' = [pc EXCEPT ![p] = "idle"]
    /\ cmd' = [cmd EXCEPT ![p] = NoCommand]
    /\ tgts' = [tgts EXCEPT ![p] = <<>>]
    /\ man' = [man EXCEPT ![p] = NoDeps]
    /\ lock' = [lock EXCEPT ![p] = EmptyLock]
    /\ base' = [base EXCEPT ![p] = EmptyLock]
    /\ agenda' = [agenda EXCEPT ![p] = <<>>]
    /\ cur' = [cur EXCEPT ![p] = None]
    /\ todo' = [todo EXCEPT ![p] = <<>>]
    /\ left' = [left EXCEPT ![p] = <<>>]

(***************************************************************************)
(* Starting a command: targets, then the two files.                        *)
(***************************************************************************)

FirstRead(op) == IF op = "install" THEN "readLock" ELSE "readManifest"

Start(p) ==
    \E c \in Command :
        /\ started < MaxCommands
        /\ started' = started + 1
        /\ Goto(p, "idle", FirstRead(c.op))
        /\ cmd' = [cmd EXCEPT ![p] = c]
        /\ tgts' = [tgts EXCEPT ![p] = config]
        /\ UNCHANGED <<disk, world, man, lock, base, work>>

AfterLock(p) == IF cmd[p].op = "install" THEN "readManifest" ELSE "plan"
AfterManifest(p) == IF cmd[p].op = "install" THEN "plan" ELSE "readLock"

ReadLock(p) ==
    /\ Goto(p, "readLock", IF "lockfile" \in missing THEN "seedLock" ELSE AfterLock(p))
    /\ lock' = [lock EXCEPT ![p] = lockfile]
    /\ base' = [base EXCEPT ![p] = lockfile]
    /\ UNCHANGED <<disk, world, started, cmd, tgts, man, work>>

ReadManifest(p) ==
    /\ Goto(p, "readManifest",
            IF "manifest" \in missing THEN "seedManifest" ELSE AfterManifest(p))
    /\ man' = [man EXCEPT ![p] = manifest]
    /\ UNCHANGED <<disk, world, started, cmd, tgts, lock, base, work>>

\* A file that was not there when it was read is written, empty, whatever
\* another command has put there since.
SeedLock(p) ==
    /\ Goto(p, "seedLock", AfterLock(p))
    /\ lockfile' = EmptyLock
    /\ missing' = missing \ {"lockfile"}
    /\ UNCHANGED <<manifest, placed, settings, mirrored, world, started, cmd, copies, work>>

SeedManifest(p) ==
    /\ Goto(p, "seedManifest", AfterManifest(p))
    /\ manifest' = NoDeps
    /\ missing' = missing \ {"manifest"}
    /\ UNCHANGED <<lockfile, placed, settings, mirrored, world, started, cmd, copies, work>>

\* All the ways to line up a set of slots.
Orders(S) ==
    {q \in [1 .. Cardinality(S) -> S] :
        \A i, j \in 1 .. Cardinality(S) : i # j => q[i] # q[j]}

\* `aipkg <type> <ref>` hydrates the reference as it was typed.
PlanInstall(p) ==
    /\ cmd[p].op = "install"
    /\ Goto(p, "plan", "fetch")
    /\ agenda' = [agenda EXCEPT ![p] =
                    <<[ref |-> cmd[p].ref, parent |-> None, late |-> FALSE]>>]
    /\ UNCHANGED <<disk, world, started, cmd, copies, cur, todo, left>>

\* collectTasks: every declared dep, bucket after bucket, resolved through the
\* lockfile before anything is hydrated.
PlanInstallAll(p) ==
    LET deps == {s \in Slot : man[p][s] # None} IN
    /\ cmd[p].op = "installAll"
    /\ deps # {}
    /\ Goto(p, "plan", "fetch")
    /\ \E q \in Orders(deps) :
          /\ \A i, j \in DOMAIN q : i < j => Bucket[q[i]] <= Bucket[q[j]]
          /\ agenda' = [agenda EXCEPT ![p] =
                [i \in DOMAIN q |-> [ref    |-> ResolvePkgRef(lock[p], man[p][q[i]]),
                                     parent |-> None,
                                     late   |-> FALSE]]]
    /\ UNCHANGED <<disk, world, started, cmd, copies, cur, todo, left>>

PlanNothing(p) ==
    /\ pc[p] = "plan"
    /\ cmd[p].op = "installAll"
    /\ \A s \in Slot : man[p][s] = None
    /\ Forget(p)
    /\ UNCHANGED <<disk, world, started>>

(***************************************************************************)
(* hydratePkg: one package of the agenda.                                  *)
(***************************************************************************)

Wanted(p) ==
    LET item == Head(agenda[p])
    IN  IF item.late THEN ResolvePkgRef(lock[p], item.ref) ELSE item.ref

\* The registry serves a for r: the newest version when r names none.
Serves(r, a) ==
    \E v \in Ver :
        /\ registry[r.pkg][v] = a
        /\ \/ r.ver = v
           \/ /\ r.ver = Latest
              /\ \A w \in Ver : registry[r.pkg][w] # None => w <= v

\* Mutant: the version test is inverted.
SameVersionInverted(L, r) ==
    GetEntry(L, r) # None /\ Content[GetEntry(L, r).arc].ver # r.ver

SameVersion(L, r) ==
    GetEntry(L, r) # None /\ Content[GetEntry(L, r).arc].ver = r.ver

\* Mutant: the pin is dropped before every download.
DropAnyPin(L, r) == RemoveEntry(L, SlotOf[r.pkg])

\* A pin of another version is dropped before the download; "latest" differs
\* from every version.
DropStalePin(L, r) == IF SameVersion(L, r) THEN L ELSE RemoveEntry(L, SlotOf[r.pkg])

\* Mutant: the guard looks at the pins of other versions instead.
ShaMismatchOtherVersion(L, r, a) ==
    GetEntry(L, r) # None /\ ~SameVersion(L, r) /\ GetEntry(L, r).arc # a

ShaMismatch(L, r, a) == SameVersion(L, r) /\ GetEntry(L, r).arc # a

Fetch(p) ==
    LET r == Wanted(p) IN
    /\ Goto(p, "fetch", "mirror")
    /\ \E a \in Archive :
          /\ Serves(r, a)
          /\ ~ShaMismatch(lock[p], r, a)
          /\ cur' = [cur EXCEPT ![p] = a]
    /\ lock' = [lock EXCEPT ![p] = DropStalePin(@, r)]
    /\ UNCHANGED <<disk, world, started, cmd, tgts, man, base, agenda, todo, left>>

FetchFails(p) ==
    LET r == Wanted(p) IN
    /\ \/ Goto(p, "fetch", "notFound") /\ \A a \in Archive : ~Serves(r, a)
       \/ /\ Goto(p, "fetch", "shaMismatch")
          /\ \E a \in Archive : Serves(r, a) /\ ShaMismatch(lock[p], r, a)
    /\ UNCHANGED <<disk, world, started, cmd, copies, work>>

\* Mirror the archive, then claim the statusLine before anything is placed.
Mirror(a) ==
    mirrored' = IF MirrorOn THEN [mirrored EXCEPT ![Content[a].pkg] = a] ELSE mirrored

MirrorAndClaim(p) ==
    LET a == cur[p]
        line == Content[a].line
    IN  /\ Goto(p, "mirror", IF Content[a].assets = <<>> THEN "record" ELSE "place")
        /\ line = None \/ ~LineConflicts(lock[p], KeyOf[OwnSlot(a)], line)
        /\ Mirror(a)
        /\ lock' = IF line = None THEN lock
                   ELSE [lock EXCEPT ![p] = UpsertStatusLine(@, KeyOf[OwnSlot(a)], line)]
        /\ todo' = [todo EXCEPT ![p] = tgts[p]]
        /\ left' = [left EXCEPT ![p] = Content[a].assets]
        /\ UNCHANGED <<manifest, lockfile, missing, placed, settings, world, started, cmd,
                       tgts, man, base, agenda, cur>>

ClaimFails(p) ==
    LET a == cur[p] IN
    /\ Goto(p, "mirror", "lineConflict")
    /\ Content[a].line # None
    /\ LineConflicts(lock[p], KeyOf[OwnSlot(a)], Content[a].line)
    /\ Mirror(a)
    /\ UNCHANGED <<manifest, lockfile, missing, placed, settings, world, started, cmd, copies, work>>

\* One asset in one agent's layout, agents in order and assets in order; the
\* setup bundle, at the archive's own slot, brings the statusLine along.
PlaceAsset(p) ==
    LET a == cur[p]
        t == Head(todo[p])
        s == Head(left[p])
        lastOfTarget == Len(left[p]) = 1
    IN  /\ pc[p] = "place"
        /\ placed' = [placed EXCEPT ![t][s] = a]
        /\ settings' =
              IF s = OwnSlot(a) /\ Content[a].line # None /\ t \in LineTarget
              THEN [settings EXCEPT ![t] = [key |-> KeyOf[s], line |-> Content[a].line]]
              ELSE settings
        /\ left' = [left EXCEPT ![p] = IF lastOfTarget THEN Content[a].assets ELSE Tail(@)]
        /\ todo' = [todo EXCEPT ![p] = IF lastOfTarget THEN Tail(@) ELSE @]
        /\ Goto(p, "place", IF lastOfTarget /\ Len(todo[p]) = 1 THEN "record" ELSE "place")
        /\ UNCHANGED <<manifest, lockfile, missing, mirrored, world, started, cmd, copies, agenda, cur>>

\* Mutant: an archive with bundled children records only those.
RecordedChildrenOnly(L, a, parent) ==
    [L EXCEPT !.pins =
        [s \in Slot |-> IF s \in Children(a) \union (IF Children(a) = {} THEN {OwnSlot(a)} ELSE {})
                        THEN UpsertEntry(L, s, a, RefOf(a)).pins[s]
                        ELSE L.pins[s]]]

\* The lockfile after the archive's children, then the archive itself, are
\* recorded.
Recorded(L, a, parent) ==
    LET bundled == [L EXCEPT !.pins =
                      [s \in Slot |-> IF s \in Children(a)
                                      THEN UpsertEntry(L, s, a, RefOf(a)).pins[s]
                                      ELSE L.pins[s]]]
    IN  UpsertEntry(bundled, OwnSlot(a), a, parent)

RecordConflict(L, a) == \E s \in AssetSet(a) \union {OwnSlot(a)} : Conflicts(L, s, a)

NothingInstallable(a) == Content[a].assets = <<>> /\ Content[a].deps = <<>>

\* Mutant: the parent is the archive, not its reference.
DepItemsParentArchive(a) ==
    [i \in DOMAIN Content[a].deps |->
        [ref |-> Content[a].deps[i], parent |-> a, late |-> TRUE]]

\* The dependencies of a, one level down: their parent is a.
DepItems(a) ==
    [i \in DOMAIN Content[a].deps |->
        [ref |-> Content[a].deps[i], parent |-> RefOf(a), late |-> TRUE]]

\* Mutant: the package just recorded stays at the head of the agenda.
RecordKeepsHead(p) ==
    LET a == cur[p] IN
    /\ pc[p] = "record"
    /\ ~NothingInstallable(a)
    /\ ~RecordConflict(lock[p], a)
    /\ Goto(p, "record", "fetch")
    /\ lock' = [lock EXCEPT ![p] = Recorded(@, a, Head(agenda[p]).parent)]
    /\ UNCHANGED <<disk, world, started, cmd, tgts, man, base, agenda, cur, todo, left>>

Record(p) ==
    LET a == cur[p]
        rest == DepItems(a) \o Tail(agenda[p])
    IN  /\ pc[p] = "record"
        /\ ~NothingInstallable(a)
        /\ ~RecordConflict(lock[p], a)
        /\ Goto(p, "record", IF rest = <<>> THEN "saveManifest" ELSE "fetch")
        /\ lock' = [lock EXCEPT ![p] = Recorded(@, a, Head(agenda[p]).parent)]
        /\ agenda' = [agenda EXCEPT ![p] = rest]
        /\ UNCHANGED <<disk, world, started, cmd, tgts, man, base, cur, todo, left>>

RecordFails(p) ==
    LET a == cur[p] IN
    /\ pc[p] = "record"
    /\ \/ NothingInstallable(a) /\ Goto(p, "record", "empty")
       \/ ~NothingInstallable(a) /\ RecordConflict(lock[p], a) /\ Goto(p, "record", "conflict")
    /\ UNCHANGED <<disk, world, started, cmd, copies, work>>

(***************************************************************************)
(* removeAction.                                                           *)
(***************************************************************************)

RootSlot(p) == SlotOf[cmd[p].ref.pkg]

\* The root's locked subtree, empty when the root is not locked.
SubtreeOf(L, s) ==
    IF L.pins[s] = None THEN {} ELSE CollectSubtree(L, RefOf(L.pins[s].arc))

\* Mutant: only entries with a parent are deleted.
ClearedDepsOnly(L, S) ==
    [L EXCEPT !.pins = [s \in Slot |->
        IF s \in S /\ L.pins[s] # None /\ L.pins[s].parent # None THEN None ELSE L.pins[s]]]

\* Every slot cleared loses its entry and, if it owns it, the statusLine claim.
Cleared(L, S) ==
    [pins  |-> [s \in Slot |-> IF s \in S THEN None ELSE L.pins[s]],
     claim |-> IF L.claim # None /\ \E s \in S : KeyOf[s] = L.claim.key
               THEN None ELSE L.claim]

PlanRemove(p) ==
    LET root == RootSlot(p)
        subtree == SubtreeOf(lock[p], root)
    IN  /\ cmd[p].op = "remove"
        /\ Goto(p, "plan", "unplace")
        /\ \E q \in Orders(subtree) : left' = [left EXCEPT ![p] = <<root>> \o q]
        /\ todo' = [todo EXCEPT ![p] = tgts[p]]
        /\ lock' = [lock EXCEPT ![p] = Cleared(@, subtree \union {root})]
        /\ UNCHANGED <<disk, world, started, cmd, tgts, man, base, agenda, cur>>

\* One slot in one agent's layout; a statusLine goes with the bundle owning it.
Unplace(p) ==
    LET t == Head(todo[p])
        s == Head(left[p])
        lastTarget == Len(todo[p]) = 1
    IN  /\ pc[p] = "unplace"
        /\ placed' = [placed EXCEPT ![t][s] = None]
        /\ settings' = IF settings[t] # None /\ settings[t].key = KeyOf[s]
                       THEN [settings EXCEPT ![t] = None] ELSE settings
        /\ todo' = [todo EXCEPT ![p] = IF lastTarget THEN tgts[p] ELSE Tail(@)]
        /\ left' = [left EXCEPT ![p] = IF lastTarget THEN Tail(@) ELSE @]
        /\ Goto(p, "unplace", IF lastTarget /\ Len(left[p]) = 1 THEN "unmirror" ELSE "unplace")
        /\ UNCHANGED <<manifest, lockfile, missing, mirrored, world, started, cmd, copies, agenda, cur>>

\* Nothing was tracked: the command ends without writing.
NothingRemoved(p) == man[p][RootSlot(p)] = None /\ lock[p] = base[p]

Unmirror(p) ==
    /\ pc[p] = "unmirror"
    /\ mirrored' = [mirrored EXCEPT ![cmd[p].ref.pkg] = None]
    /\ \/ NothingRemoved(p) /\ Forget(p)
       \/ /\ ~NothingRemoved(p)
          /\ Goto(p, "unmirror", "saveManifest")
          /\ UNCHANGED <<cmd, copies, work>>
    /\ UNCHANGED <<manifest, lockfile, missing, placed, settings, world, started>>

(***************************************************************************)
(* Writing back, and ending early.                                         *)
(***************************************************************************)

NewManifest(p) ==
    CASE cmd[p].op = "install" -> [man[p] EXCEPT ![RootSlot(p)] = cmd[p].ref]
      [] cmd[p].op = "remove"  -> [man[p] EXCEPT ![RootSlot(p)] = None]
      [] OTHER                 -> man[p]

SaveManifest(p) ==
    /\ Goto(p, "saveManifest", "saveLock")
    /\ manifest' = NewManifest(p)
    /\ missing' = missing \ {"manifest"}
    /\ UNCHANGED <<lockfile, placed, settings, mirrored, world, started, cmd, copies, work>>

SaveLock(p) ==
    /\ pc[p] = "saveLock"
    /\ lockfile' = lock[p]
    /\ missing' = missing \ {"lockfile"}
    /\ Forget(p)
    /\ UNCHANGED <<manifest, placed, settings, mirrored, world, started>>

\* A check of the command itself failed: it exits with nothing written back.
Exit(p) ==
    /\ pc[p] \in Failures
    /\ Forget(p)
    /\ UNCHANGED <<disk, world, started>>

\* The process is killed, or a call it awaits fails: a download, a write.  The
\* mirror being rewritten may be left wiped.
Die(p) ==
    /\ pc[p] \in CrashPoints
    /\ Forget(p)
    /\ \/ UNCHANGED mirrored
       \/ /\ pc[p] = "mirror" /\ MirrorOn
          /\ mirrored' = [mirrored EXCEPT ![Content[cur[p]].pkg] = None]
    /\ UNCHANGED <<manifest, lockfile, missing, placed, settings, world, started>>

(***************************************************************************)
(* The world around the commands.                                          *)
(***************************************************************************)

Change == changes < MaxChanges /\ changes' = changes + 1

\* A package is published, or a version published again from another build.
Publish(a) ==
    /\ Change
    /\ registry[Content[a].pkg][Content[a].ver] # a
    /\ registry' = [registry EXCEPT ![Content[a].pkg][Content[a].ver] = a]
    /\ UNCHANGED <<disk, config, started, pc, cmd, copies, work>>

SetTargets(ts) ==
    /\ Change
    /\ config # ts
    /\ config' = ts
    /\ UNCHANGED <<disk, registry, started, pc, cmd, copies, work>>

\* The user declares a dep by hand, or pulls a manifest that does.
EditManifest(r) ==
    /\ Change
    /\ manifest[SlotOf[r.pkg]] # r
    /\ manifest' = [manifest EXCEPT ![SlotOf[r.pkg]] = r]
    /\ missing' = missing \ {"manifest"}
    /\ UNCHANGED <<lockfile, placed, settings, mirrored, config, registry, started, pc, cmd, copies, work>>

Step(p) ==
    \/ ReadLock(p) \/ SeedLock(p) \/ ReadManifest(p) \/ SeedManifest(p)
    \/ PlanInstall(p) \/ PlanInstallAll(p) \/ PlanNothing(p)
    \/ Fetch(p) \/ FetchFails(p)
    \/ MirrorAndClaim(p) \/ ClaimFails(p)
    \/ PlaceAsset(p)
    \/ Record(p) \/ RecordFails(p)
    \/ PlanRemove(p) \/ Unplace(p) \/ Unmirror(p)
    \/ SaveManifest(p) \/ SaveLock(p) \/ Exit(p)

World ==
    \/ \E a \in Archive : Publish(a)
    \/ \E ts \in TargetLists : SetTargets(ts)
    \/ \E r \in Request : EditManifest(r)

Next ==
    \/ \E p \in Proc : Start(p) \/ Step(p) \/ Die(p)
    \/ World

Spec == Init /\ [][Next]_vars

\* A started command runs on: Node schedules the continuation of every await.
FairSpec == Spec /\ \A p \in Proc : WF_vars(Step(p))

(***************************************************************************)
(* Properties.                                                             *)
(***************************************************************************)

Registries == [Pkg -> [Ver -> Archive \union {None}]]

\* Every variable has the shape the code gives it.
DiskType ==
    /\ manifest \in Manifests
    /\ lockfile \in Locks
    /\ missing \subseteq Files
    /\ placed \in [Target -> [Slot -> Archive \union {None}]]
    /\ settings \in [Target -> Claim \union {None}]
    /\ mirrored \in [Pkg -> Archive \union {None}]

WorldType ==
    /\ config \in TargetLists
    /\ registry \in Registries
    /\ started \in Nat
    /\ changes \in Nat

CommandType ==
    /\ pc \in [Proc -> Steps \union Failures \union {"idle"}]
    /\ cmd \in [Proc -> Command \union {NoCommand}]
    /\ tgts \in [Proc -> Seq(Target)]
    /\ man \in [Proc -> Manifests]
    /\ lock \in [Proc -> Locks]
    /\ base \in [Proc -> Locks]
    /\ agenda \in [Proc -> Seq(Item)]
    /\ cur \in [Proc -> Archive \union {None}]
    /\ todo \in [Proc -> Seq(Target)]
    /\ left \in [Proc -> Seq(Slot)]

TypeOK == DiskType /\ WorldType /\ CommandType

Hydrating(p) == pc[p] \in {"fetch", "mirror", "place", "record", "saveManifest", "saveLock"}

\* `aipkg install` is reproducible: it never changes nor drops a pin it read,
\* whatever the manifest's references and the declared deps resolve to and
\* whatever else it adds on the way (the lockfile's promise, cli/README.md).
KeepsPins(p) ==
    cmd[p].op = "installAll" /\ Hydrating(p) =>
        \A s \in Slot : base[p].pins[s] # None => lock[p].pins[s] = base[p].pins[s]

PinsKept == \A p \in Proc : KeepsPins(p)

\* The SHA guard holds up through the whole command: the archive that
\* `aipkg install` is installing is the one the pin it read names.
InstallsPinned(p) ==
    cmd[p].op = "installAll" /\ pc[p] \in {"mirror", "place", "record"} =>
        LET pin == base[p].pins[OwnSlot(cur[p])]
        IN  pin # None => pin.arc = cur[p]

PinnedArchiveOnly == \A p \in Proc : InstallsPinned(p)

\* When an install is about to write its files back, each package it was asked
\* for is pinned, every asset of the pinned archive lies in every target, and
\* the mirror holds that archive.
InstalledInSync ==
    \A p \in Proc : pc[p] = "saveManifest" /\ cmd[p].op # "remove" =>
        \A s \in Slot : NewManifest(p)[s] # None
                        /\ (cmd[p].op = "install" => s = RootSlot(p)) =>
            /\ lock[p].pins[s] # None
            /\ LET a == lock[p].pins[s].arc
               IN  /\ MirrorOn => mirrored[Content[a].pkg] = a
                   /\ \A i \in DOMAIN tgts[p], x \in AssetSet(a) :
                         placed[tgts[p][i]][x] = a

\* A statusLine the lockfile has an owner for is never replaced by another's.
ClaimedLineKept ==
    [][\A t \in Target :
          lockfile.claim # None /\ settings'[t] # settings[t] =>
              settings'[t] \in {lockfile.claim, None}]_vars

\* Between commands every top-level pin is one the manifest declares, so
\* nothing stays locked that no manifest entry accounts for.
TopLevelTracked ==
    (\A p \in Proc : pc[p] = "idle") =>
        \A s \in Slot : lockfile.pins[s] # None /\ lockfile.pins[s].parent = None =>
            manifest[s] # None

\* A declared dependency is installed as the package it was declared as, never
\* as another that happens to be locked under its slug (the conflict that
\* deps-resolution.ts promises to throw).
DepAsDeclared ==
    \A p \in Proc :
        pc[p] \in {"mirror", "place", "record"} /\ Head(agenda[p]).late =>
            Content[cur[p]].pkg = Head(agenda[p]).ref.pkg

\* Recording an upgrade is not rejected because of what the package's own
\* earlier version left in the lockfile (the comment of hydratePkg on why it
\* drops the stale pin).
UpgradeAccepted ==
    \A p \in Proc : pc[p] = "conflict" =>
        \A s \in AssetSet(cur[p]) : Conflicts(lock[p], s, cur[p]) =>
            Content[lock[p].pins[s].arc].pkg # Content[cur[p]].pkg

\* Removing an entry leaves the other children of its parent alone: the subtree
\* taken along holds "the child deps of the root ref" (collectSubtree).
SiblingsSurvive ==
    \A p \in Proc : pc[p] \in {"unplace", "unmirror"} =>
        LET root == base[p].pins[RootSlot(p)] IN
        root # None /\ root.parent # None =>
            \A s \in Slot \ {RootSlot(p)} :
                base[p].pins[s] # None /\ base[p].pins[s].parent = root.parent =>
                    lock[p].pins[s] = base[p].pins[s]

\* A command that was started comes to an end.
EveryCommandEnds == \A p \in Proc : pc[p] # "idle" ~> pc[p] = "idle"

(***************************************************************************)
(* What the properties rest on: the inductive invariants of InstallProofs. *)
(***************************************************************************)

InHydrate(p) == pc[p] \in {"fetch", "mirror", "place", "record"}

\* What a command holds at each control point.
Shape(p) ==
    /\ pc[p] # "idle" => cmd[p] \in Command /\ tgts[p] # <<>>
    /\ pc[p] \in {"unplace", "unmirror"} => cmd[p].op = "remove"
    /\ InHydrate(p) => cmd[p].op # "remove" /\ agenda[p] # <<>>
    /\ pc[p] \in {"mirror", "place", "record"} => cur[p] \in Archive
    /\ pc[p] = "place" => Content[cur[p]].assets # <<>>
    /\ pc[p] \in {"place", "unplace"} => todo[p] # <<>> /\ left[p] # <<>>

TypeInv == TypeOK /\ \A p \in Proc : Shape(p)

\* No slot a package is tracked under is also that of an asset bundled in a box.
NoAliasing ==
    /\ \A a \in Archive : \A s \in Children(a) : \A g \in Pkg : SlotOf[g] # s
    /\ \A c \in Checkouts : \A g \in Pkg :
          c.lockfile.pins[SlotOf[g]] # None =>
              OwnSlot(c.lockfile.pins[SlotOf[g]].arc) = SlotOf[g]

\* Then the entry at a package's slot names a package of that slot ...
OwnPins(L) ==
    \A g \in Pkg : L.pins[SlotOf[g]] # None => OwnSlot(L.pins[SlotOf[g]].arc) = SlotOf[g]

\* ... and a task of `aipkg install` whose slot was pinned asks for that version.
AgendaPinned(p) ==
    \A i \in DOMAIN agenda[p] :
        LET r == agenda[p][i].ref
            pin == base[p].pins[SlotOf[r.pkg]]
        IN  ~agenda[p][i].late /\ pin # None => Content[pin.arc].ver = r.ver

\* The registry serves a tarball only under the package and version it names.
NamedAsServed ==
    \A g \in Pkg, v \in Ver : registry[g][v] # None =>
        /\ Content[registry[g][v]].pkg = g
        /\ Content[registry[g][v]].ver = v

PinSafe(p) ==
    /\ OwnPins(lock[p]) /\ OwnPins(base[p])
    /\ cmd[p].op = "installAll" /\ pc[p] \in {"seedLock", "plan"} => lock[p] = base[p]
    /\ cmd[p].op = "installAll" /\ InHydrate(p) => AgendaPinned(p)
    /\ KeepsPins(p)
    /\ InstallsPinned(p)

PinInv ==
    /\ NamedAsServed
    /\ OwnPins(lockfile)
    /\ \A p \in Proc : PinSafe(p)

=============================================================================
