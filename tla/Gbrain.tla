-------------------------------- MODULE Gbrain --------------------------------
(***************************************************************************)
(* /sync-gbrain (gstack/bin/gstack-gbrain-sync.ts) and the memory ingest it *)
(* starts (gstack-memory-ingest.ts): runs that take a lock file, bring the *)
(* code of a repository into a source of gbrain, stage what changed among  *)
(* transcripts and artifacts in a directory and have gbrain import it, and *)
(* record what was ingested.  Runs overlap, time out and are killed.       *)
(*                                                                         *)
(* gbrain is external: its sources, its pages and the checkpoint it leaves *)
(* when an import stops are modelled from how this code uses them.  One    *)
(* repository at one path; a file is its version.  Parsing, rendering, the *)
(* push of artifacts to git, dry runs, the .gitignore entry and the modes  *)
(* that import nothing (--no-write, remote-http) are left out.             *)
(***************************************************************************)
EXTENDS Naturals, FiniteSets

CONSTANTS
    Proc, File, None, Notes,       \* Notes: a directory the user imports on their own
    MaxVersion, MaxDirs, MaxFaults \* bounds: edits of a file, staging directories, failures

Dir == 1..MaxDirs
Version == 1..MaxVersion
Id == {"legacy", "pathHash", "hostHash"}   \* the three forms a source id has had

ASSUME GbrainAssumption ==
    /\ MaxVersion \in Nat \ {0} /\ MaxDirs \in Nat /\ MaxFaults \in Nat
    /\ None \notin Proc \union Dir \union {Notes} /\ None \notin BOOLEAN
    /\ Notes \notin Dir

VARIABLES
    lock,        \* .sync-gbrain.lock: [by, old], by is None without a file
    run,         \* the runs: [pc, plan, resume, copy, prep, dir, failed, unseen]
    sources,     \* gbrain's sources: None, or whether they have pages
    files,       \* version of each source file
    sessions,    \* state file: version recorded as ingested, or 0
    imported,    \* version of each file's page in gbrain, or 0
    dirs,        \* staging directories: version of each file in them
    checkpoint,  \* directory in gbrain's import-checkpoint.json, or None
    made,        \* how many directories were made
    faults,
    overlapped,  \* history: two runs have had the lock at once
    excused,     \* history: files recorded without having landed, see Record
    emptied      \* history: runs that have counted pages of a source emptied since

disk == <<dirs, checkpoint, made>>
memory == <<files, sessions, imported, disk>>
history == <<overlapped, excused, emptied>>
vars == <<lock, run, sources, memory, faults, history>>

NoFile == [f \in File |-> 0]
Off == [pc |-> "off", plan |-> "none", resume |-> None, copy |-> NoFile, prep |-> NoFile,
        dir |-> None, failed |-> {}, unseen |-> {}]
Seen == [File -> 0..MaxVersion]
Pcs == {"off", "takeover", "create", "legacy", "plan", "register", "walk", "count",
        "remove", "decide", "prepare", "stage", "import", "record", "release", "unlock"}
Runs == [pc : Pcs, plan : {"none", "pending"}, resume : Dir \union {None, Notes},
         copy : Seen, prep : Seen, dir : Dir \union {None, Notes}, failed : SUBSET File,
         unseen : SUBSET File]

TypeOK ==
    /\ lock \in [by : Proc \union {None}, old : BOOLEAN] /\ (lock.old => lock.by # None)
    /\ run \in [Proc -> Runs]
    /\ sources \in [Id -> BOOLEAN \union {None}]
    /\ files \in [File -> Version] /\ sessions \in Seen /\ imported \in Seen
    /\ \A f \in File : sessions[f] <= files[f] /\ imported[f] <= files[f]
    /\ made \in 0..MaxDirs /\ DOMAIN dirs \subseteq 1..made \union {Notes}
    /\ \A d \in DOMAIN dirs : dirs[d] \in Seen
    /\ \A p \in Proc : run[p].pc \in {"import", "record"} => run[p].dir # None
    /\ checkpoint \in Dir \union {None, Notes}
    /\ faults \in 0..MaxFaults /\ overlapped \in BOOLEAN
    /\ excused \in SUBSET File /\ emptied \in SUBSET Proc

Init ==
    /\ lock = [by |-> None, old |-> FALSE]
    /\ run = [p \in Proc |-> Off]
    /\ sources \in [Id -> {TRUE, None}] /\ sources["hostHash"] = None
    /\ files = [f \in File |-> 1] /\ sessions = NoFile /\ imported = NoFile
    /\ dirs = [d \in {Notes} |-> NoFile] /\ checkpoint = None /\ made = 0
    /\ faults = 0 /\ overlapped = FALSE /\ excused = {} /\ emptied = {}

Fault == faults < MaxFaults /\ faults' = faults + 1
Goto(p, l) == run' = [run EXCEPT ![p].pc = l]
Working(p) == run[p].pc \notin {"off", "takeover", "create"}

(***************************************************************************)
(* acquireLock and releaseLock.                                            *)
(***************************************************************************)

NoLock == [by |-> None, old |-> FALSE]

\* Without a lock it is created, an old one taken over, else the run ends.
Start(p) ==
    /\ run[p].pc = "off" /\ (lock.by = None \/ lock.old)
    /\ Goto(p, IF lock.by = None THEN "create" ELSE "takeover")
    /\ UNCHANGED <<lock, sources, memory, faults, history>>

TakeOver(p) ==
    /\ run[p].pc = "takeover"
    /\ lock' = NoLock
    /\ Goto(p, IF lock.by = None THEN "off" ELSE "create")
    /\ UNCHANGED <<sources, memory, faults, history>>

\* writeFileSync with wx; then the stages asked for.
Create(p) ==
    /\ run[p].pc = "create"
    /\ IF lock.by = None
       THEN /\ lock' = [by |-> p, old |-> FALSE]
            /\ overlapped' = (overlapped \/ \E q \in Proc : Working(q))
            /\ \/ Goto(p, "legacy")
               \/ Goto(p, "decide")       \* --no-code
       ELSE /\ Goto(p, "off")
            /\ UNCHANGED <<lock, overlapped>>
    /\ UNCHANGED <<sources, memory, faults, excused, emptied>>

\* Five minutes pass; nobody touches the file meanwhile, whoever is alive.
LockAges ==
    /\ lock.by # None /\ ~lock.old
    /\ lock' = [lock EXCEPT !.old = TRUE]
    /\ UNCHANGED <<run, sources, memory, faults, history>>

\* The lock is read, and removed if it is this run's ...
Release(p) ==
    /\ run[p].pc = "release"
    /\ run' = [run EXCEPT ![p] = [Off EXCEPT !.pc = IF lock.by = p THEN "unlock" ELSE "off"]]
    /\ UNCHANGED <<lock, sources, memory, faults, history>>

\* ... or of whoever has taken it since.
Unlock(p) ==
    /\ run[p].pc = "unlock"
    /\ lock' = NoLock
    /\ Goto(p, "off")
    /\ UNCHANGED <<sources, memory, faults, history>>

\* A run dies; lock and directories stay.
Killed(p) ==
    /\ Working(p) /\ Fault
    /\ run' = [run EXCEPT ![p] = Off]
    /\ emptied' = emptied \ {p}
    /\ UNCHANGED <<lock, sources, memory, overlapped, excused>>

(***************************************************************************)
(* runCodeImport.  Each call of gbrain may fail.                           *)
(***************************************************************************)

\* Step 0a: the oldest form is removed, whatever happens later, and with the pages of the
\* repository if no other form has any yet.
RemoveLegacy(p) ==
    /\ run[p].pc = "legacy"
    /\ \/ sources' = [sources EXCEPT !["legacy"] = None] /\ UNCHANGED faults
       \/ Fault /\ UNCHANGED sources
    /\ Goto(p, "plan")
    /\ UNCHANGED <<lock, memory, history>>

\* planHostnameFoldMigration: renamed in place if gbrain can, else cleaned up after the walk.
Plan(p) ==
    /\ run[p].pc = "plan"
    /\ IF sources["pathHash"] = None
       THEN Goto(p, "register") /\ UNCHANGED sources
       ELSE \/ /\ sources["hostHash"] = None
               /\ sources' = [sources EXCEPT !["hostHash"] = sources["pathHash"],
                                             !["pathHash"] = None]
               /\ Goto(p, "register")
            \/ /\ run' = [run EXCEPT ![p] = [@ EXCEPT !.pc = "register", !.plan = "pending"]]
               /\ UNCHANGED sources
    /\ UNCHANGED <<lock, memory, faults, history>>

\* ensureSourceRegistered; a failure ends the stage.
Register(p) ==
    /\ run[p].pc = "register"
    /\ \/ /\ sources' = [sources EXCEPT !["hostHash"] = IF @ = None THEN FALSE ELSE @]
          /\ Goto(p, "walk") /\ UNCHANGED faults
       \/ Fault /\ Goto(p, "decide") /\ UNCHANGED sources
    /\ UNCHANGED <<lock, memory, history>>

\* gbrain sync, and reindex-code if --full: pages, or none and still exit 0, or a failure.
Walk(p) ==
    /\ run[p].pc = "walk"
    /\ \/ /\ sources["hostHash"] # None
          /\ \E pages \in {sources["hostHash"], TRUE} :
                sources' = [sources EXCEPT !["hostHash"] = pages]
          /\ Goto(p, "count") /\ UNCHANGED faults
       \/ /\ IF sources["hostHash"] = None THEN UNCHANGED faults ELSE Fault
          /\ Goto(p, "decide") /\ UNCHANGED sources
    /\ UNCHANGED <<lock, memory, history>>

\* Mutant: the page count is not looked at.
VerifiedPending(p) == run[p].plan = "pending"

\* pageCount is a number above 0.
Verified(p) == run[p].plan = "pending" /\ sources["hostHash"] = TRUE

\* What follows the code stage, unless --code-only.
Onward == {"decide", "release"}

\* sourcePageCount, whether the source could be attached or not; it may not know.
Count(p) ==
    /\ run[p].pc = "count"
    /\ \/ Verified(p) /\ Goto(p, "remove") /\ UNCHANGED faults
       \/ /\ IF Verified(p) THEN Fault ELSE UNCHANGED faults
          /\ \E l \in Onward : Goto(p, l)
    /\ UNCHANGED <<lock, sources, memory, history>>

\* Step 4, removeOrphanedSource, by the count of before.
RemoveOrphaned(p) ==
    /\ run[p].pc = "remove"
    /\ \/ sources' = [sources EXCEPT !["pathHash"] = None] /\ UNCHANGED faults
       \/ Fault /\ UNCHANGED sources
    /\ \E l \in Onward : Goto(p, l)
    /\ emptied' = emptied \ {p}
    /\ UNCHANGED <<lock, memory, overlapped, excused>>

\* Somebody removes the new source by hand, or what is in it.
SourceEmptied ==
    /\ sources["hostHash"] # None /\ Fault
    /\ \E gone \in {None, FALSE} : sources' = [sources EXCEPT !["hostHash"] = gone]
    /\ emptied' = {p \in Proc : run[p].pc = "remove"}
    /\ UNCHANGED <<lock, run, memory, overlapped, excused>>

(***************************************************************************)
(* runMemoryIngest and ingestPass.                                         *)
(***************************************************************************)

Edit(f) ==
    /\ files[f] < MaxVersion
    /\ files' = [files EXCEPT ![f] = @ + 1]
    /\ UNCHANGED <<lock, run, sources, sessions, imported, disk, faults, history>>

\* An import of the user's own stops half way.
UserImportStops ==
    /\ Notes \in DOMAIN dirs /\ checkpoint # Notes /\ Fault
    /\ checkpoint' = Notes
    /\ UNCHANGED <<lock, run, sources, files, sessions, imported, dirs, made, history>>

\* decideResume.
Decide(p) ==
    /\ run[p].pc = "decide"
    /\ run' = [run EXCEPT ![p] = [@ EXCEPT
                 !.pc = "prepare",
                 !.resume = IF checkpoint \in DOMAIN dirs THEN checkpoint ELSE None]]
    /\ UNCHANGED <<lock, sources, memory, faults, history>>

\* loadState, preparePages: what changed since it was recorded, or (--bulk) everything.
Prepare(p) ==
    LET changed == {f \in File : sessions[f] # files[f]} IN
    /\ run[p].pc = "prepare"
    /\ \E chosen \in {changed, File} :
          run' = [run EXCEPT ![p] = [@ EXCEPT
                    !.pc = IF chosen = {} THEN "release" ELSE "stage",
                    !.copy = sessions,
                    !.prep = [f \in File |-> IF f \in chosen THEN files[f] ELSE 0]]]
    /\ UNCHANGED <<lock, sources, memory, faults, history>>

Prepared(p) == {f \in File : run[p].prep[f] # 0}

\* Mutant: the directory is taken without a look whether there is one.
ResumableUnseen(p) == TRUE

Resumable(p) == run[p].resume \in DOMAIN dirs

\* A checkpointed directory is taken as it is, else a new one is filled, unless gbrain is
\* missing.  A page that cannot be written (writeStaged) is left out.
Stage(p) ==
    /\ run[p].pc = "stage"
    /\ \/ /\ Resumable(p)
          /\ run' = [run EXCEPT ![p] = [@ EXCEPT !.pc = "import", !.dir = run[p].resume]]
          /\ UNCHANGED <<disk, faults>>
       \/ /\ ~Resumable(p) /\ made < MaxDirs
          /\ made' = made + 1
          /\ \E lost \in SUBSET Prepared(p) :
                /\ IF lost = {} THEN UNCHANGED faults ELSE Fault
                /\ dirs' = [d \in DOMAIN dirs \union {made'} |->
                              IF d # made' THEN dirs[d]
                              ELSE [f \in File |-> IF f \in lost THEN 0 ELSE run[p].prep[f]]]
          /\ run' = [run EXCEPT ![p] = [@ EXCEPT !.pc = "import", !.dir = made', !.resume = None]]
          /\ UNCHANGED checkpoint
       \/ /\ Fault /\ Goto(p, "release") /\ UNCHANGED disk
    /\ UNCHANGED <<lock, sources, files, sessions, imported, history>>

Without(d) == [e \in DOMAIN dirs \ {d} |-> dirs[e]]

\* The files an import of the run finds in its directory: it may be gone by now.
Staged(p) ==
    IF run[p].dir \in DOMAIN dirs THEN {f \in File : dirs[run[p].dir][f] # 0} ELSE {}
After(p, landed) ==
    [f \in File |-> IF f \in landed THEN dirs[run[p].dir][f] ELSE imported[f]]

\* gbrain notes how far it got.
Checkpoint(p) ==
    /\ run[p].pc = "import" /\ checkpoint # run[p].dir
    /\ checkpoint' = run[p].dir
    /\ UNCHANGED <<lock, run, sources, files, sessions, imported, dirs, made, faults, history>>

\* stagedPathToSource: a directory that was resumed is not in it.
Mapped(p, failed) == IF run[p].resume = None THEN failed ELSE {}

\* Exit 0.  readNewFailures maps failures to sources by what this run has staged itself;
\* what it cannot read, all or some of them, has not failed.
ImportEnds(p) ==
    /\ run[p].pc = "import"
    /\ \E failed \in SUBSET Staged(p) : \E known \in SUBSET Mapped(p, failed) :
          /\ imported' = After(p, Staged(p) \ failed)
          /\ IF known = Mapped(p, failed) THEN UNCHANGED faults ELSE Fault
          /\ run' = [run EXCEPT ![p] = [@ EXCEPT !.pc = "record", !.failed = known,
                                                !.unseen = failed \ known]]
    /\ checkpoint' = None
    /\ UNCHANGED <<lock, sources, files, sessions, dirs, made, history>>

\* Another exit, gbrain's or by the 30 minutes: nothing is recorded, the directory removed.
ImportFails(p) ==
    /\ run[p].pc = "import" /\ Fault
    /\ \E landed \in SUBSET Staged(p) : imported' = After(p, landed)
    /\ dirs' = Without(run[p].dir)
    /\ Goto(p, "release")
    /\ UNCHANGED <<lock, sources, files, sessions, checkpoint, made, history>>

\* SIGTERM by the orchestrator's timeout: the directory stays if it is checkpointed, and
\* gbrain may write the checkpoint as it goes down.
Terminated(p) ==
    /\ run[p].pc = "import" /\ Fault
    /\ \E landed \in SUBSET Staged(p) : imported' = After(p, landed)
    /\ dirs' = IF checkpoint = run[p].dir THEN dirs ELSE Without(run[p].dir)
    /\ checkpoint' \in {checkpoint, run[p].dir}
    /\ Goto(p, "release")
    /\ UNCHANGED <<lock, sources, files, sessions, made, history>>

\* Mutant: what gbrain failed on is recorded too.
RecordableAll(p) == Prepared(p)

Recordable(p) == Prepared(p) \ run[p].failed

\* The directory has the file as it is now.
StagedNow(p, f) == run[p].dir \in DOMAIN dirs /\ dirs[run[p].dir][f] = files[f]

\* Phase 3: stamped as the files are now; the directory goes, the state file is replaced.
\* Excused are the files that are stamped without having landed because the run could not
\* know that gbrain failed on them (it had resumed, or could not read the failures), or
\* because what it stamps was never staged (edited since, not written, not in a directory
\* resumed), until they land after all.
Record(p) ==
    /\ run[p].pc = "record"
    /\ sessions' = [f \in File |-> IF f \in Recordable(p) THEN files[f] ELSE run[p].copy[f]]
    /\ dirs' = Without(run[p].dir)
    /\ excused' = {f \in File : imported[f] < sessions'[f] /\
                      \/ f \in excused
                      \/ f \in Recordable(p) /\ (f \in run[p].unseen \/ ~StagedNow(p, f))}
    /\ Goto(p, "release")
    /\ UNCHANGED <<lock, sources, files, imported, checkpoint, made, faults, overlapped, emptied>>

Step(p) ==
    \/ Start(p) \/ TakeOver(p) \/ Create(p) \/ Release(p) \/ Unlock(p) \/ Killed(p)
    \/ RemoveLegacy(p) \/ Plan(p) \/ Register(p) \/ Walk(p) \/ Count(p) \/ RemoveOrphaned(p)
    \/ Decide(p) \/ Prepare(p) \/ Stage(p) \/ Checkpoint(p) \/ ImportEnds(p) \/ ImportFails(p)
    \/ Terminated(p) \/ Record(p)

Next ==
    \/ \E p \in Proc : Step(p)
    \/ \E f \in File : Edit(f)
    \/ LockAges \/ UserImportStops \/ SourceEmptied

Spec == Init /\ [][Next]_vars

-----------------------------------------------------------------------------

\* "register -> sync -> verify -> THEN delete": when the pages of the path-hash source go,
\* the source that replaces it has some.  What a run has counted is still so when it
\* removes, whatever overlapping runs rename, register and walk in between, unless somebody
\* emptied the new source in between by hand: the run is then in emptied.  Not so of the
\* legacy source: LegacyKept.
PagesKept ==
    [][sources["pathHash"] = TRUE /\ sources'["pathHash"] # TRUE
         => sources'["hostHash"] = TRUE \/ \E p \in emptied : p \notin emptied']_vars

\* "Removing before sync would create a data-loss window if sync failed": when the pages of
\* the legacy source go, a source of the repository has some.
LegacyKept ==
    [][sources["legacy"] = TRUE /\ sources'["legacy"] # TRUE
         => \E i \in Id : sources'[i] = TRUE]_vars

\* A file that is recorded as ingested is in gbrain, in that version or a later one, so that
\* a run that skips it skips nothing: through failures gbrain reports, kills, timeouts,
\* resumed directories and retries, as long as runs do not overlap.  Excused, and shown by
\* OnlyLandedStamped, are the files Record names: those gbrain failed on without the run
\* knowing, and those stamped in a version that was never staged.
RecordedLanded ==
    ~overlapped => \A f \in File \ excused : imported[f] >= sessions[f]

\* "Only files that landed in gbrain get their mtime+sha256 stamped."
OnlyLandedStamped == ~overlapped => \A f \in File : imported[f] >= sessions[f]

\* "At worst we leak a staging dir": no other directory is ever removed.
NotesKept == Notes \in DOMAIN dirs
=============================================================================
