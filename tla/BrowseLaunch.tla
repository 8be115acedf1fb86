---------------------------- MODULE BrowseLaunch ----------------------------
(***************************************************************************)
(* How the browse command line finds, starts, replaces and stops the       *)
(* daemon that keeps the browser (gstack/skills/browse/src/cli.ts), and    *)
(* what the daemon does on its side (server.ts): one project, one state    *)
(* file that names the daemon, one lock file for starting it.              *)
(*                                                                         *)
(* Every invocation of the command line is a process of its own, every     *)
(* daemon too.  The file names a pid, port and token; all three are the    *)
(* daemon here, but for the well-known port of the daemons of connect.     *)
(*                                                                         *)
(* The file also names the mode of the daemon, headed or not, as it was    *)
(* when the daemon started (recorded).  A handoff shows the browser of a   *)
(* running daemon: what the daemon does from then on goes by its mode now  *)
(* (headed), what the command line does still goes by the one recorded.    *)
(***************************************************************************)
EXTENDS Naturals

CONSTANTS
    Cli,          \* invocations of the command line, one command each
    Config,       \* hashes of --proxy and --headed
    HeadedConfig, \* those of --headed
    Commands,     \* what they may be: functions from Cli to commands and configs
    MaxServers,   \* bound: daemons ever started
    MaxFaults,    \* bound: crashes, hangs, idle timeouts, kills of the command
                  \* line, and updates of the tool
    None

Command == {"page", "stop", "connect", "disconnect"}

ASSUME LaunchAssumption ==
    /\ Commands \subseteq [Cli -> Command \X Config] /\ HeadedConfig \subseteq Config
    /\ MaxServers \in Nat \ {0} /\ MaxFaults \in Nat
    /\ None \notin Cli /\ None \notin Nat

Server == 1..MaxServers

VARIABLES
    srv,         \* each daemon: what it does, and how it was started
    stateFile,   \* the daemon the state file names
    lock,        \* whose pid is in the lock file
    pc, cmd, config,   \* each invocation: where it is, its command and flags
    saw,         \* the state it has read
    target,      \* the daemon it talks to
    retries,     \* connections it has lost
    releaseLock, \* who has the lock to release
    spawned, faults, version,   \* counts
    ran,         \* history: the daemon that has run its command
    excused      \* history: daemons that were lost sight of, see Excuse

files == <<stateFile, lock>>
cli == <<pc, cmd, config, saw, target, retries, releaseLock, ran>>
vars == <<srv, files, cli, spawned, faults, version, excused>>

Ended == {"done", "refused", "failed", "dead"}

Unused == [st |-> "unused", fixed |-> FALSE, recorded |-> FALSE, headed |-> FALSE,
           config |-> None, version |-> 0]

\* The daemon of an earlier connect.
Left(k) == [st |-> "up", fixed |-> TRUE, recorded |-> TRUE, headed |-> TRUE,
            config |-> k, version |-> 0]

\* A project without a daemon, or with one left from before.
Init ==
    /\ \E k \in Config, n \in 0..1 :
         /\ srv = [s \in Server |-> IF s <= n THEN Left(k) ELSE Unused]
         /\ stateFile = IF n = 0 THEN None ELSE n
         /\ spawned = n
    /\ lock = None
    /\ pc = [c \in Cli |-> "start"]
    /\ \E f \in Commands :
         /\ cmd = [c \in Cli |-> f[c][1]]
         /\ config = [c \in Cli |-> f[c][2]]
    /\ saw = [c \in Cli |-> None]
    /\ target = [c \in Cli |-> None]
    /\ retries = [c \in Cli |-> 0]
    /\ releaseLock = {}
    /\ faults = 0 /\ version = 0
    /\ ran = [c \in Cli |-> None]
    /\ excused = {}

Is(s, states) == s # None /\ srv[s].st \in states
Alive(s) == Is(s, {"booting", "up", "hung", "closing"})
Booting == {s \in Server : srv[s].st = "booting"}
Running == {s \in Server : srv[s].st \in {"booting", "up", "hung"}}

\* Who answers at the port of a daemon: those of connect share a port.
AtPort(s) ==
    IF s = None THEN {}
    ELSE {t \in Server :
            /\ srv[t].st \in {"up", "hung", "closing"}
            /\ t = s \/ (srv[s].fixed /\ srv[t].fixed)}

Healthy(s) == \E t \in AtPort(s) : srv[t].st = "up"

\* Mutant: no guard for headed daemons.
HeadedStuckNever(s) == FALSE

\* A process that is alive but not responding, or not yet, and that the state
\* file calls headed.
HeadedStuck(s) == Alive(s) /\ srv[s].recorded

Goto(c, l) == pc' = [pc EXCEPT ![c] = l]

\* Daemons lost sight of, which the lock does not protect: removed from the file
\* while they run, started by one who does not hold the lock, still booting when
\* the lock file goes or its holder dies, hung when a new one is started, or
\* named in a file that one of those overwrites.
Excuse(lost) == excused' = excused \union (lost \intersect Running)

\* Removing the state file loses sight of the daemon it names.
RemoveStateFile ==
    /\ stateFile' = None
    /\ Excuse(IF stateFile = None THEN {} ELSE {stateFile})

Fault == faults < MaxFaults /\ faults' = faults + 1

(***************************************************************************)
(* The command line.                                                       *)
(***************************************************************************)

\* readState, and what the command does with it.
ReadState(c) ==
    /\ pc[c] = "start"
    /\ saw' = [saw EXCEPT ![c] = stateFile]
    /\ Goto(c, CASE cmd[c] = "connect" -> "connect"
                 [] cmd[c] = "disconnect" -> IF stateFile = None THEN "done" ELSE "disconnect"
                 [] OTHER -> "probe")
    /\ UNCHANGED <<srv, files, cmd, config, target, retries, releaseLock, ran, spawned, faults, version, excused>>

Use(c, s) ==
    /\ target' = [target EXCEPT ![c] = s]
    /\ Goto(c, IF cmd[c] = "connect" THEN "done" ELSE "send")

\* The answer to the health check of what was read.
Probe(c) ==
    /\ pc[c] = "probe"
    /\ IF Healthy(saw[c])
       THEN IF srv[saw[c]].config # config[c]
            THEN Goto(c, "refused") /\ UNCHANGED target
            ELSE IF srv[saw[c]].version # version
            THEN Goto(c, "term") /\ UNCHANGED target
            ELSE Use(c, saw[c])
       ELSE /\ Goto(c, IF HeadedStuck(saw[c]) THEN "refused" ELSE "lock")
            /\ UNCHANGED target
    /\ UNCHANGED <<srv, files, cmd, config, saw, retries, releaseLock, ran, spawned, faults, version, excused>>

\* The lock file is created, and the pid written into it after that: until then
\* its holder passes for dead.
AcquireServerLock(c) ==
    /\ \/ /\ pc[c] = "lock"
          /\ lock' = IF lock = None THEN c ELSE lock
          /\ Goto(c, IF lock = None THEN "created"
                     ELSE IF pc[lock] \in Ended \union {"created"} THEN "stale" ELSE "wait")
          /\ UNCHANGED releaseLock
       \/ /\ pc[c] = "created" /\ Goto(c, "locked")
          /\ releaseLock' = releaseLock \union {c} /\ UNCHANGED lock
    /\ UNCHANGED <<srv, stateFile, cmd, config, saw, target, retries, ran,
                   spawned, faults, version, excused>>

\* Mutant: a stale lock is tried again without being removed.
RemoveStaleLockNot(c) ==
    /\ pc[c] = "stale"
    /\ Goto(c, IF lock = None THEN "wait" ELSE "lock")
    /\ UNCHANGED <<srv, files, cmd, config, saw, target, retries, releaseLock, ran,
                   spawned, faults, version, excused>>

\* The holder was found dead: the file goes, whoever's it is by now.
RemoveStaleLock(c) ==
    /\ pc[c] = "stale"
    /\ Goto(c, IF lock = None THEN "wait" ELSE "lock")
    /\ lock' = None
    /\ excused' = IF lock = None \/ pc[lock] \in Ended THEN excused ELSE excused \union Booting
    /\ UNCHANGED <<srv, stateFile, cmd, config, saw, target, retries, releaseLock, ran,
                   spawned, faults, version>>

\* Who has the lock releases it by removing the file, whoever's it is by now and
\* whatever is still booting; daemons started after an update or a lost
\* connection, or by connect, have been started without it.
Release(c) ==
    /\ lock' = IF c \in releaseLock THEN None ELSE lock
    /\ releaseLock' = releaseLock \ {c}
    /\ excused' = IF c \in releaseLock THEN excused \union Booting ELSE excused

\* Mutant: the state read before the lock was taken is good enough.
UnderLockNoReread(c) ==
    /\ pc[c] = "locked"
    /\ Goto(c, IF saw[c] = None THEN "spawn" ELSE "term")
    /\ UNCHANGED <<srv, files, cmd, config, saw, target, retries, releaseLock, ran,
                   spawned, faults, version, excused>>

\* A daemon that somebody has started meanwhile is used; otherwise the one
\* first read is killed.
UnderLock(c) ==
    /\ pc[c] = "locked"
    /\ IF Healthy(stateFile)
       THEN Use(c, stateFile) /\ Release(c)
       ELSE /\ Goto(c, IF saw[c] = None THEN "spawn" ELSE "term")
            /\ UNCHANGED <<lock, releaseLock, target, excused>>
    /\ UNCHANGED <<srv, stateFile, cmd, config, saw, retries, ran, spawned, faults, version>>

\* killServer: SIGTERM, which headless daemons ignore, some waiting, SIGKILL.
Term(c) ==
    /\ pc[c] = "term"
    /\ LET s == saw[c] IN
       srv' = IF Is(s, {"up", "hung"}) /\ srv[s].headed
              THEN [srv EXCEPT ![s].st = "closing"] ELSE srv
    /\ Goto(c, "kill")
    /\ UNCHANGED <<files, cmd, config, saw, target, retries, releaseLock, ran, spawned, faults, version, excused>>

Kill(c) ==
    /\ pc[c] = "kill"
    /\ srv' = IF Alive(saw[c]) THEN [srv EXCEPT ![saw[c]].st = "dead"] ELSE srv
    /\ IF cmd[c] = "disconnect"
       THEN Goto(c, "done") /\ RemoveStateFile
       ELSE Goto(c, "spawn") /\ UNCHANGED <<stateFile, excused>>
    /\ UNCHANGED <<lock, cmd, config, saw, target, retries, releaseLock, ran, spawned, faults, version>>

\* BROWSE_HEADED, of connect and of --headed.
Shown(c) == cmd[c] = "connect" \/ config[c] \in HeadedConfig

\* startServer: the state file is removed and a daemon launched.  Beyond the
\* bound it does not come up, as any start may fail to.
Spawn(c) ==
    /\ pc[c] = "spawn"
    /\ spawned' = IF spawned < MaxServers THEN spawned + 1 ELSE spawned
    /\ srv' = [s \in Server |->
                 IF s # spawned + 1 THEN srv[s]
                 ELSE [st |-> "booting", fixed |-> cmd[c] = "connect",
                       recorded |-> Shown(c), headed |-> Shown(c),
                       config |-> config[c], version |-> version]]
    /\ stateFile' = None
    /\ excused' = excused
         \union (IF lock # c \/ Is(stateFile, {"hung"}) THEN {stateFile} \intersect Running ELSE {})
         \union (IF lock = c THEN {} ELSE {spawned + 1} \intersect Server)
    /\ Goto(c, "await")
    /\ UNCHANGED <<lock, cmd, config, saw, target, retries, releaseLock, ran, faults, version>>

\* Polls until a daemon named in the file is healthy: its own or another.
Await(c) ==
    /\ pc[c] = "await"
    /\ Healthy(stateFile)
    /\ Use(c, stateFile)
    /\ Release(c)
    /\ UNCHANGED <<srv, stateFile, cmd, config, saw, retries, ran, spawned, faults, version>>

Wait(c) ==
    /\ pc[c] = "wait"
    /\ Healthy(stateFile)
    /\ Use(c, stateFile)
    /\ UNCHANGED <<srv, files, cmd, config, saw, retries, releaseLock, ran, spawned, faults, version, excused>>

\* The daemon may come up after nobody waits for it any more.
Timeout(c) ==
    /\ pc[c] \in {"await", "wait"}
    /\ Goto(c, "failed")
    /\ IF pc[c] = "await"
       THEN Release(c)
       ELSE UNCHANGED <<lock, releaseLock, excused>>
    /\ UNCHANGED <<srv, stateFile, cmd, config, saw, target, retries, ran, spawned, faults, version>>

(***************************************************************************)
(* Sending the command.                                                    *)
(***************************************************************************)

Run(c, s) == ran' = [ran EXCEPT ![c] = s]

Send(c) ==
    /\ pc[c] = "send"
    /\ Is(target[c], {"up"})
    /\ Run(c, target[c])
    /\ IF cmd[c] = "page"
       THEN Goto(c, "done") /\ UNCHANGED srv
       ELSE Goto(c, "stopping") /\ srv' = [srv EXCEPT ![target[c]].st = "closing"]
    /\ UNCHANGED <<files, cmd, config, saw, target, retries, releaseLock, spawned, faults, version, excused>>

\* A page command may be handoff: the daemon shows its browser from then on, also
\* when the pages could not be restored in it; the state file is not written.
Handoff(c) ==
    /\ pc[c] = "send" /\ cmd[c] = "page"
    /\ Is(target[c], {"up"}) /\ ~srv[target[c]].headed
    /\ srv' = [srv EXCEPT ![target[c]].headed = TRUE]
    /\ Run(c, target[c])
    /\ Goto(c, "done")
    /\ UNCHANGED <<files, cmd, config, saw, target, retries, releaseLock, spawned, faults, version, excused>>

\* Another daemon has the port and does not know the token: go by the file.
WrongToken(c) ==
    /\ pc[c] = "send"
    /\ ~Alive(target[c]) /\ AtPort(target[c]) # {}
    /\ IF stateFile # None /\ stateFile # target[c]
       THEN target' = [target EXCEPT ![c] = stateFile] /\ retries' = [retries EXCEPT ![c] = 0] /\ UNCHANGED pc
       ELSE Goto(c, "failed") /\ UNCHANGED <<target, retries>>
    /\ UNCHANGED <<srv, files, cmd, config, saw, releaseLock, ran, spawned, faults, version, excused>>

\* No answer, or an error of a daemon that is going.
NoAnswer(c) ==
    /\ pc[c] = "send"
    /\ Is(target[c], {"hung", "closing"})
    /\ Goto(c, "failed")
    /\ UNCHANGED <<srv, files, cmd, config, saw, target, retries, releaseLock, ran, spawned, faults, version, excused>>

\* Mutant: the connection is tried again every time it is lost.
LostConnectionAgain(c) ==
    /\ pc[c] \in {"send", "stopping"}
    /\ Is(target[c], {"dead"}) /\ AtPort(target[c]) = {}
    /\ saw' = [saw EXCEPT ![c] = stateFile]
    /\ retries' = [retries EXCEPT ![c] = retries[c] + 1]
    /\ Goto(c, IF stateFile = None THEN "spawn" ELSE "term")
    /\ UNCHANGED <<srv, files, cmd, config, target, releaseLock, ran, spawned, faults, version, excused>>

\* Once, a lost connection starts the daemon anew, outside the lock, and sends
\* the command again; stop and restart end the process that was to answer.
LostConnection(c) ==
    /\ pc[c] \in {"send", "stopping"}
    /\ Is(target[c], {"dead"})
    /\ pc[c] = "send" => AtPort(target[c]) = {}
    /\ IF retries[c] >= 1
       THEN Goto(c, "failed") /\ UNCHANGED <<saw, retries>>
       ELSE /\ saw' = [saw EXCEPT ![c] = stateFile]
            /\ retries' = [retries EXCEPT ![c] = 1]
            /\ Goto(c, IF stateFile = None THEN "spawn" ELSE "term")
    /\ UNCHANGED <<srv, files, cmd, config, target, releaseLock, ran, spawned, faults, version, excused>>

(***************************************************************************)
(* connect and disconnect, which come before ensureServer.                 *)
(***************************************************************************)

\* A daemon recorded as headed that answers is kept; any other that lives is killed.
Connect(c) ==
    /\ pc[c] = "connect"
    /\ Goto(c, IF HeadedStuck(saw[c]) /\ \E t \in AtPort(saw[c]) : srv[t].st # "hung"
               THEN "done"
               ELSE IF Alive(saw[c]) THEN "term" ELSE "spawn")
    /\ UNCHANGED <<srv, files, cmd, config, saw, target, retries, releaseLock, ran, spawned, faults, version, excused>>

\* A daemon recorded as headed is asked to shut down, which ends the connection before it
\* can answer; the process is killed in any case.
Disconnect(c) ==
    /\ pc[c] = "disconnect"
    /\ srv' = IF srv[saw[c]].recorded /\ Is(saw[c], {"up"})
              THEN [srv EXCEPT ![saw[c]].st = "closing"] ELSE srv
    /\ Goto(c, "term")
    /\ UNCHANGED <<files, cmd, config, saw, target, retries, releaseLock, ran, spawned, faults, version, excused>>

\* Ctrl+C, or the harness kills its shell.
Die(c) ==
    /\ pc[c] \notin Ended \union {"start"}
    /\ Fault
    /\ Goto(c, "dead")
    /\ excused' = IF pc[c] = "await" /\ lock = c
                  THEN excused \union Booting ELSE excused
    /\ UNCHANGED <<srv, files, cmd, config, saw, target, retries, releaseLock, ran, spawned, version>>

(***************************************************************************)
(* The daemon.                                                             *)
(***************************************************************************)

PortTaken(s) ==
    srv[s].fixed /\ \E t \in Server \ {s} : srv[t].fixed /\ srv[t].st \in {"up", "hung", "closing"}

\* start: the state file is written in one go with the listener.
Boot(s) ==
    /\ srv[s].st = "booting" /\ ~PortTaken(s)
    /\ srv' = [srv EXCEPT ![s].st = "up"]
    /\ stateFile' = s
    /\ IF s \in excused THEN Excuse({stateFile} \ {None}) ELSE UNCHANGED excused
    /\ UNCHANGED <<lock, cli, spawned, faults, version>>

BootFails(s) ==
    /\ srv[s].st = "booting"
    /\ IF PortTaken(s) THEN UNCHANGED faults ELSE Fault
    /\ srv' = [srv EXCEPT ![s].st = "dead"]
    /\ UNCHANGED <<files, cli, spawned, version, excused>>

\* The page no longer answers.
Hang(s) ==
    /\ srv[s].st = "up" /\ Fault
    /\ srv' = [srv EXCEPT ![s].st = "hung"]
    /\ UNCHANGED <<files, cli, spawned, version, excused>>

\* shutdown: when idle and headless, when the user closes the window, or when the
\* process that started it has gone and its browser was handed off.
BeginShutdown(s) ==
    /\ srv[s].st = "up" /\ Fault
    /\ srv' = [srv EXCEPT ![s].st = "closing"]
    /\ UNCHANGED <<files, cli, spawned, version, excused>>

\* The last thing it does is remove the state file, whoever is named there.
EndShutdown(s) ==
    /\ srv[s].st = "closing"
    /\ srv' = [srv EXCEPT ![s].st = "dead"]
    /\ RemoveStateFile
    /\ UNCHANGED <<lock, cli, spawned, faults, version>>

\* The browser or the process dies; an uncaught error removes the file.
Crash(s) ==
    /\ Alive(s) /\ Fault
    /\ srv' = [srv EXCEPT ![s].st = "dead"]
    /\ \/ UNCHANGED <<stateFile, excused>>
       \/ RemoveStateFile
    /\ UNCHANGED <<lock, cli, spawned, version>>

\* The tool is updated: its daemons are then of an older version.
Upgrade ==
    /\ Fault
    /\ version' = version + 1
    /\ UNCHANGED <<srv, files, cli, spawned, excused>>

EnsureServer(c) ==
    \/ Probe(c) \/ AcquireServerLock(c) \/ RemoveStaleLock(c) \/ UnderLock(c)
    \/ Term(c) \/ Kill(c) \/ Spawn(c) \/ Await(c) \/ Wait(c) \/ Timeout(c)
SendCommand(c) == Send(c) \/ Handoff(c) \/ WrongToken(c) \/ NoAnswer(c) \/ LostConnection(c)
Step(c) == ReadState(c) \/ EnsureServer(c) \/ SendCommand(c) \/ Connect(c) \/ Disconnect(c)
Lifecycle(s) == Boot(s) \/ BootFails(s) \/ EndShutdown(s)
Trouble(s) == Hang(s) \/ BeginShutdown(s) \/ Crash(s)

Next ==
    \/ \E c \in Cli : Step(c) \/ Die(c)
    \/ \E s \in Server : Lifecycle(s) \/ Trouble(s)
    \/ Upgrade

Spec == Init /\ [][Next]_vars

\* A process that can go on does so; a shutdown ends, by its own timeouts.
Fairness ==
    /\ \A c \in Cli : WF_vars(Step(c))
    /\ \A s \in Server : WF_vars(EndShutdown(s))
FairSpec == Spec /\ Fairness

(***************************************************************************)
(* Properties.                                                             *)
(***************************************************************************)

\* Every variable keeps its type: at most one lost connection per invocation,
\* and no file that names an unknown daemon.
TypeOK ==
    /\ srv \in [Server -> [st : {"unused", "booting", "up", "hung", "closing", "dead"},
                           fixed : BOOLEAN, recorded : BOOLEAN, headed : BOOLEAN,
                           config : Config \union {None}, version : 0..MaxFaults]]
    /\ stateFile \in Server \union {None}
    /\ lock \in Cli \union {None}
    /\ pc \in [Cli -> Ended \union {"start", "probe", "lock", "created", "stale", "wait", "locked", "term",
                                   "kill", "spawn", "await", "send", "stopping", "connect",
                                   "disconnect"}]
    /\ cmd \in [Cli -> Command] /\ config \in [Cli -> Config]
    /\ saw \in [Cli -> Server \union {None}]
    /\ target \in [Cli -> Server \union {None}]
    /\ retries \in [Cli -> 0..1]
    /\ releaseLock \subseteq Cli
    /\ ran \in [Cli -> Server \union {None}]
    /\ spawned \in 0..MaxServers /\ faults \in 0..MaxFaults /\ version \in 0..MaxFaults
    /\ excused \subseteq Server

\* The lock of acquireServerLock does what it is for: of the daemons that were
\* started under it and that the state file did not lose, at most one runs, so
\* no invocation that comes second in the race of ensureServer starts another.
OneServer == \A s, t \in Running \ excused : s = t

\* "Acquire an exclusive lockfile": no two invocations have the lock at once.
LockExclusive == \A c, d \in Cli : pc[c] = "locked" /\ pc[d] = "locked" => c = d

\* "Never silently replace a headed server with a headless one" (ensureServer),
\* of the daemons the state file calls headed, those started by connect or with
\* --headed: an invocation ends one that lives only if it was told to connect or
\* disconnect, after an update of the tool, or after losing the connection.
HeadedKept ==
    [][\A s \in Server : \A c \in Cli :
         /\ Is(s, {"up", "hung"}) /\ srv[s].recorded /\ srv'[s].st \in {"closing", "dead"}
         /\ pc[c] \in {"term", "kill"} /\ pc'[c] # pc[c]
         => cmd[c] \in {"connect", "disconnect"} \/ retries[c] = 1 \/ srv[s].version # version]_vars

\* "Headed mode means a user-visible Chrome window is (or was) controlled"
\* (ensureServer): the same of every daemon whose browser is shown, those that a
\* handoff has shown included.  Those are replaced: the file calls them launched.
ShownKept ==
    [][\A s \in Server : \A c \in Cli :
         /\ Is(s, {"up", "hung"}) /\ srv[s].headed /\ srv'[s].st \in {"closing", "dead"}
         /\ pc[c] \in {"term", "kill"} /\ pc'[c] # pc[c]
         => cmd[c] \in {"connect", "disconnect"} \/ retries[c] = 1 \/ srv[s].version # version]_vars

\* Every invocation ends: the two races (the lock, the lost connection that
\* starts a daemon and sends again) never send it round for ever.
CommandEnds == \A c \in Cli : pc[c] # "start" ~> pc[c] \in Ended
=============================================================================
