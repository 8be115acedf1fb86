------------------------------ MODULE Terminal ------------------------------
(***************************************************************************)
(* The sidebar terminal (gstack/skills/browse/src): the daemon's           *)
(* /pty-session routes with their leases (server.ts, pty-session-lease.ts),*)
(* and the terminal agent, which keeps a PTY with claude in it behind a    *)
(* websocket, over closes and re-attaches (terminal-agent.ts).             *)
(*                                                                         *)
(* The sidebar is outside: it calls the routes, opens a socket with each   *)
(* token it is given, and closes it, or loses it.  A socket has the number *)
(* of its token, a PtySession that of the socket it was made for.  It opens *)
(* one socket with a token: that the agent forgets the token when the      *)
(* socket closes makes no difference then.                                 *)
(***************************************************************************)
EXTENDS Naturals, FiniteSets

CONSTANTS
    MaxCalls,     \* bound: requests under way at the daemon
    MaxSessions, MaxSockets, MaxProcs,   \* bounds: session ids, tokens, processes ever made
    MaxFaults     \* bound: agent crashes, calls to it that time out, leases that expire,
                  \* failing starts and processes that end by themselves

ASSUME BoundsNatural ==
    {MaxCalls, MaxSessions, MaxSockets, MaxProcs, MaxFaults} \subseteq Nat

Sid == 1..MaxSessions
Socket == 1..MaxSockets
Proc == 1..MaxProcs
Session == Socket

VARIABLES
    lease,       \* daemon: the sessions that may be re-attached
    sids, tokens,   \* daemon: how many were minted
    calls,       \* daemon: requests under way: [op, pc, sid, token]
    given,       \* sidebar: tokens received, not used yet
    sock,        \* sockets: the agent learns of a "left" or "lost" one later
    validTokens, \* agent: the session of each token, 0 when it knows none
    sessionsById,\* agent: PtySession of each session id, 0 when none
    sessions,    \* agent: PtySession of each socket, 0 when none
    pty,         \* agent: the PtySessions
    proc,        \* processes: none, running, signalled, dead
    host,        \* the PtySession a process was started for
    kill,        \* processes with a SIGKILL pending
    faults

daemon == <<lease, sids, tokens, calls>>
memory == <<validTokens, sessionsById, sessions, pty>>
procs == <<proc, host, kill>>
vars == <<daemon, given, sock, memory, procs, faults>>

NoSession == [sid |-> 0, proc |-> 0, spawned |-> FALSE, live |-> 0,
              detached |-> FALSE, timers |-> 0, handle |-> FALSE]
Call(op, pc, sid, token) == [op |-> op, pc |-> pc, sid |-> sid, token |-> token]

Init ==
    /\ lease = {} /\ sids = 0 /\ tokens = 0
    /\ calls = {}
    /\ given = {} /\ sock = [w \in Socket |-> "none"]
    /\ validTokens = [w \in Socket |-> 0]
    /\ sessionsById = [s \in Sid |-> 0]
    /\ sessions = [w \in Socket |-> 0]
    /\ pty = [s \in Session |-> NoSession]
    /\ proc = [p \in Proc |-> "none"] /\ host = [p \in Proc |-> 0] /\ kill = {}
    /\ faults = 0

Fault == faults < MaxFaults /\ faults' = faults + 1

(***************************************************************************)
(* The daemon's routes.                                                    *)
(***************************************************************************)

\* Mutant: the number of the last token is taken again.
GrantingAgain(op, sid) == Call(op, "grant", sid, tokens)

\* A request that goes on to /internal/grant, with a fresh token.
Granting(op, sid) == Call(op, "grant", sid, tokens + 1)
MintToken == tokens < MaxSockets /\ tokens' = tokens + 1
MintLease == sids < MaxSessions /\ sids' = sids + 1

Arrives(c) == Cardinality(calls) < MaxCalls /\ calls' = calls \union {c}

PtySession ==
    /\ MintLease /\ MintToken
    /\ Arrives(Granting("session", sids + 1))
    /\ lease' = lease \union {sids + 1}
    /\ UNCHANGED <<given, sock, memory, procs, faults>>

\* Only a session with a lease is re-attached.
Reattach(s) ==
    /\ s \in lease /\ MintToken
    /\ Arrives(Granting("reattach", s))
    /\ UNCHANGED <<lease, sids, given, sock, memory, procs, faults>>

RestartOrDispose(s) ==
    /\ s \in lease \/ sessionsById[s] # 0
    /\ Arrives(Call("kill", "kill", s, 0))
    /\ UNCHANGED <<lease, sids, tokens, given, sock, memory, procs, faults>>

\* The agent has answered, or has not in time: the lease goes; if it was
\* /pty-restart, it mints the next session.
Revoke(c) ==
    /\ c.pc = "revoke"
    /\ \/ /\ MintLease /\ MintToken
          /\ lease' = (lease \ {c.sid}) \union {sids + 1}
          /\ calls' = (calls \ {c}) \union {Granting("session", sids + 1)}
       \/ /\ lease' = lease \ {c.sid}
          /\ calls' = calls \ {c} /\ UNCHANGED <<sids, tokens>>
    /\ UNCHANGED <<given, sock, memory, procs, faults>>

\* grantPtyToken, and the answer.  A call the agent answers too late is refused
\* whether or not the agent has kept the token.
Grant(c) ==
    /\ c.pc = "grant"
    /\ calls' = calls \ {c}
    /\ \/ /\ validTokens' = [validTokens EXCEPT ![c.token] = c.sid]
          /\ given' = given \union {c.token}
          /\ UNCHANGED <<lease, faults>>
       \/ /\ Fault
          /\ validTokens' \in {validTokens, [validTokens EXCEPT ![c.token] = c.sid]}
          /\ lease' = IF c.op = "reattach" THEN lease ELSE lease \ {c.sid}
          /\ UNCHANGED given
    /\ UNCHANGED <<sids, tokens, sock, sessionsById, sessions, pty, procs>>

\* Half an hour after it was minted: nothing refreshes a lease.
LeaseExpires(s) ==
    /\ s \in lease /\ Fault
    /\ lease' = lease \ {s}
    /\ UNCHANGED <<sids, tokens, calls, given, sock, memory, procs>>

(***************************************************************************)
(* The agent.                                                              *)
(***************************************************************************)

\* clearTimeout(detachTimer).  Only the last one set can be cleared; the timers
\* run out in the order they were set.
ClearTimer(d) ==
    [d EXCEPT !.timers = IF d.handle /\ d.timers > 0 THEN d.timers - 1 ELSE d.timers,
              !.handle = FALSE]

\* Mutant: the PTY keeps its process.
DisposeNot(s, w, d) ==
    /\ pty' = [pty EXCEPT ![s] = [d EXCEPT !.spawned = FALSE]]
    /\ UNCHANGED <<proc, kill>>

\* disposeSession: SIGINT now, SIGKILL later.  d is s as changed so far, w the
\* socket that closes; a session nothing else leads to is forgotten.
Dispose(s, w, d) ==
    /\ pty' = [pty EXCEPT ![s] = IF d.timers = 0 /\ \A v \in Socket \ {w} : sessions[v] # s
                                 THEN NoSession
                                 ELSE [d EXCEPT !.proc = 0, !.spawned = FALSE]]
    /\ IF d.proc = 0 THEN UNCHANGED <<proc, kill>>
       ELSE /\ proc' = [proc EXCEPT ![d.proc] = IF @ = "running" THEN "signalled" ELSE @]
            /\ kill' = kill \union {d.proc}

\* Mutant: the first session there is.
SessionOfFirst(sid) ==
    LET live == {s \in Sid : sessionsById[s] # 0} IN
    IF live = {} THEN 0 ELSE sessionsById[CHOOSE s \in live : \A t \in live : s <= t]

SessionOf(sid) == sessionsById[sid]

\* /internal/restart.
InternalRestart(c) ==
    LET sid == c.sid
        s == SessionOf(sid) IN
    /\ c.pc = "kill"
    /\ calls' = (calls \ {c}) \union {[c EXCEPT !.pc = "revoke"]}
    /\ \/ /\ s # 0 /\ Dispose(s, 0, ClearTimer(pty[s]))
          /\ sessionsById' = [sessionsById EXCEPT ![sid] = 0]
          /\ UNCHANGED faults
       \/ /\ s = 0 /\ UNCHANGED <<sessionsById, pty, proc, kill, faults>>
       \/ Fault /\ UNCHANGED <<sessionsById, pty, proc, kill>>
    /\ UNCHANGED <<lease, sids, tokens, given, sock, validTokens, sessions, host>>

\* The upgrade of /ws and its open handler: a session that is there is taken
\* over, its PTY running on; otherwise there is a new one.
Open(w) ==
    LET sid == validTokens[w]
        s == IF sid = 0 THEN 0 ELSE sessionsById[sid] IN
    /\ w \in given
    /\ given' = given \ {w}
    /\ IF sid = 0
       THEN UNCHANGED <<sock, sessionsById, sessions, pty>>
       ELSE /\ sock' = [sock EXCEPT ![w] = "open"]
            /\ sessions' = [sessions EXCEPT ![w] = IF s # 0 THEN s ELSE w]
            /\ IF s # 0
               THEN /\ pty' = [pty EXCEPT ![s] = [ClearTimer(@) EXCEPT
                                 !.detached = FALSE, !.live = w]]
                    /\ UNCHANGED sessionsById
               ELSE /\ pty' = [pty EXCEPT ![w] = [NoSession EXCEPT
                                 !.sid = sid, !.live = w]]
                    /\ sessionsById' = [sessionsById EXCEPT ![sid] = w]
    /\ UNCHANGED <<daemon, validTokens, procs, faults>>

Started == {p \in Proc : proc[p] # "none"}

\* A start frame, or input: claude is started, once, unless it is not installed.
MaybeSpawnPty(w) ==
    LET s == sessions[w]
        p == Cardinality(Started) + 1 IN
    /\ sock[w] = "open" /\ ~pty[s].spawned
    /\ \/ /\ p \in Proc
          /\ pty' = [pty EXCEPT ![s] = [@ EXCEPT !.spawned = TRUE, !.proc = p]]
          /\ proc' = [proc EXCEPT ![p] = "running"]
          /\ host' = [host EXCEPT ![p] = s]
          /\ UNCHANGED <<sock, faults>>
       \/ /\ Fault
          /\ pty' = [pty EXCEPT ![s].spawned = TRUE]
          /\ sock' = [sock EXCEPT ![w] = "left"]     \* closed with 4404
          /\ UNCHANGED <<proc, host>>
    /\ UNCHANGED <<daemon, given, validTokens, sessionsById, sessions, kill>>

\* The sidebar closes a socket on purpose, or the socket is lost.
Leave(w) ==
    /\ sock[w] = "open"
    /\ \E how \in {"left", "lost"} : sock' = [sock EXCEPT ![w] = how]
    /\ UNCHANGED <<daemon, given, memory, procs, faults>>

\* The close handler.  After 4001, 4404 or 1000 the PTY ends, after any other
\* close it may be taken over for a while.
Close(w) ==
    LET s == sessions[w]
        d == pty[s] IN
    /\ sock[w] \in {"left", "lost"}
    /\ sessions' = [sessions EXCEPT ![w] = 0]
    /\ sock' = [sock EXCEPT ![w] = "gone"]
    /\ IF sock[w] = "left"
       THEN /\ Dispose(s, w, d)
            /\ sessionsById' = [sessionsById EXCEPT ![d.sid] = 0]
       ELSE /\ pty' = [pty EXCEPT ![s] = [d EXCEPT !.detached = TRUE, !.live = 0,
                                             !.timers = @ + 1, !.handle = TRUE]]
            /\ UNCHANGED <<sessionsById, proc, kill>>
    /\ UNCHANGED <<daemon, given, validTokens, host, faults>>

\* Mutant: the timer finds the session attached.
StillDetachedNot(d) == ~d.detached

StillDetached(d) == d.detached

\* The detach window is over.
DetachTimer(s) ==
    LET d == [pty[s] EXCEPT !.timers = @ - 1] IN
    /\ pty[s].timers > 0
    /\ IF StillDetached(d)
       THEN /\ Dispose(s, 0, d)
            /\ sessionsById' = [sessionsById EXCEPT ![d.sid] = 0]
       ELSE /\ pty' = [pty EXCEPT ![s] = d]
            /\ UNCHANGED <<sessionsById, proc, kill>>
    /\ UNCHANGED <<daemon, given, sock, validTokens, sessions, host, faults>>

\* A process is gone, and the socket attached to its session is closed.
Exited(p) ==
    LET w == pty[host[p]].live IN
    /\ proc' = [proc EXCEPT ![p] = "dead"]
    /\ sock' = IF w # 0 /\ sock[w] = "open" THEN [sock EXCEPT ![w] = "left"] ELSE sock

\* claude ends because it was told to, or by itself.
PtyExits(p) ==
    /\ \/ proc[p] = "signalled" /\ UNCHANGED faults
       \/ proc[p] = "running" /\ Fault
    /\ Exited(p)
    /\ UNCHANGED <<daemon, given, memory, host, kill>>

\* Three seconds after disposeSession: the process of the session, if it has one
\* now, is killed.
KillTimer(p) ==
    LET q == pty[host[p]].proc IN
    /\ p \in kill
    /\ kill' = kill \ {p}
    /\ IF q # 0 /\ proc[q] # "dead" THEN Exited(q) ELSE UNCHANGED <<proc, sock>>
    /\ UNCHANGED <<daemon, given, memory, host, faults>>

\* The agent crashes with all it remembers, its sockets and PTYs; the watchdog
\* starts another.
Respawn ==
    /\ Fault
    /\ validTokens' = [w \in Socket |-> 0]
    /\ sessionsById' = [s \in Sid |-> 0]
    /\ sessions' = [w \in Socket |-> 0]
    /\ pty' = [s \in Session |-> NoSession]
    /\ sock' = [w \in Socket |-> IF sock[w] = "none" THEN "none" ELSE "gone"]
    /\ proc' = [p \in Proc |-> IF proc[p] = "none" THEN "none" ELSE "dead"]
    /\ kill' = {}
    /\ UNCHANGED <<daemon, given, host>>

Daemon ==
    \/ PtySession
    \/ \E c \in calls : Revoke(c) \/ Grant(c)
    \/ \E s \in Sid : Reattach(s) \/ RestartOrDispose(s) \/ LeaseExpires(s)
Agent ==
    \/ \E c \in calls : InternalRestart(c)
    \/ \E w \in Socket : Open(w) \/ MaybeSpawnPty(w) \/ Leave(w) \/ Close(w)
    \/ \E s \in Session : DetachTimer(s)
    \/ \E p \in Proc : PtyExits(p) \/ KillTimer(p)

Next == Daemon \/ Agent \/ Respawn

Spec == Init /\ [][Next]_vars

\* The agent's event loop runs its handlers and timers.
FairSpec ==
    /\ Spec
    /\ \A w \in Socket : WF_vars(Close(w))
    /\ \A s \in Session : WF_vars(DetachTimer(s))

(***************************************************************************)
(* Properties.                                                             *)
(***************************************************************************)

\* Every variable keeps its type; what the daemon and the agent hold was minted.
TypeOK ==
    /\ lease \subseteq 1..sids /\ given \subseteq 1..tokens
    /\ \A w \in Socket : validTokens[w] \in 0..sids
    /\ \A s \in Sid : sessionsById[s] # 0 => pty[sessionsById[s]].sid = s
    /\ \A w \in Socket : (sock[w] \in {"open", "left", "lost"}) <=> (sessions[w] # 0)
    /\ \A s \in Session : pty[s].live # 0 => pty[s].detached = FALSE
    /\ kill \subseteq Started

\* A socket the agent still believes in leads to the session.
Watched(s) == \E w \in Socket : sessions[w] = s

\* "Without this, every browser quit leaves a zombie PTY alive": a claude
\* nobody told to stop has a socket that leads to it, or a timer that will stop it.
NoZombie ==
    \A p \in Proc : proc[p] = "running" =>
        LET s == host[p] IN pty[s].proc = p /\ (Watched(s) \/ (pty[s].timers > 0 /\ pty[s].detached))

\* "We kill ONLY that PTY, leaving any other live sidebar tabs untouched", and
\* "claude keeps running through the wifi blip": the claude of a sidebar that is
\* attached is told to stop by a restart or dispose of this very session, or by
\* another socket of the session closed on purpose; by no timer of an earlier
\* detach and by nobody else's restart.
RunsWhileAttached ==
    [][\A s \in Session : LET w == pty[s].live  p == pty[s].proc IN
         (w # 0 /\ sock[w] = "open" /\ p # 0 /\ proc[p] = "running" /\ proc'[p] = "signalled")
         => \/ \E c \in calls \ calls' : c.pc = "kill" /\ c.sid = pty[s].sid
            \/ \E v \in Socket \ {w} : sessions[v] = s /\ sessions'[v] = 0]_vars

\* A claude whose sockets are all gone is stopped, or somebody attaches again.
LeftEnds ==
    \A p \in Proc :
        (proc[p] = "running" /\ ~Watched(host[p]))
        ~> (proc[p] # "running" \/ Watched(host[p]))

\* "SIGINT, then SIGKILL after 3s": a claude that was disposed and did not end
\* by itself is killed when the timer has run.
KilledAfterGrace == \A p \in Proc : proc[p] = "signalled" => p \in kill

\* "The new ws takes its place", and what claude prints "always goes to whichever
\* ws is currently attached": to the one socket left, once the others closed.
OutputSeen ==
    \A s \in Session, w \in Socket :
        sock[w] = "open" /\ {v \in Socket : sessions[v] = s} = {w} => pty[s].live = w
=============================================================================
