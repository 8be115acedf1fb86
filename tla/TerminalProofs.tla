---------------------------- MODULE TerminalProofs ----------------------------
(***************************************************************************)
(* Theorems about Terminal, for any number of calls, sessions, sockets,    *)
(* processes and failures.                                                 *)
(***************************************************************************)
EXTENDS Terminal, FiniteSetTheorems, TLAPS

USE DEF daemon, memory, procs, Sid, Socket, Proc, Session

Calls == [op : {"session", "reattach", "kill"}, pc : {"grant", "kill", "revoke"},
          sid : Sid, token : {0} \union Socket]
Ptys == [sid : {0} \union Sid, proc : {0} \union Proc, spawned : BOOLEAN,
         live : {0} \union Socket, detached : BOOLEAN, timers : Nat, handle : BOOLEAN]

Typed ==
    /\ lease \subseteq Sid /\ sids \in 0..MaxSessions /\ tokens \in 0..MaxSockets
    /\ calls \subseteq Calls /\ given \subseteq Socket
    /\ sock \in [Socket -> {"none", "open", "left", "lost", "gone"}]
    /\ validTokens \in [Socket -> {0} \union Sid]
    /\ sessionsById \in [Sid -> {0} \union Session]
    /\ sessions \in [Socket -> {0} \union Session]
    /\ pty \in [Session -> Ptys]
    /\ proc \in [Proc -> {"none", "running", "signalled", "dead"}]
    /\ host \in [Proc -> {0} \union Session]
    /\ kill \subseteq Proc

\* A token is with one request, or with the sidebar, until its socket is opened.
Unused ==
    /\ \A w \in Socket : w > tokens \/ w \in given => sock[w] = "none"
    /\ \A w \in given : w <= tokens
    /\ \A c \in calls : c.pc = "grant" =>
          c.token \in 1..tokens /\ c.token \notin given /\ sock[c.token] = "none"
    /\ \A c, d \in calls : c.pc = "grant" /\ d.pc = "grant" /\ c.token = d.token => c = d

\* A session bears the number of a socket that was opened.
Made ==
    /\ \A w \in Socket : (sock[w] \in {"open", "left", "lost"}) <=> (sessions[w] # 0)
    /\ \A w \in Socket : sessions[w] # 0 => sock[sessions[w]] # "none"
    /\ \A i \in Sid : sessionsById[i] # 0 => sock[sessionsById[i]] # "none"
    /\ \A p \in Proc : proc[p] # "none" => host[p] # 0 /\ sock[host[p]] # "none"

Spawned == \A s \in Session : ~pty[s].spawned => pty[s].proc = 0

\* Processes are numbered as they are started.
Numbered == Started = 1..Cardinality(Started)

\* What a session has, or a timer is to kill, was started.
Held ==
    /\ kill \subseteq Started
    /\ \A s \in Session : pty[s].proc # 0 => proc[pty[s].proc] # "none"

ZInv == Typed /\ Unused /\ Made /\ Spawned /\ Numbered /\ Held /\ NoZombie

-----------------------------------------------------------------------------

LEMMA NoSessionTyped == NoSession \in Ptys /\ NoSession.proc = 0
BY BoundsNatural DEF NoSession, Ptys

LEMMA InitZInv == Init => ZInv
<1> SUFFICES ASSUME Init PROVE ZInv
  OBVIOUS
<1>1. Typed
  BY NoSessionTyped, BoundsNatural DEF Init, Typed
<1>2. Started = {} /\ Cardinality(Started) = 0
  BY FS_EmptySet DEF Init, Started
<1>3. Numbered
  BY <1>2 DEF Numbered
<1>4. Unused /\ Made /\ NoZombie
  BY DEF Init, Unused, Made, NoZombie
<1>5. Spawned /\ Held
  BY NoSessionTyped DEF Init, Spawned, Held
<1> QED
  BY <1>1, <1>3, <1>4, <1>5 DEF ZInv

\* The daemon touches none of what the agent keeps but the tokens it knows.
LEMMA DaemonStep ==
    ASSUME ZInv, Daemon
    PROVE  ZInv'
<1> USE DEF ZInv
<1>0. UNCHANGED <<sock, sessionsById, sessions, pty, procs>>
  BY DEF Daemon, PtySession, Revoke, Grant, Reattach, RestartOrDispose, LeaseExpires
<1>1. Made' /\ Spawned' /\ Numbered' /\ Held' /\ NoZombie'
  BY <1>0 DEF Made, Spawned, Numbered, Held, Started, NoZombie, Watched
<1>2. ASSUME MintToken, NEW op \in {"session", "reattach"}, NEW i \in Sid
      PROVE  /\ Granting(op, i) \in Calls
             /\ Granting(op, i).pc = "grant" /\ Granting(op, i).token = tokens + 1
             /\ tokens' = tokens + 1 /\ tokens + 1 \in Socket
  BY <1>2, BoundsNatural DEF Typed, MintToken, Granting, Call, Calls
<1>3. MintLease => sids + 1 \in Sid /\ sids' = sids + 1
  BY BoundsNatural DEF MintLease, Typed
<1>4. ASSUME MintToken, NEW op \in {"session", "reattach"}, NEW i \in Sid,
             calls' \subseteq calls \union {Granting(op, i)}, UNCHANGED <<given, sock>>
      PROVE  Unused' /\ calls' \subseteq Calls /\ tokens' \in 0..MaxSockets
  <2> DEFINE g == Granting(op, i)
  <2>1. /\ g \in Calls /\ g.pc = "grant" /\ g.token = tokens + 1 /\ tokens' = tokens + 1
        /\ tokens + 1 \in Socket /\ calls' \subseteq calls \union {g}
    BY <1>2, <1>4
  <2> HIDE DEF g
  <2>2. tokens \in Nat /\ calls \subseteq Calls /\ given \subseteq Socket
    BY BoundsNatural DEF Typed
  <2>3. tokens' \in 0..MaxSockets /\ calls' \subseteq Calls
    BY <2>1, BoundsNatural DEF Typed
  <2>4. \A w \in Socket : w > tokens' \/ w \in given => sock[w] = "none"
    BY <2>1, <2>2, BoundsNatural DEF Unused
  <2>5. \A w \in given : w <= tokens /\ w <= tokens'
    BY <2>1, <2>2, BoundsNatural DEF Unused
  <2>6. \A c \in calls : c.pc = "grant" => c.token \in 1..tokens
    BY DEF Unused
  <2>7. ASSUME NEW c \in calls', c.pc = "grant"
        PROVE  c.token \in 1..tokens' /\ c.token \notin given /\ sock[c.token] = "none"
    <3>1. CASE c \in calls
      BY <2>1, <2>2, <2>7, <3>1 DEF Unused
    <3>2. CASE c = g
      BY <2>1, <2>2, <2>5, <3>2 DEF Unused
    <3> QED
      BY <2>1, <3>1, <3>2
  <2>8. ASSUME NEW c \in calls', NEW d \in calls', c.pc = "grant", d.pc = "grant", c.token = d.token
        PROVE  c = d
    BY <2>1, <2>2, <2>6, <2>8 DEF Unused
  <2> QED
    BY <1>4, <2>1, <2>3, <2>4, <2>5, <2>7, <2>8 DEF Unused
<1>5. CASE PtySession
  <2>1. calls' \subseteq calls \union {Granting("session", sids + 1)}
    BY <1>5 DEF PtySession, Arrives
  <2> QED
    BY <1>0, <1>1, <1>3, <1>4, <1>5, <2>1, BoundsNatural DEF PtySession, Typed
<1>6. ASSUME NEW i \in Sid, Reattach(i) PROVE ZInv'
  <2>1. calls' \subseteq calls \union {Granting("reattach", i)}
    BY <1>6 DEF Reattach, Arrives
  <2> QED
    BY <1>0, <1>1, <1>4, <1>6, <2>1 DEF Reattach, Typed
<1>7. ASSUME NEW i \in Sid, RestartOrDispose(i) PROVE ZInv'
  <2>1. Call("kill", "kill", i, 0) \in Calls /\ Call("kill", "kill", i, 0).pc = "kill"
    BY DEF Call, Calls
  <2>2. calls' = calls \union {Call("kill", "kill", i, 0)}
    BY <1>7 DEF RestartOrDispose, Arrives
  <2>3. UNCHANGED <<lease, sids, tokens, given, memory>>
    BY <1>7 DEF RestartOrDispose
  <2>4. Unused'
    BY <1>0, <2>1, <2>2, <2>3 DEF Unused
  <2> QED
    BY <1>0, <1>1, <2>1, <2>2, <2>3, <2>4 DEF Typed
<1>8. ASSUME NEW c \in calls, Revoke(c) PROVE ZInv'
  <2>0. UNCHANGED <<given, memory>>
    BY <1>8 DEF Revoke
  <2>1. CASE MintLease /\ MintToken /\ lease' = (lease \ {c.sid}) \union {sids + 1}
             /\ calls' = (calls \ {c}) \union {Granting("session", sids + 1)}
    <3>1. calls' \subseteq calls \union {Granting("session", sids + 1)} /\ sids + 1 \in Sid
          /\ sids' = sids + 1
      BY <1>3, <2>1
    <3>2. Unused' /\ calls' \subseteq Calls /\ tokens' \in 0..MaxSockets
      BY <1>0, <1>4, <2>0, <2>1, <3>1
    <3>3. Typed'
      <4>1. lease' \subseteq Sid /\ sids' \in 0..MaxSessions
        <5>1. lease' = (lease \ {c.sid}) \union {sids + 1} /\ lease \subseteq Sid
          BY <2>1 DEF Typed
        <5>2. lease' \subseteq Sid
          BY <3>1, <5>1
        <5>3. sids' \in 0..MaxSessions
          BY <3>1
        <5> QED
          BY <5>2, <5>3
      <4> QED
        BY <1>0, <2>0, <3>2, <4>1 DEF Typed
    <3> QED
      BY <1>1, <3>2, <3>3
  <2>2. CASE lease' = lease \ {c.sid} /\ calls' = calls \ {c} /\ UNCHANGED <<sids, tokens>>
    <3>1. Unused'
      BY <1>0, <2>0, <2>2 DEF Unused
    <3> QED
      BY <1>0, <1>1, <2>0, <2>2, <3>1 DEF Typed
  <2> QED
    BY <1>8, <2>1, <2>2 DEF Revoke
<1>9. ASSUME NEW c \in calls, Grant(c) PROVE ZInv'
  <2>1. /\ c \in Calls /\ c.pc = "grant" /\ calls' = calls \ {c} /\ UNCHANGED <<sids, tokens>>
        /\ given' = given \/ given' = given \union {c.token}
        /\ lease' \subseteq lease
        /\ validTokens' = validTokens \/ validTokens' = [validTokens EXCEPT ![c.token] = c.sid]
    BY <1>9 DEF Grant, Typed
  <2>2. c.token \in Socket /\ c.sid \in Sid /\ c.token <= tokens /\ sock[c.token] = "none"
    BY <2>1, BoundsNatural DEF Typed, Unused, Calls
  <2>3. Unused'
    BY <1>0, <2>1, <2>2 DEF Unused
  <2>4. Typed'
    BY <1>0, <2>1, <2>2 DEF Typed
  <2> QED
    BY <1>1, <2>3, <2>4
<1>10. ASSUME NEW i \in Sid, LeaseExpires(i) PROVE ZInv'
  BY <1>0, <1>1, <1>10 DEF LeaseExpires, Typed, Unused
<1> QED
  BY <1>5, <1>6, <1>7, <1>8, <1>9, <1>10 DEF Daemon

-----------------------------------------------------------------------------

\* Timers come and go; who runs in the session does not change.
LEMMA ClearTimerKeeps ==
    ASSUME NEW d \in Ptys
    PROVE  /\ ClearTimer(d) \in Ptys
           /\ ClearTimer(d).proc = d.proc /\ ClearTimer(d).spawned = d.spawned
<1> DEFINE n == IF d.handle /\ d.timers > 0 THEN d.timers - 1 ELSE d.timers
<1>1. n \in Nat
  BY DEF Ptys
<1>2. ClearTimer(d) = [d EXCEPT !.timers = n, !.handle = FALSE]
  BY DEF ClearTimer
<1> HIDE DEF n
<1>3. ClearTimer(d) \in Ptys
  BY <1>1, <1>2 DEF Ptys
<1>4. ClearTimer(d).proc = d.proc
  BY <1>2 DEF Ptys
<1>5. ClearTimer(d).spawned = d.spawned
  BY <1>2 DEF Ptys
<1> QED
  BY <1>3, <1>4, <1>5

\* disposeSession: the process of the session, if there is one, was told to stop; no other was.
LEMMA DisposeStops ==
    ASSUME Typed, Held, NoZombie, NEW s \in Session, NEW w, NEW d \in Ptys,
           d.proc = pty[s].proc, Dispose(s, w, d)
    PROVE  /\ pty' \in [Session -> Ptys]
           /\ \A t \in Session \ {s} : pty'[t] = pty[t]
           /\ pty'[s].proc = 0
           /\ proc' \in [Proc -> {"none", "running", "signalled", "dead"}] /\ kill' \subseteq Proc
           /\ \A p \in Proc : (proc'[p] = "none") <=> (proc[p] = "none")
           /\ \A p \in Proc : proc'[p] = "running" => proc[p] = "running" /\ host[p] # s
           /\ Held'
<1> DEFINE r == [d EXCEPT !.proc = 0, !.spawned = FALSE]
<1>1. r \in Ptys /\ r.proc = 0
  BY DEF Ptys
<1>2. pty' = [pty EXCEPT ![s] = NoSession] \/ pty' = [pty EXCEPT ![s] = r]
  BY DEF Dispose
<1> HIDE DEF r
<1>3. /\ pty' \in [Session -> Ptys] /\ \A t \in Session \ {s} : pty'[t] = pty[t]
      /\ pty'[s].proc = 0
  <2>1. ASSUME NEW v \in Ptys, v.proc = 0, pty' = [pty EXCEPT ![s] = v]
        PROVE  /\ pty' \in [Session -> Ptys] /\ \A t \in Session \ {s} : pty'[t] = pty[t]
               /\ pty'[s].proc = 0
    <3>1. pty \in [Session -> Ptys]
      BY DEF Typed
    <3> QED
      BY <2>1, <3>1
  <2> QED
    BY <1>1, <1>2, <2>1, NoSessionTyped
<1>4. \A p \in Proc : proc[p] = "running" /\ host[p] = s => d.proc = p
  BY DEF NoZombie
<1>7. d.proc # 0 => d.proc \in Started
  BY DEF Held, Started, Ptys
<1>8. ASSUME \A p \in Proc : (proc'[p] = "none") <=> (proc[p] = "none"),
             kill' \subseteq Started
      PROVE  Held'
  <2>1. Started' = Started
    BY <1>8 DEF Started
  <2>2. \A t \in Session : pty'[t].proc = 0 \/ pty'[t].proc = pty[t].proc
    BY <1>3
  <2>3. \A t \in Session : pty[t].proc # 0 => pty[t].proc \in Proc /\ proc[pty[t].proc] # "none"
    BY DEF Held, Typed, Ptys
  <2> QED
    BY <1>8, <2>1, <2>2, <2>3 DEF Held
<1>5. CASE d.proc = 0
  <2>1. UNCHANGED <<proc, kill>>
    BY <1>5 DEF Dispose
  <2>2. \A p \in Proc : proc[p] = "running" => host[p] # s
    BY <1>4, <1>5
  <2>3. Held'
    BY <1>8, <2>1 DEF Held
  <2> QED
    BY <1>3, <2>1, <2>2, <2>3 DEF Typed
<1>6. CASE d.proc # 0
  <2>1. d.proc \in Proc
    BY <1>6 DEF Ptys
  <2>2. /\ proc' = [proc EXCEPT ![d.proc] = IF @ = "running" THEN "signalled" ELSE @]
        /\ kill' = kill \union {d.proc}
    BY <1>6 DEF Dispose
  <2>3. \A p \in Proc : proc'[p] = IF p = d.proc /\ proc[p] = "running" THEN "signalled" ELSE proc[p]
    BY <2>1, <2>2 DEF Typed
  <2>4. Held'
    BY <1>7, <1>8, <1>6, <2>2, <2>3 DEF Held
  <2> QED
    BY <1>3, <1>4, <2>1, <2>2, <2>3, <2>4 DEF Typed
<1> QED
  BY <1>5, <1>6

LEMMA StartedSame ==
    ASSUME Numbered, \A p \in Proc : (proc'[p] = "none") <=> (proc[p] = "none")
    PROVE  Numbered'
<1>1. Started' = Started
  BY DEF Started
<1> QED
  BY <1>1 DEF Numbered

LEMMA InternalRestartStep ==
    ASSUME ZInv, NEW c \in calls, InternalRestart(c)
    PROVE  ZInv'
<1> USE DEF ZInv
<1>1. /\ c \in Calls /\ c.pc = "kill"
      /\ calls' = (calls \ {c}) \union {[c EXCEPT !.pc = "revoke"]}
      /\ UNCHANGED <<lease, sids, tokens, given, sock, validTokens, sessions, host>>
  BY DEF InternalRestart, Typed
<1>2. [c EXCEPT !.pc = "revoke"] \in Calls /\ [c EXCEPT !.pc = "revoke"].pc = "revoke"
  BY <1>1 DEF Calls
<1>3. calls' \subseteq Calls /\ Unused'
  <2>1. \A d \in calls' : d \in calls \/ (d \in Calls /\ d.pc = "revoke")
    BY <1>1, <1>2
  <2> QED
    BY <1>1, <2>1 DEF Unused, Typed
<1>4. CASE UNCHANGED <<sessionsById, pty, proc, kill>>
  <2>1. Numbered'
    BY <1>4, StartedSame
  <2> QED
    BY <1>1, <1>3, <1>4, <2>1 DEF Typed, Made, Spawned, Held, Started, NoZombie, Watched
<1>5. CASE LET s == SessionOf(c.sid) IN
           /\ s # 0 /\ Dispose(s, 0, ClearTimer(pty[s]))
           /\ sessionsById' = [sessionsById EXCEPT ![c.sid] = 0]
  <2> DEFINE s == SessionOf(c.sid)
  <2>1. s \in Session /\ pty[s] \in Ptys
    BY <1>1, <1>5 DEF SessionOf, Calls, Typed
  <2>2. /\ Dispose(s, 0, ClearTimer(pty[s]))
        /\ sessionsById' = [sessionsById EXCEPT ![c.sid] = 0]
    BY <1>5
  <2> HIDE DEF s
  <2>3. /\ pty' \in [Session -> Ptys]
        /\ \A t \in Session \ {s} : pty'[t] = pty[t]
        /\ pty'[s].proc = 0
        /\ proc' \in [Proc -> {"none", "running", "signalled", "dead"}] /\ kill' \subseteq Proc
        /\ \A p \in Proc : (proc'[p] = "none") <=> (proc[p] = "none")
        /\ \A p \in Proc : proc'[p] = "running" => proc[p] = "running" /\ host[p] # s
        /\ Held'
    BY <2>1, <2>2, ClearTimerKeeps, DisposeStops
  <2>4. Typed'
    BY <1>1, <1>3, <2>2, <2>3 DEF Typed
  <2>5. Made'
    BY <1>1, <2>2, <2>3 DEF Made, Typed
  <2>6. Spawned'
    BY <2>3 DEF Spawned
  <2>7. NoZombie'
    <3>1. SUFFICES ASSUME NEW p \in Proc, proc'[p] = "running"
                   PROVE  /\ pty'[host[p]].proc = p
                          /\ Watched(host[p])' \/ (pty'[host[p]].timers > 0 /\ pty'[host[p]].detached)
      BY <1>1 DEF NoZombie
    <3>2. proc[p] = "running" /\ host[p] # s /\ host[p] \in Session
      BY <2>3, <3>1 DEF Made, Typed
    <3> QED
      BY <1>1, <2>3, <3>2 DEF NoZombie, Watched
  <2> QED
    BY <1>3, <2>3, <2>4, <2>5, <2>6, <2>7, StartedSame
<1> QED
  BY <1>4, <1>5 DEF InternalRestart

\* What a step of the agent leaves alone is as it was.
LEMMA OpenStep ==
    ASSUME ZInv, NEW w \in Socket, Open(w)
    PROVE  ZInv'
<1> USE DEF ZInv
<1> DEFINE i == validTokens[w]
<1> DEFINE s == IF i = 0 THEN 0 ELSE sessionsById[i]
<1>1. /\ w \in given /\ given' = given \ {w}
      /\ UNCHANGED <<daemon, validTokens, procs>>
  BY DEF Open
<1>2. sock[w] = "none" /\ sessions[w] = 0 /\ w <= tokens
  BY <1>1 DEF Unused, Made, Typed
<1>3. i \in {0} \union Sid /\ s \in {0} \union Session /\ (s # 0 => sock[s] # "none" /\ s # w)
  BY <1>2 DEF Typed, Made
<1>4. \A p \in Proc : proc[p] # "none" => host[p] \in Session \ {w} /\ sock[host[p]] # "none"
  BY <1>2 DEF Made, Typed
<1>5. Numbered'
  BY <1>1, StartedSame
<1>6. CASE i = 0
  <2>1. UNCHANGED <<sock, sessionsById, sessions, pty>>
    BY <1>6 DEF Open
  <2>2. Typed' /\ Unused'
    BY <1>1, <2>1 DEF Typed, Unused
  <2> QED
    BY <1>1, <1>5, <2>1, <2>2 DEF Made, Spawned, Held, Started, NoZombie, Watched
<1>7. CASE i # 0
  <2> DEFINE to == IF s # 0 THEN s ELSE w
  <2>1. sock' = [sock EXCEPT ![w] = "open"] /\ sessions' = [sessions EXCEPT ![w] = to]
    BY <1>7 DEF Open
  <2>2. to \in Session /\ (to = w \/ (to = s /\ sock[to] # "none"))
    BY <1>3
  <2>3. \A v \in Socket : sock'[v] = IF v = w THEN "open" ELSE sock[v]
    BY <2>1 DEF Typed
  <2>4. \A v \in Socket : sessions'[v] = IF v = w THEN to ELSE sessions[v]
    BY <2>1 DEF Typed
  <2>5. Unused'
    <3>1. \A c \in calls : c.pc = "grant" => c.token \in Socket /\ c.token # w /\ c.token \notin given
                                           /\ c.token \in 1..tokens /\ sock[c.token] = "none"
      BY <1>1, BoundsNatural DEF Unused, Typed
    <3>2. \A c \in calls : c.pc = "grant" => sock'[c.token] = "none"
      BY <2>3, <3>1
    <3>3. \A v \in Socket : v > tokens \/ v \in given' => sock'[v] = "none"
      BY <1>1, <1>2, <2>3, BoundsNatural DEF Unused, Typed
    <3> QED
      BY <1>1, <3>1, <3>2, <3>3 DEF Unused
  <2>6. \E v \in Ptys :
           /\ pty' = [pty EXCEPT ![to] = v]
           /\ \/ v.proc = pty[to].proc /\ v.spawned = pty[to].spawned
              \/ to = w /\ v.proc = 0
    <3>1. CASE s # 0
      <4> DEFINE v == [ClearTimer(pty[s]) EXCEPT !.detached = FALSE, !.live = w]
      <4>1. ClearTimer(pty[s]) \in Ptys /\ ClearTimer(pty[s]).proc = pty[s].proc
            /\ ClearTimer(pty[s]).spawned = pty[s].spawned
        BY <1>3, <3>1, ClearTimerKeeps DEF Typed
      <4>2. v \in Ptys /\ v.proc = ClearTimer(pty[s]).proc
        BY <4>1 DEF Ptys
      <4>3. v.spawned = ClearTimer(pty[s]).spawned
        BY <4>1 DEF Ptys
      <4>4. pty' = [pty EXCEPT ![s] = v]
        BY <1>3, <1>7, <3>1 DEF Open, Typed
      <4> HIDE DEF v
      <4> QED
        BY <3>1, <4>1, <4>2, <4>3, <4>4
    <3>2. CASE s = 0
      <4> DEFINE v == [NoSession EXCEPT !.sid = i, !.live = w]
      <4>1. v \in Ptys /\ v.proc = 0
        BY <1>3, NoSessionTyped DEF Ptys
      <4>2. pty' = [pty EXCEPT ![w] = v]
        BY <1>7, <3>2 DEF Open
      <4> HIDE DEF v
      <4> QED
        BY <3>2, <4>1, <4>2
    <3> QED
      BY <3>1, <3>2
  <2>7. sessionsById' = sessionsById \/ sessionsById' = [sessionsById EXCEPT ![i] = w]
    BY <1>7 DEF Open
  <2> HIDE DEF to
  <2>8. PICK v \in Ptys :
           /\ pty' = [pty EXCEPT ![to] = v]
           /\ \/ v.proc = pty[to].proc /\ v.spawned = pty[to].spawned
              \/ to = w /\ v.proc = 0
    BY <2>6
  <2>9. /\ pty' \in [Session -> Ptys] /\ pty'[to] = v
        /\ \A t \in Session \ {to} : pty'[t] = pty[t]
    BY <2>2, <2>8 DEF Typed
  <2>10. Typed'
    BY <1>1, <1>3, <2>1, <2>2, <2>7, <2>9 DEF Typed
  <2>11. Made'
    <3>1. \A t \in Session : sock[t] # "none" => sock'[t] # "none"
      BY <2>3
    <3>2. sock'[to] # "none"
      BY <2>2, <2>3
    <3>3. \A j \in Sid : sessionsById'[j] # 0 => sock'[sessionsById'[j]] # "none"
      <4>1. CASE sessionsById' = sessionsById
        BY <3>1, <4>1 DEF Made, Typed
      <4>2. CASE sessionsById' = [sessionsById EXCEPT ![i] = w]
        <5>1. sock'[w] # "none"
          BY <2>3
        <5>2. \A j \in Sid : sessionsById'[j] \in {w, sessionsById[j]}
          BY <4>2 DEF Typed
        <5> QED
          BY <3>1, <5>1, <5>2 DEF Made, Typed
      <4> QED
        BY <2>7, <4>1, <4>2
    <3>4. \A u \in Socket : /\ (sock'[u] \in {"open", "left", "lost"}) <=> (sessions'[u] # 0)
                            /\ sessions'[u] # 0 => sock'[sessions'[u]] # "none"
      BY <2>2, <2>3, <2>4, <3>1, <3>2 DEF Made, Typed
    <3> QED
      <4>1. \A p \in Proc : proc'[p] # "none" => host'[p] # 0 /\ sock'[host'[p]] # "none"
        BY <1>1, <1>4, <3>1, BoundsNatural
      <4>2. \A u \in Socket : (sock'[u] \in {"open", "left", "lost"}) <=> (sessions'[u] # 0)
        BY <3>4
      <4>3. \A u \in Socket : sessions'[u] # 0 => sock'[sessions'[u]] # "none"
        BY <3>4
      <4> QED
        BY <3>3, <4>1, <4>2, <4>3 DEF Made
  <2>12. Spawned'
    BY <2>8, <2>9, <2>2 DEF Spawned
  <2>13. NoZombie'
    <3>1. SUFFICES ASSUME NEW p \in Proc, proc[p] = "running"
                   PROVE  /\ pty'[host[p]].proc = p
                          /\ Watched(host[p])' \/ (pty'[host[p]].timers > 0 /\ pty'[host[p]].detached)
      BY <1>1 DEF NoZombie
    <3>2. host[p] \in Session \ {w} /\ pty[host[p]].proc = p
      BY <1>4, <3>1 DEF NoZombie
    <3>3. CASE host[p] = to
      BY <1>1, <2>4, <2>8, <2>9, <3>2, <3>3 DEF Watched
    <3>4. CASE host[p] # to
      <4>1. Watched(host[p]) => Watched(host[p])'
        BY <1>1, <1>2, <2>4, <3>2 DEF Watched
      <4> QED
        BY <1>1, <2>9, <3>1, <3>2, <3>4, <4>1 DEF NoZombie
    <3> QED
      BY <3>3, <3>4
  <2>14. Held'
    <3>1. Started' = Started /\ UNCHANGED <<kill, proc>>
      BY <1>1 DEF Started
    <3>2. \A t \in Session : pty'[t].proc = 0 \/ pty'[t].proc = pty[t].proc
      BY <2>8, <2>9
    <3> QED
      BY <3>1, <3>2 DEF Held
  <2> QED
    BY <1>5, <2>5, <2>10, <2>11, <2>12, <2>13, <2>14
<1> QED
  BY <1>6, <1>7

\* The next process has a number no started one has.
LEMMA NextNumber ==
    ASSUME Numbered, NEW p, p = Cardinality(Started) + 1, p \in Proc
    PROVE  proc[p] = "none" /\ Started \union {p} = 1..p /\ Cardinality(1..p) = p
<1>1. Started \subseteq Proc /\ IsFiniteSet(Proc)
  BY FS_Interval, BoundsNatural DEF Started
<1>2. Cardinality(Started) \in Nat
  BY <1>1, FS_Subset, FS_CardinalityType
<1> DEFINE n == Cardinality(Started)
<1>3. n \in Nat /\ Started = 1..n /\ p = n + 1
  BY <1>2 DEF Numbered
<1> HIDE DEF n
<1>4. p \notin Started
  BY <1>3
<1>5. Cardinality(1..p) = p
  BY <1>3, FS_Interval
<1>6. Started \union {p} = 1..p
  BY <1>3
<1> QED
  BY <1>4, <1>5, <1>6 DEF Started

\* A step in which sockets close and processes end, and no session changes.
LEMMA QuietStep ==
    ASSUME ZInv, UNCHANGED <<daemon, given, memory, host>>, kill' \subseteq kill,
           proc' \in [Proc -> {"none", "running", "signalled", "dead"}],
           \A p \in Proc : (proc'[p] = "none") <=> (proc[p] = "none"),
           \A p \in Proc : proc'[p] = "running" => proc[p] = "running",
           sock' \in [Socket -> {"none", "open", "left", "lost", "gone"}],
           \A w \in Socket : \/ sock'[w] = sock[w]
                             \/ sock[w] = "open" /\ sock'[w] \in {"left", "lost"}
    PROVE  ZInv'
<1> USE DEF ZInv
<1>1. Typed'
  BY DEF Typed
<1>2. Unused'
  BY BoundsNatural DEF Unused, Typed
<1>3. \A w \in Socket : /\ (sock'[w] = "none") <=> (sock[w] = "none")
                        /\ sock'[w] \in {"open", "left", "lost"} <=> sock[w] \in {"open", "left", "lost"}
  OBVIOUS
<1>4. Made'
  <2>1. \A w \in Socket : (sock'[w] \in {"open", "left", "lost"}) <=> (sessions'[w] # 0)
    BY <1>3 DEF Made
  <2>2. \A w \in Socket : sessions'[w] # 0 => sock'[sessions'[w]] # "none"
    BY <1>3 DEF Made, Typed
  <2>3. \A i \in Sid : sessionsById'[i] # 0 => sock'[sessionsById'[i]] # "none"
    BY <1>3 DEF Made, Typed
  <2>4. \A p \in Proc : proc'[p] # "none" => host'[p] # 0 /\ sock'[host'[p]] # "none"
    BY <1>3 DEF Made, Typed
  <2> QED
    BY <2>1, <2>2, <2>3, <2>4 DEF Made
<1>5. Spawned' /\ NoZombie'
  BY DEF Spawned, NoZombie, Watched
<1>6. Held'
  <2>1. Started' = Started
    BY DEF Started
  <2>2. \A s \in Session : pty[s].proc # 0 => pty[s].proc \in Proc /\ proc[pty[s].proc] # "none"
    BY DEF Held, Typed, Ptys
  <2> QED
    BY <2>1, <2>2 DEF Held
<1> QED
  BY <1>1, <1>2, <1>4, <1>5, <1>6, StartedSame

LEMMA LeaveStep ==
    ASSUME ZInv, NEW w \in Socket, Leave(w)
    PROVE  ZInv'
<1>1. /\ sock[w] = "open" /\ UNCHANGED <<daemon, given, memory, procs>>
      /\ \E how \in {"left", "lost"} : sock' = [sock EXCEPT ![w] = how]
  BY DEF Leave
<1> QED
  BY <1>1, QuietStep DEF ZInv, Typed

LEMMA ExitStep ==
    ASSUME ZInv, NEW p \in Proc, Exited(p), proc[p] # "none", kill' \subseteq kill,
           UNCHANGED <<daemon, given, memory, host>>
    PROVE  ZInv'
<1>1. /\ proc' = [proc EXCEPT ![p] = "dead"]
      /\ sock' = sock \/ \E w : sock[w] = "open" /\ sock' = [sock EXCEPT ![w] = "left"]
  BY DEF Exited
<1>2. /\ proc' \in [Proc -> {"none", "running", "signalled", "dead"}]
      /\ \A q \in Proc : proc'[q] = IF q = p THEN "dead" ELSE proc[q]
  BY <1>1 DEF ZInv, Typed
<1>3. /\ sock' \in [Socket -> {"none", "open", "left", "lost", "gone"}]
      /\ \A w \in Socket : \/ sock'[w] = sock[w]
                           \/ sock[w] = "open" /\ sock'[w] \in {"left", "lost"}
  BY <1>1 DEF ZInv, Typed
<1> QED
  BY <1>2, <1>3, QuietStep

LEMMA PtyExitsStep ==
    ASSUME ZInv, NEW p \in Proc, PtyExits(p)
    PROVE  ZInv'
BY ExitStep DEF PtyExits

LEMMA KillTimerStep ==
    ASSUME ZInv, NEW p \in Proc, KillTimer(p)
    PROVE  ZInv'
<1> DEFINE q == pty[host[p]].proc
<1>1. /\ kill' \subseteq kill /\ UNCHANGED <<daemon, given, memory, host, faults>>
      /\ (q # 0 /\ proc[q] # "dead" /\ Exited(q)) \/ UNCHANGED <<proc, sock>>
  BY DEF KillTimer
<1>2. CASE UNCHANGED <<proc, sock>>
  BY <1>1, <1>2, QuietStep DEF ZInv, Typed
<1>3. CASE q # 0 /\ proc[q] # "dead" /\ Exited(q)
  <2>1. p \in Proc /\ proc[p] # "none"
    BY DEF KillTimer, ZInv, Held, Started
  <2>2. host[p] \in Session
    BY <2>1 DEF ZInv, Made, Typed
  <2>3. q \in Proc /\ proc[q] # "none"
    BY <1>3, <2>2 DEF ZInv, Held, Typed, Ptys
  <2> QED
    BY <1>1, <1>3, <2>3, ExitStep
<1> QED
  BY <1>1, <1>2, <1>3

\* claude is started in a session that has a socket, and had no process.
LEMMA MaybeSpawnStep ==
    ASSUME ZInv, NEW w \in Socket, MaybeSpawnPty(w)
    PROVE  ZInv'
<1> USE DEF ZInv
<1> DEFINE s == sessions[w]
<1>1. /\ sock[w] = "open" /\ ~pty[s].spawned
      /\ UNCHANGED <<daemon, given, validTokens, sessionsById, sessions, kill>>
  BY DEF MaybeSpawnPty
<1>2. s \in Session /\ sock[s] # "none" /\ pty[s] \in Ptys /\ pty[s].proc = 0
  BY <1>1 DEF Made, Typed, Spawned
<1>3. CASE /\ pty' = [pty EXCEPT ![s].spawned = TRUE]
           /\ sock' = [sock EXCEPT ![w] = "left"] /\ UNCHANGED <<proc, host>>
  <2>1. /\ pty' \in [Session -> Ptys]
        /\ \A t \in Session : /\ pty'[t].proc = pty[t].proc /\ (t # s => pty'[t] = pty[t])
    BY <1>2, <1>3 DEF Typed, Ptys
  <2>2. \A p \in Proc : proc[p] = "running" => host[p] \in Session \ {s}
    BY <1>2 DEF NoZombie, Made, Typed
  <2>3. Typed' /\ Unused'
    BY <1>1, <1>3, <2>1 DEF Typed, Unused
  <2>4. \A v \in Socket : /\ (sock'[v] = "none") <=> (sock[v] = "none")
                          /\ sock'[v] \in {"open", "left", "lost"} <=> sock[v] \in {"open", "left", "lost"}
    BY <1>1, <1>3 DEF Typed
  <2>5. Made'
    BY <1>1, <1>3, <2>4 DEF Made, Typed
  <2>6. Spawned' /\ Held'
    <3>1. Started' = Started
      BY <1>3 DEF Started
    <3> QED
      BY <1>1, <1>2, <1>3, <2>1, <3>1 DEF Spawned, Held
  <2>7. NoZombie'
    BY <1>1, <1>3, <2>1, <2>2 DEF NoZombie, Watched
  <2> QED
    BY <1>3, <2>3, <2>5, <2>6, <2>7, StartedSame
<1>4. CASE \E p \in Proc : /\ p = Cardinality(Started) + 1
                           /\ pty' = [pty EXCEPT ![s] = [@ EXCEPT !.spawned = TRUE, !.proc = p]]
                           /\ proc' = [proc EXCEPT ![p] = "running"]
                           /\ host' = [host EXCEPT ![p] = s] /\ UNCHANGED sock
  <2>1. PICK p \in Proc : /\ p = Cardinality(Started) + 1
                          /\ pty' = [pty EXCEPT ![s] = [@ EXCEPT !.spawned = TRUE, !.proc = p]]
                          /\ proc' = [proc EXCEPT ![p] = "running"]
                          /\ host' = [host EXCEPT ![p] = s] /\ UNCHANGED sock
    BY <1>4
  <2>2. proc[p] = "none" /\ Started \union {p} = 1..p /\ Cardinality(1..p) = p
    BY <2>1, NextNumber
  <2> DEFINE v == [pty[s] EXCEPT !.spawned = TRUE, !.proc = p]
  <2>3. v \in Ptys /\ v.proc = p /\ v.spawned
    BY <1>2 DEF Ptys
  <2>4. pty' = [pty EXCEPT ![s] = v]
    BY <2>1, <1>2 DEF Typed
  <2> HIDE DEF v
  <2>5. /\ pty' \in [Session -> Ptys] /\ pty'[s] = v
        /\ \A t \in Session \ {s} : pty'[t] = pty[t]
    BY <1>2, <2>3, <2>4 DEF Typed
  <2>6. \A q \in Proc : /\ proc'[q] = IF q = p THEN "running" ELSE proc[q]
                        /\ host'[q] = IF q = p THEN s ELSE host[q]
    BY <2>1 DEF Typed
  <2>7. Started' = Started \union {p}
    BY <2>6 DEF Started
  <2>8. Typed' /\ Unused'
    BY <1>1, <1>2, <2>1, <2>5 DEF Typed, Unused
  <2>9. Made'
    <3>1. \A q \in Proc : proc'[q] # "none" => host'[q] # 0 /\ sock'[host'[q]] # "none"
      BY <1>2, <2>1, <2>6, BoundsNatural DEF Made
    <3> QED
      BY <1>1, <2>1, <3>1 DEF Made
  <2>10. Spawned' /\ Numbered'
    BY <2>2, <2>3, <2>5, <2>7 DEF Spawned, Numbered
  <2>11. Held'
    <3>1. ASSUME NEW t \in Session, pty'[t].proc # 0 PROVE proc'[pty'[t].proc] # "none"
      <4>1. CASE t = s
        BY <2>3, <2>5, <2>6, <4>1
      <4>2. CASE t # s
        <5>1. pty[t].proc \in Proc /\ pty'[t].proc = pty[t].proc /\ proc[pty[t].proc] # "none"
          BY <2>5, <3>1, <4>2 DEF Held, Typed, Ptys
        <5> QED
          BY <2>6, <5>1
      <4> QED
        BY <4>1, <4>2
    <3> QED
      BY <1>1, <2>7, <3>1 DEF Held
  <2>12. NoZombie'
    <3>1. SUFFICES ASSUME NEW q \in Proc, proc'[q] = "running"
                   PROVE  /\ pty'[host'[q]].proc = q
                          /\ (\E u \in Socket : sessions'[u] = host'[q]) \/ (pty'[host'[q]].timers > 0 /\ pty'[host'[q]].detached)
      BY DEF NoZombie, Watched
    <3>2. CASE q = p
      <4>1. host'[q] = s /\ pty'[s].proc = q /\ sessions'[w] = s
        BY <1>1, <2>3, <2>5, <2>6, <3>2
      <4> QED
        BY <4>1
    <3>3. CASE q # p
      <4>1. host'[q] = host[q] /\ proc[q] = "running"
        BY <2>6, <3>1, <3>3
      <4>2. host[q] \in Session \ {s}
        BY <1>2, <4>1 DEF NoZombie, Made, Typed
      <4> QED
        BY <1>1, <2>5, <4>1, <4>2 DEF NoZombie, Watched
    <3> QED
      BY <3>2, <3>3
  <2> QED
    BY <2>8, <2>9, <2>10, <2>11, <2>12
<1> QED
  BY <1>3, <1>4 DEF MaybeSpawnPty

\* A socket that closed: the session ends, or waits for another with a timer running.
LEMMA CloseStep ==
    ASSUME ZInv, NEW w \in Socket, Close(w)
    PROVE  ZInv'
<1> USE DEF ZInv
<1> DEFINE s == sessions[w]
<1> DEFINE d == pty[s]
<1>1. /\ sock[w] \in {"left", "lost"}
      /\ sessions' = [sessions EXCEPT ![w] = 0] /\ sock' = [sock EXCEPT ![w] = "gone"]
      /\ UNCHANGED <<daemon, given, validTokens, host>>
  BY DEF Close
<1>2. s \in Session /\ sock[s] # "none" /\ d \in Ptys
  BY <1>1 DEF Made, Typed
<1>3. \A v \in Socket : /\ sock'[v] = (IF v = w THEN "gone" ELSE sock[v])
                        /\ sessions'[v] = (IF v = w THEN 0 ELSE sessions[v])
  BY <1>1 DEF Typed
<1>4. \A v \in Socket : (sock'[v] = "none") <=> (sock[v] = "none")
  BY <1>1, <1>3
<1>5. Unused'
  BY <1>1, <1>4, BoundsNatural DEF Unused, Typed
<1>6. ASSUME sessionsById' \in [Sid -> {0} \union Session],
             \A i \in Sid : sessionsById'[i] \in {0, sessionsById[i]},
             \A p \in Proc : (proc'[p] = "none") <=> (proc[p] = "none")
      PROVE  Made'
  <2>1. \A v \in Socket : (sock'[v] \in {"open", "left", "lost"}) <=> (sessions'[v] # 0)
    BY <1>3 DEF Made
  <2>2. \A v \in Socket : sessions'[v] # 0 => sock'[sessions'[v]] # "none"
    BY <1>3, <1>4 DEF Made, Typed
  <2>3. \A i \in Sid : sessionsById'[i] # 0 => sock'[sessionsById'[i]] # "none"
    BY <1>4, <1>6 DEF Made, Typed
  <2>4. \A p \in Proc : proc'[p] # "none" => host'[p] # 0 /\ sock'[host'[p]] # "none"
    BY <1>1, <1>4, <1>6 DEF Made, Typed
  <2> QED
    BY <2>1, <2>2, <2>3, <2>4 DEF Made
<1>7. \A t \in Session \ {s} : Watched(t) => \E v \in Socket : sessions'[v] = t
  BY <1>3 DEF Watched
<1>8. CASE sock[w] = "left"
  <2>1. Dispose(s, w, d) /\ sessionsById' = [sessionsById EXCEPT ![d.sid] = 0]
    BY <1>8 DEF Close
  <2>2. /\ pty' \in [Session -> Ptys]
        /\ \A t \in Session \ {s} : pty'[t] = pty[t]
        /\ pty'[s].proc = 0
        /\ proc' \in [Proc -> {"none", "running", "signalled", "dead"}] /\ kill' \subseteq Proc
        /\ \A p \in Proc : (proc'[p] = "none") <=> (proc[p] = "none")
        /\ \A p \in Proc : proc'[p] = "running" => proc[p] = "running" /\ host[p] # s
        /\ Held'
    BY <1>2, <2>1, DisposeStops
  <2>3. /\ sessionsById' \in [Sid -> {0} \union Session]
        /\ \A i \in Sid : sessionsById'[i] \in {0, sessionsById[i]}
    BY <2>1 DEF Typed
  <2>4. Typed'
    BY <1>1, <2>2, <2>3 DEF Typed
  <2>5. Spawned'
    BY <2>2 DEF Spawned
  <2>6. NoZombie'
    <3>1. SUFFICES ASSUME NEW p \in Proc, proc'[p] = "running"
                   PROVE  /\ pty'[host[p]].proc = p
                          /\ (\E u \in Socket : sessions'[u] = host[p]) \/ (pty'[host[p]].timers > 0 /\ pty'[host[p]].detached)
      BY <1>1 DEF NoZombie, Watched
    <3>2. proc[p] = "running" /\ host[p] \in Session \ {s}
      BY <2>2, <3>1 DEF Made, Typed
    <3> QED
      BY <1>7, <2>2, <3>2 DEF NoZombie
  <2> QED
    BY <1>5, <1>6, <2>2, <2>3, <2>4, <2>5, <2>6, StartedSame
<1>9. CASE sock[w] = "lost"
  <2> DEFINE n == d.timers + 1
  <2> DEFINE v == [d EXCEPT !.detached = TRUE, !.live = 0, !.timers = n, !.handle = TRUE]
  <2>0. n \in Nat /\ n > 0
    BY <1>2 DEF Ptys
  <2>3. pty' = [pty EXCEPT ![s] = v] /\ UNCHANGED <<sessionsById, proc, kill>>
    BY <1>9 DEF Close
  <2> HIDE DEF n
  <2>1. v \in Ptys /\ v.proc = d.proc
    BY <1>2, <2>0 DEF Ptys
  <2>2. v.spawned = d.spawned /\ v.timers > 0 /\ v.detached
    BY <1>2, <2>0 DEF Ptys
  <2> HIDE DEF v
  <2>4. /\ pty' \in [Session -> Ptys] /\ pty'[s] = v
        /\ \A t \in Session \ {s} : pty'[t] = pty[t]
    BY <1>2, <2>1, <2>3 DEF Typed
  <2>5. Typed'
    BY <1>1, <2>3, <2>4 DEF Typed
  <2>6. Made'
    BY <1>6, <2>3 DEF Typed
  <2>7. Spawned'
    BY <2>1, <2>2, <2>4 DEF Spawned
  <2>8. Held'
    <3>1. Started' = Started
      BY <2>3 DEF Started
    <3> QED
      BY <2>1, <2>3, <2>4, <3>1 DEF Held
  <2>9. NoZombie'
    <3>1. SUFFICES ASSUME NEW p \in Proc, proc[p] = "running"
                   PROVE  /\ pty'[host[p]].proc = p
                          /\ (\E u \in Socket : sessions'[u] = host[p]) \/ (pty'[host[p]].timers > 0 /\ pty'[host[p]].detached)
      BY <1>1, <2>3 DEF NoZombie, Watched
    <3>2. host[p] \in Session
      BY <3>1 DEF Made, Typed
    <3>3. CASE host[p] = s
      BY <2>1, <2>2, <2>4, <3>1, <3>3 DEF NoZombie
    <3>4. CASE host[p] # s
      BY <1>7, <2>4, <3>1, <3>2, <3>4 DEF NoZombie
    <3> QED
      BY <3>3, <3>4
  <2> QED
    BY <1>5, <2>3, <2>5, <2>6, <2>7, <2>8, <2>9, StartedSame
<1> QED
  BY <1>1, <1>8, <1>9

\* A detach timer ends a session that is still detached, and leaves another as it is.
LEMMA DetachTimerStep ==
    ASSUME ZInv, NEW s \in Session, DetachTimer(s)
    PROVE  ZInv'
<1> USE DEF ZInv
<1> DEFINE d == [pty[s] EXCEPT !.timers = @ - 1]
<1>1. /\ pty[s].timers > 0 /\ UNCHANGED <<daemon, given, sock, validTokens, sessions, host>>
      /\ pty[s] \in Ptys
  BY DEF DetachTimer, Typed
<1>2. d \in Ptys /\ d.proc = pty[s].proc
  BY <1>1 DEF Ptys
<1>3. d.spawned = pty[s].spawned /\ d.detached = pty[s].detached
  BY <1>1 DEF Ptys
<1>4. Unused'
  BY <1>1 DEF Unused
<1>5. CASE d.detached
  <2>1. Dispose(s, 0, d) /\ sessionsById' = [sessionsById EXCEPT ![d.sid] = 0]
    BY <1>5 DEF DetachTimer, StillDetached
  <2> HIDE DEF d
  <2>2. /\ pty' \in [Session -> Ptys]
        /\ \A t \in Session \ {s} : pty'[t] = pty[t]
        /\ pty'[s].proc = 0
        /\ proc' \in [Proc -> {"none", "running", "signalled", "dead"}] /\ kill' \subseteq Proc
        /\ \A p \in Proc : (proc'[p] = "none") <=> (proc[p] = "none")
        /\ \A p \in Proc : proc'[p] = "running" => proc[p] = "running" /\ host[p] # s
        /\ Held'
    BY <1>2, <2>1, DisposeStops
  <2>3. Typed'
    BY <1>1, <2>1, <2>2 DEF Typed
  <2>4. Made'
    BY <1>1, <2>1, <2>2 DEF Made, Typed
  <2>5. Spawned'
    BY <2>2 DEF Spawned
  <2>6. NoZombie'
    <3>1. SUFFICES ASSUME NEW p \in Proc, proc'[p] = "running"
                   PROVE  /\ pty'[host[p]].proc = p
                          /\ Watched(host[p])' \/ (pty'[host[p]].timers > 0 /\ pty'[host[p]].detached)
      BY <1>1 DEF NoZombie
    <3>2. proc[p] = "running" /\ host[p] \in Session \ {s}
      BY <2>2, <3>1 DEF Made, Typed
    <3> QED
      BY <1>1, <2>2, <3>2 DEF NoZombie, Watched
  <2> QED
    BY <1>4, <2>2, <2>3, <2>4, <2>5, <2>6, StartedSame
<1>6. CASE ~d.detached
  <2>1. pty' = [pty EXCEPT ![s] = d] /\ UNCHANGED <<sessionsById, proc, kill>>
    BY <1>6 DEF DetachTimer, StillDetached
  <2>2. ~pty[s].detached
    BY <1>3, <1>6
  <2> HIDE DEF d
  <2>3. /\ pty' \in [Session -> Ptys] /\ pty'[s] = d
        /\ \A t \in Session \ {s} : pty'[t] = pty[t]
    BY <1>2, <2>1 DEF Typed
  <2>4. Typed'
    BY <1>1, <2>1, <2>3 DEF Typed
  <2>5. Made'
    BY <1>1, <2>1 DEF Made
  <2>6. Spawned'
    BY <1>2, <1>3, <2>3 DEF Spawned
  <2>7. Held'
    <3>1. Started' = Started
      BY <2>1 DEF Started
    <3> QED
      BY <1>2, <2>1, <2>3, <3>1 DEF Held
  <2>8. NoZombie'
    <3>1. SUFFICES ASSUME NEW p \in Proc, proc[p] = "running"
                   PROVE  /\ pty'[host[p]].proc = p
                          /\ Watched(host[p])' \/ (pty'[host[p]].timers > 0 /\ pty'[host[p]].detached)
      BY <1>1, <2>1 DEF NoZombie
    <3>2. host[p] \in Session
      BY <3>1 DEF Made, Typed
    <3>3. CASE host[p] = s
      BY <1>1, <1>2, <2>2, <2>3, <3>1, <3>3 DEF NoZombie, Watched
    <3>4. CASE host[p] # s
      BY <1>1, <2>3, <3>1, <3>2, <3>4 DEF NoZombie, Watched
    <3> QED
      BY <3>3, <3>4
  <2> QED
    BY <1>4, <2>1, <2>4, <2>5, <2>6, <2>7, <2>8, StartedSame
<1> QED
  BY <1>5, <1>6

\* After a crash nothing runs, and nothing is remembered.
LEMMA RespawnStep ==
    ASSUME ZInv, Respawn
    PROVE  ZInv'
<1> USE DEF ZInv
<1>1. /\ validTokens' = [w \in Socket |-> 0] /\ sessionsById' = [i \in Sid |-> 0]
      /\ sessions' = [w \in Socket |-> 0] /\ pty' = [s \in Session |-> NoSession]
      /\ sock' = [w \in Socket |-> IF sock[w] = "none" THEN "none" ELSE "gone"]
      /\ proc' = [p \in Proc |-> IF proc[p] = "none" THEN "none" ELSE "dead"]
      /\ kill' = {} /\ UNCHANGED <<daemon, given, host>>
  BY DEF Respawn
<1>2. Typed'
  BY <1>1, NoSessionTyped DEF Typed
<1>3. Unused'
  BY <1>1, BoundsNatural DEF Unused, Typed
<1>4. Made'
  BY <1>1 DEF Made, Typed
<1>5. Spawned' /\ Held'
  BY <1>1, NoSessionTyped DEF Spawned, Held
<1>6. NoZombie'
  BY <1>1 DEF NoZombie
<1> QED
  BY <1>1, <1>2, <1>3, <1>4, <1>5, <1>6, StartedSame

LEMMA NextZInv == ZInv /\ [Next]_vars => ZInv'
<1> SUFFICES ASSUME ZInv, [Next]_vars PROVE ZInv'
  OBVIOUS
<1>1. CASE Daemon
  BY <1>1, DaemonStep
<1>2. CASE Agent
  BY <1>2, InternalRestartStep, OpenStep, MaybeSpawnStep, LeaveStep, CloseStep,
     DetachTimerStep, PtyExitsStep, KillTimerStep DEF Agent
<1>3. CASE Respawn
  BY <1>3, RespawnStep
<1>4. CASE UNCHANGED vars
  BY <1>4, QuietStep DEF vars, ZInv, Typed
<1> QED
  BY <1>1, <1>2, <1>3, <1>4 DEF Next

\* "Without this, every browser quit leaves a zombie PTY alive": whatever closes,
\* is lost, re-attached, restarted or crashes, a claude nobody told to stop is the
\* one of its session, and a socket or a timer that will stop it leads to it.
THEOREM NoZombies == Spec => []NoZombie
<1>1. Spec => []ZInv
  BY InitZInv, NextZInv, PTL DEF Spec
<1>2. ZInv => NoZombie
  BY DEF ZInv
<1> QED
  BY <1>1, <1>2, PTL

(***************************************************************************)
(* Where ids lead.  The session of an id bears the id, a process is in the *)
(* session it was started for, and who is attached is not detached.        *)
(***************************************************************************)

Minted ==
    /\ lease \subseteq 1..sids
    /\ \A w \in Socket : validTokens[w] \in 0..sids
    /\ \A c \in calls : c.pc = "grant" => c.sid \in 1..sids

Named == \A i \in Sid : sessionsById[i] # 0 => pty[sessionsById[i]].sid = i
Attached == \A s \in Session : pty[s].live # 0 => ~pty[s].detached
Hosted == \A s \in Session : pty[s].proc # 0 => host[pty[s].proc] = s

Led == Named /\ Attached /\ Hosted

\* No token and no lease is for a session that was not minted.
LEMMA NextMinted ==
    ASSUME ZInv, Minted, [Next]_vars
    PROVE  Minted'
<1> USE DEF Minted
<1>1. sids \in Nat /\ (MintLease => sids' = sids + 1)
  BY BoundsNatural DEF ZInv, Typed, MintLease
<1>2. CASE UNCHANGED <<lease, sids, validTokens>> /\ \A c \in calls' : c \in calls \/ c.pc # "grant"
  BY <1>2
<1>3. \A op, i, w : Call(op, "grant", i, w).sid = i
  BY DEF Call
<1>4. CASE PtySession
  <2>1. /\ lease' = lease \union {sids + 1} /\ sids' = sids + 1 /\ UNCHANGED validTokens
        /\ calls' = calls \union {Granting("session", sids + 1)}
    BY <1>1, <1>4 DEF PtySession, Arrives
  <2>2. Granting("session", sids + 1).sid = sids + 1
    BY DEF Granting, Call
  <2> QED
    BY <1>1, <2>1, <2>2
<1>5. ASSUME NEW c \in calls, Revoke(c) PROVE Minted'
  <2>1. CASE /\ sids' = sids + 1 /\ lease' = (lease \ {c.sid}) \union {sids + 1}
             /\ calls' = (calls \ {c}) \union {Granting("session", sids + 1)}
    <3> DEFINE g == Granting("session", sids + 1)
    <3>1. g.sid = sids + 1 /\ UNCHANGED validTokens
      BY <1>5 DEF Granting, Call, Revoke
    <3>2. \A e \in calls' : e \in calls \/ e = g
      BY <2>1
    <3> HIDE DEF g
    <3>3. \A e \in calls' : e.pc = "grant" => e.sid \in 1..sids'
      BY <1>1, <2>1, <3>1, <3>2
    <3>4. lease' \subseteq 1..sids'
      <4>1. lease \subseteq 1..sids /\ sids' = sids + 1 /\ lease' = (lease \ {c.sid}) \union {sids + 1}
        BY <2>1
      <4>2. 1..sids \subseteq 1..sids' /\ sids + 1 \in 1..sids'
        BY <1>1, <4>1
      <4> QED
        BY <4>1, <4>2
    <3>5. \A w \in Socket : validTokens'[w] \in 0..sids'
      BY <1>1, <2>1, <3>1
    <3> QED
      BY <3>3, <3>4, <3>5
  <2>2. CASE lease' = lease \ {c.sid} /\ calls' = calls \ {c} /\ UNCHANGED sids
    <3>1. UNCHANGED validTokens
      BY <1>5 DEF Revoke
    <3> QED
      BY <2>2, <3>1
  <2> QED
    BY <1>1, <1>5, <2>1, <2>2 DEF Revoke
<1>6. ASSUME NEW c \in calls, Grant(c) PROVE Minted'
  <2>1. /\ c.pc = "grant" /\ calls' = calls \ {c} /\ UNCHANGED sids /\ lease' \subseteq lease
        /\ validTokens' \in {validTokens, [validTokens EXCEPT ![c.token] = c.sid]}
    BY <1>6 DEF Grant
  <2>2. \A w \in Socket : validTokens'[w] \in {validTokens[w], c.sid}
    BY <2>1 DEF ZInv, Typed
  <2>3. c.sid \in 0..sids
    BY <1>1, <2>1
  <2> QED
    BY <2>1, <2>2, <2>3
<1>7. ASSUME NEW i \in Sid, Reattach(i) PROVE Minted'
  <2>1. /\ i \in lease /\ UNCHANGED <<lease, sids, validTokens>>
        /\ calls' = calls \union {Granting("reattach", i)} /\ Granting("reattach", i).sid = i
    BY <1>7 DEF Reattach, Arrives, Granting, Call
  <2> QED
    BY <2>1
<1>8. ASSUME NEW i \in Sid, RestartOrDispose(i) PROVE Minted'
  BY <1>2, <1>8 DEF RestartOrDispose, Arrives, Call
<1>9. ASSUME NEW i \in Sid, LeaseExpires(i) PROVE Minted'
  BY <1>9 DEF LeaseExpires
<1>10. CASE Agent
  <2>1. UNCHANGED <<lease, sids, validTokens>>
    BY <1>10 DEF Agent, InternalRestart, Open, MaybeSpawnPty, Leave, Close, DetachTimer, PtyExits, KillTimer
  <2>2. \A c \in calls' : c \in calls \/ c.pc # "grant"
    <3>1. ASSUME NEW c \in calls, InternalRestart(c) PROVE \A e \in calls' : e \in calls \/ e.pc # "grant"
      BY <3>1 DEF InternalRestart, ZInv, Typed, Calls
    <3> QED
      BY <1>10, <3>1 DEF Agent, Open, MaybeSpawnPty, Leave, Close, DetachTimer, PtyExits, KillTimer
  <2> QED
    BY <1>2, <2>1, <2>2
<1>11. CASE Respawn
  BY <1>1, <1>11 DEF Respawn
<1> QED
  BY <1>2, <1>4, <1>5, <1>6, <1>7, <1>8, <1>9, <1>10, <1>11 DEF Next, Daemon, vars

\* A session that is disposed of loses its id and its process.
LEMMA DisposedLed ==
    ASSUME ZInv, Led, NEW s \in Session, NEW w, NEW d \in Ptys, Dispose(s, w, d),
           d.sid = pty[s].sid, d.live = pty[s].live, d.detached = pty[s].detached,
           NEW i, i = d.sid, sessionsById' = [sessionsById EXCEPT ![i] = 0], UNCHANGED host
    PROVE  Led'
<1> DEFINE r == [d EXCEPT !.proc = 0, !.spawned = FALSE]
<1>1. r.proc = 0 /\ r.live = d.live /\ r.detached = d.detached
  BY DEF Ptys
<1>2. NoSession.proc = 0 /\ NoSession.live = 0
  BY DEF NoSession
<1>3. pty' = [pty EXCEPT ![s] = NoSession] \/ pty' = [pty EXCEPT ![s] = r]
  BY DEF Dispose
<1> HIDE DEF r
<1>4. /\ \A t \in Session \ {s} : pty'[t] = pty[t]
      /\ pty'[s].proc = 0
      /\ pty'[s].live # 0 => pty'[s].live = pty[s].live /\ pty'[s].detached = pty[s].detached
  BY <1>1, <1>2, <1>3 DEF ZInv, Typed
<1>5. Attached' /\ Hosted'
  BY <1>4 DEF Led, Attached, Hosted
<1>6. ASSUME NEW j \in Sid, sessionsById'[j] # 0 PROVE pty'[sessionsById'[j]].sid = j
  <2>1. j # i /\ sessionsById'[j] = sessionsById[j] /\ sessionsById[j] \in Session
    BY <1>6 DEF ZInv, Typed
  <2>2. pty[sessionsById[j]].sid = j
    BY <2>1 DEF Led, Named
  <2>3. sessionsById[j] # s
    BY <2>1, <2>2
  <2> QED
    BY <1>4, <2>1, <2>2, <2>3
<1> QED
  BY <1>5, <1>6 DEF Led, Named

\* Other changes of a session leave it its id, and its process where it is.
LEMMA ChangedLed ==
    ASSUME ZInv, Led, NEW s \in Session, NEW v, pty' = [pty EXCEPT ![s] = v],
           v.sid = pty[s].sid, v.proc = pty[s].proc,
           v.live # 0 => ~v.detached, UNCHANGED <<sessionsById, host>>
    PROVE  Led'
<1>1. \A t \in Session : /\ pty'[t].sid = pty[t].sid /\ pty'[t].proc = pty[t].proc
                         /\ pty'[t] = (IF t = s THEN v ELSE pty[t])
  BY DEF ZInv, Typed
<1>2. Named'
  BY <1>1 DEF Led, Named, ZInv, Typed
<1> QED
  BY <1>1, <1>2 DEF Led, Attached, Hosted

LEMMA OpenLed ==
    ASSUME ZInv, Led, NEW w \in Socket, Open(w)
    PROVE  Led'
<1> DEFINE i == validTokens[w]
           s == IF i = 0 THEN 0 ELSE sessionsById[i]
<1>1. w \in given /\ UNCHANGED host
  BY DEF Open
<1>2. sock[w] = "none" /\ i \in {0} \union Sid /\ s \in {0} \union Session
  BY <1>1 DEF ZInv, Unused, Typed
<1>3. CASE i = 0
  BY <1>1, <1>3 DEF Open, Led, Named, Attached, Hosted
<1>4. CASE s # 0
  <2> DEFINE d == ClearTimer(pty[s])
             v == [d EXCEPT !.detached = FALSE, !.live = w]
  <2>1. pty[s] \in Ptys /\ d \in Ptys /\ d.sid = pty[s].sid /\ d.proc = pty[s].proc
    BY <1>2, <1>4, ClearTimerKeeps DEF ZInv, Typed, ClearTimer, Ptys
  <2>2. pty' = [pty EXCEPT ![s] = v] /\ UNCHANGED sessionsById
    BY <1>2, <1>4 DEF Open, ZInv, Typed
  <2> HIDE DEF d
  <2>3. v.sid = d.sid /\ v.proc = d.proc /\ ~v.detached
    BY <2>1 DEF Ptys
  <2> HIDE DEF v
  <2> QED
    BY <1>1, <1>2, <1>4, <2>1, <2>2, <2>3, ChangedLed
<1>5. CASE i # 0 /\ s = 0
  <2> DEFINE v == [NoSession EXCEPT !.sid = i, !.live = w]
  <2>1. pty' = [pty EXCEPT ![w] = v] /\ sessionsById' = [sessionsById EXCEPT ![i] = w]
    BY <1>5 DEF Open
  <2>2. v.sid = i /\ v.proc = 0 /\ ~v.detached
    BY DEF NoSession
  <2> HIDE DEF v
  <2>3. \A t \in Session : pty'[t] = IF t = w THEN v ELSE pty[t]
    BY <2>1 DEF ZInv, Typed
  <2>4. ASSUME NEW j \in Sid, sessionsById'[j] # 0 PROVE pty'[sessionsById'[j]].sid = j
    <3>1. CASE j = i
      BY <1>2, <1>5, <2>1, <2>2, <2>3, <3>1 DEF ZInv, Typed
    <3>2. CASE j # i
      <4>1. sessionsById'[j] = sessionsById[j] /\ sessionsById[j] \in Session
        BY <2>1, <2>4, <3>2 DEF ZInv, Typed
      <4>2. sessionsById[j] # w /\ pty[sessionsById[j]].sid = j
        BY <1>2, <2>4, <4>1 DEF ZInv, Made, Led, Named
      <4> QED
        BY <2>3, <4>1, <4>2
    <3> QED
      BY <3>1, <3>2
  <2>5. Attached' /\ Hosted'
    BY <1>1, <2>2, <2>3 DEF Led, Attached, Hosted
  <2> QED
    BY <2>4, <2>5 DEF Led, Named
<1> QED
  BY <1>3, <1>4, <1>5

LEMMA MaybeSpawnLed ==
    ASSUME ZInv, Led, NEW w \in Socket, MaybeSpawnPty(w)
    PROVE  Led'
<1> DEFINE s == sessions[w]
           p == Cardinality(Started) + 1
<1>1. sock[w] = "open" /\ UNCHANGED sessionsById
  BY DEF MaybeSpawnPty
<1>2. s \in Session /\ pty[s] \in Ptys
  BY <1>1 DEF ZInv, Made, Typed
<1>3. CASE pty' = [pty EXCEPT ![s].spawned = TRUE] /\ UNCHANGED host
  <2> DEFINE v == [pty[s] EXCEPT !.spawned = TRUE]
  <2>1. v.sid = pty[s].sid /\ v.proc = pty[s].proc /\ v.live = pty[s].live /\ v.detached = pty[s].detached
    BY <1>2 DEF Ptys
  <2>2. pty' = [pty EXCEPT ![s] = v]
    BY <1>2, <1>3 DEF ZInv, Typed
  <2> HIDE DEF v
  <2>3. v.live # 0 => ~v.detached
    BY <1>2, <2>1 DEF Led, Attached
  <2> QED
    BY <1>1, <1>2, <1>3, <2>1, <2>2, <2>3, ChangedLed
<1>4. CASE /\ p \in Proc /\ pty' = [pty EXCEPT ![s] = [@ EXCEPT !.spawned = TRUE, !.proc = p]]
           /\ host' = [host EXCEPT ![p] = s]
  <2> DEFINE v == [pty[s] EXCEPT !.spawned = TRUE, !.proc = p]
  <2>1. proc[p] = "none" /\ p \in Proc /\ p # 0
    BY <1>4, NextNumber DEF ZInv
  <2>2. pty' = [pty EXCEPT ![s] = v]
    BY <1>2, <1>4 DEF ZInv, Typed
  <2> HIDE DEF p
  <2>3. v.sid = pty[s].sid /\ v.proc = p /\ v.live = pty[s].live /\ v.detached = pty[s].detached
    BY <1>2, <2>1 DEF Ptys
  <2> HIDE DEF v
  <2>4. \A t \in Session : pty'[t] = IF t = s THEN v ELSE pty[t]
    BY <2>2 DEF ZInv, Typed
  <2>5. Named' /\ Attached'
    BY <1>1, <1>2, <2>3, <2>4 DEF Led, Named, Attached, ZInv, Typed
  <2>6. ASSUME NEW t \in Session, pty'[t].proc # 0 PROVE host'[pty'[t].proc] = t
    <3>1. CASE t = s
      BY <1>4, <2>1, <2>3, <2>4, <3>1 DEF ZInv, Typed
    <3>2. CASE t # s
      <4>1. pty'[t].proc = pty[t].proc /\ pty[t].proc \in Proc /\ pty[t].proc # p /\ host[pty[t].proc] = t
        BY <2>1, <2>4, <2>6, <3>2 DEF ZInv, Held, Led, Hosted, Typed, Ptys
      <4> QED
        BY <1>4, <4>1 DEF ZInv, Typed
    <3> QED
      BY <3>1, <3>2
  <2> QED
    BY <2>5, <2>6 DEF Led, Hosted
<1> QED
  BY <1>3, <1>4 DEF MaybeSpawnPty

LEMMA CloseLed ==
    ASSUME ZInv, Led, NEW w \in Socket, Close(w)
    PROVE  Led'
<1> DEFINE s == sessions[w]
           d == pty[s]
<1>1. sock[w] \in {"left", "lost"} /\ UNCHANGED host
  BY DEF Close
<1>2. s \in Session /\ d \in Ptys
  BY <1>1 DEF ZInv, Made, Typed
<1>3. CASE sock[w] = "left"
  <2>1. Dispose(s, w, d) /\ sessionsById' = [sessionsById EXCEPT ![d.sid] = 0]
    BY <1>3 DEF Close
  <2> QED
    BY <1>1, <1>2, <2>1, DisposedLed
<1>4. CASE sock[w] = "lost"
  <2> DEFINE n == d.timers + 1
             v == [d EXCEPT !.detached = TRUE, !.live = 0, !.timers = n, !.handle = TRUE]
  <2>1. pty' = [pty EXCEPT ![s] = v] /\ UNCHANGED sessionsById
    BY <1>4 DEF Close
  <2> HIDE DEF n
  <2>2. v.sid = d.sid /\ v.proc = d.proc /\ v.live = 0
    BY <1>2 DEF Ptys
  <2> HIDE DEF v
  <2> QED
    BY <1>1, <1>2, <2>1, <2>2, ChangedLed
<1> QED
  BY <1>1, <1>3, <1>4

LEMMA DetachTimerLed ==
    ASSUME ZInv, Led, NEW s \in Session, DetachTimer(s)
    PROVE  Led'
<1> DEFINE n == pty[s].timers - 1
           d == [pty[s] EXCEPT !.timers = n]
<1>1. UNCHANGED host /\ pty[s] \in Ptys /\ n \in Nat
  BY DEF DetachTimer, ZInv, Typed, Ptys
<1>2. \/ Dispose(s, 0, d) /\ sessionsById' = [sessionsById EXCEPT ![d.sid] = 0]
      \/ pty' = [pty EXCEPT ![s] = d] /\ UNCHANGED sessionsById
  BY DEF DetachTimer
<1> HIDE DEF n
<1>3. d \in Ptys /\ d.sid = pty[s].sid /\ d.proc = pty[s].proc /\ d.live = pty[s].live
  BY <1>1 DEF Ptys
<1>4. d.detached = pty[s].detached
  BY <1>1 DEF Ptys
<1> HIDE DEF d
<1>5. CASE Dispose(s, 0, d) /\ sessionsById' = [sessionsById EXCEPT ![d.sid] = 0]
  BY <1>1, <1>3, <1>4, <1>5, DisposedLed
<1>6. CASE pty' = [pty EXCEPT ![s] = d] /\ UNCHANGED sessionsById
  BY <1>1, <1>3, <1>4, <1>6, ChangedLed DEF Led, Attached
<1> QED
  BY <1>2, <1>5, <1>6

LEMMA InternalRestartLed ==
    ASSUME ZInv, Led, NEW c \in calls, InternalRestart(c)
    PROVE  Led'
<1> DEFINE s == SessionOf(c.sid)
           d == ClearTimer(pty[s])
<1>1. UNCHANGED host /\ c.sid \in Sid
  BY DEF InternalRestart, ZInv, Typed, Calls
<1>2. CASE UNCHANGED <<sessionsById, pty>>
  BY <1>1, <1>2 DEF Led, Named, Attached, Hosted
<1>3. CASE s # 0 /\ Dispose(s, 0, d) /\ sessionsById' = [sessionsById EXCEPT ![c.sid] = 0]
  <2>1. s \in Session /\ pty[s] \in Ptys /\ pty[s].sid = c.sid
    BY <1>1, <1>3 DEF SessionOf, ZInv, Typed, Led, Named
  <2>2. d \in Ptys
    BY <2>1, ClearTimerKeeps
  <2>3. d.sid = pty[s].sid /\ d.live = pty[s].live /\ d.detached = pty[s].detached
    BY <2>1 DEF ClearTimer, Ptys
  <2> HIDE DEF s, d
  <2> QED
    BY <1>1, <1>3, <2>1, <2>2, <2>3, DisposedLed
<1> QED
  BY <1>2, <1>3 DEF InternalRestart

LEMMA NextLed == ZInv /\ Led /\ [Next]_vars => Led'
<1> SUFFICES ASSUME ZInv, Led, [Next]_vars PROVE Led'
  OBVIOUS
<1>1. CASE UNCHANGED <<sessionsById, pty, host>>
  BY <1>1 DEF Led, Named, Attached, Hosted
<1>2. CASE Daemon
  BY <1>1, <1>2 DEF Daemon, PtySession, Revoke, Grant, Reattach, RestartOrDispose, LeaseExpires
<1>3. CASE Agent
  <2>1. ASSUME NEW w \in Socket, Leave(w) PROVE Led'
    BY <1>1, <2>1 DEF Leave
  <2>2. ASSUME NEW p \in Proc, PtyExits(p) \/ KillTimer(p) PROVE Led'
    BY <1>1, <2>2 DEF PtyExits, KillTimer
  <2> QED
    BY <1>3, <2>1, <2>2, InternalRestartLed, OpenLed, MaybeSpawnLed, CloseLed, DetachTimerLed DEF Agent
<1>4. CASE Respawn
  <2>1. /\ \A i \in Sid : sessionsById'[i] = 0
        /\ \A s \in Session : pty'[s].live = 0 /\ pty'[s].proc = 0
    BY <1>4 DEF Respawn, NoSession
  <2> QED
    BY <2>1 DEF Led, Named, Attached, Hosted
<1> QED
  BY <1>1, <1>2, <1>3, <1>4 DEF Next, vars

LEMMA InitLed == Init => Minted /\ Led
BY DEF Init, Minted, Led, Named, Attached, Hosted, NoSession

\* What the daemon leases and grants was minted, the id of a session leads to
\* that session, sockets and sessions of the agent agree on who is attached, and
\* only processes that were started are waited for.
THEOREM TypeCorrect == Spec => []TypeOK
<1>1. ZInv /\ Minted /\ Led => TypeOK
  <2> SUFFICES ASSUME ZInv, Minted, Led PROVE TypeOK
    OBVIOUS
  <2>1. given \subseteq 1..tokens
    BY BoundsNatural DEF ZInv, Typed, Unused
  <2> QED
    BY <2>1 DEF ZInv, Typed, Made, Held, Minted, Led, Named, Attached, TypeOK
<1>2. ZInv /\ Minted /\ [Next]_vars => Minted'
  BY NextMinted
<1> QED
  BY <1>1, <1>2, InitZInv, NextZInv, NextLed, InitLed, PTL DEF Spec

\* "We kill ONLY that PTY" and "claude keeps running through the wifi blip": the
\* claude of a sidebar that is attached is stopped by a restart or dispose of its
\* session or by another socket of it closed on purpose, by no detach timer left
\* over from before it attached again and for no other session.
THEOREM OthersUntouched == Spec => RunsWhileAttached
<1>1. ASSUME ZInv, Led, Next, NEW s \in Session, pty[s].live # 0, sock[pty[s].live] = "open",
             pty[s].proc # 0, proc[pty[s].proc] = "running", proc'[pty[s].proc] = "signalled"
      PROVE  \/ \E c \in calls \ calls' : c.pc = "kill" /\ c.sid = pty[s].sid
             \/ \E v \in Socket \ {pty[s].live} : sessions[v] = s /\ sessions'[v] = 0
  <2> DEFINE p == pty[s].proc
  <2>1. p \in Proc /\ host[p] = s /\ ~pty[s].detached
    BY <1>1 DEF ZInv, Typed, Ptys, Led, Hosted, Attached
  <2>2. ASSUME NEW t \in Session, NEW w, NEW d, d.proc = pty[t].proc, Dispose(t, w, d) PROVE t = s
    <3>1. d.proc # 0 /\ proc' = [proc EXCEPT ![d.proc] = IF @ = "running" THEN "signalled" ELSE @]
      BY <1>1, <2>2 DEF Dispose
    <3>2. d.proc = p
      BY <1>1, <2>1, <3>1 DEF ZInv, Typed
    <3> QED
      BY <1>1, <2>1, <2>2, <3>1, <3>2 DEF Led, Hosted
  <2>3. ASSUME NEW c \in calls, InternalRestart(c)
        PROVE  \E e \in calls \ calls' : e.pc = "kill" /\ e.sid = pty[s].sid
    <3> DEFINE t == SessionOf(c.sid)
               d == ClearTimer(pty[t])
    <3>1. c \in Calls /\ c.pc = "kill" /\ calls' = (calls \ {c}) \union {[c EXCEPT !.pc = "revoke"]}
      BY <1>1, <2>3 DEF InternalRestart, ZInv, Typed
    <3>2. t # 0 /\ Dispose(t, 0, d)
      BY <1>1, <2>3 DEF InternalRestart
    <3>3. t \in Session /\ pty[t] \in Ptys /\ pty[t].sid = c.sid
      BY <1>1, <3>1, <3>2 DEF Calls, SessionOf, ZInv, Typed, Led, Named
    <3>4. d.proc = pty[t].proc
      BY <3>3, ClearTimerKeeps
    <3> HIDE DEF t, d
    <3>5. t = s
      BY <2>2, <3>2, <3>3, <3>4
    <3>6. c \notin calls'
      BY <3>1 DEF Calls
    <3> QED
      BY <3>1, <3>3, <3>5, <3>6
  <2>4. ASSUME NEW v \in Socket, Close(v)
        PROVE  \E u \in Socket \ {pty[s].live} : sessions[u] = s /\ sessions'[u] = 0
    <3>1. /\ sock[v] \in {"left", "lost"} /\ sessions' = [sessions EXCEPT ![v] = 0]
          /\ sock[v] = "left" => Dispose(sessions[v], v, pty[sessions[v]])
          /\ sock[v] = "lost" => UNCHANGED proc
      BY <2>4 DEF Close
    <3>2. sock[v] = "left"
      BY <1>1, <3>1
    <3>3. sessions[v] \in Session
      BY <1>1, <3>1 DEF ZInv, Made, Typed
    <3>4. sessions[v] = s
      BY <2>2, <3>1, <3>2, <3>3
    <3>5. v # pty[s].live /\ sessions'[v] = 0
      BY <1>1, <3>1, <3>2 DEF ZInv, Typed
    <3> QED
      BY <3>4, <3>5
  <2>5. ASSUME NEW t \in Session, DetachTimer(t) PROVE FALSE
    <3> DEFINE n == pty[t].timers - 1
               d == [pty[t] EXCEPT !.timers = n]
    <3>1. d.detached /\ Dispose(t, 0, d)
      BY <1>1, <2>5 DEF DetachTimer, StillDetached
    <3>2. pty[t] \in Ptys
      BY <1>1 DEF ZInv, Typed
    <3> HIDE DEF n
    <3>3. d.proc = pty[t].proc /\ d.detached = pty[t].detached
      BY <3>2 DEF Ptys
    <3> HIDE DEF d
    <3>4. t = s
      BY <2>2, <3>1, <3>3
    <3> QED
      BY <2>1, <3>1, <3>3, <3>4
  <2>6. ~(UNCHANGED proc)
    BY <1>1
  <2>7. ASSUME NEW q, Exited(q) PROVE FALSE
    BY <1>1, <2>1, <2>7 DEF Exited, ZInv, Typed
  <2>8. ~Daemon
    BY <2>6 DEF Daemon, PtySession, Revoke, Grant, Reattach, RestartOrDispose, LeaseExpires
  <2>9. ~Respawn
    BY <1>1, <2>1 DEF Respawn
  <2>10. ~\E q \in Proc : PtyExits(q) \/ KillTimer(q)
    BY <2>6, <2>7 DEF PtyExits, KillTimer
  <2>11. ASSUME NEW w \in Socket, Open(w) \/ Leave(w) \/ MaybeSpawnPty(w) PROVE FALSE
    <3>1. CASE MaybeSpawnPty(w)
      BY <1>1, <2>1, <2>6, <3>1 DEF MaybeSpawnPty, ZInv, Typed
    <3> QED
      BY <2>6, <2>11, <3>1 DEF Open, Leave
  <2> QED
    BY <1>1, <2>3, <2>4, <2>5, <2>8, <2>9, <2>10, <2>11 DEF Next, Agent
<1>2. ZInv /\ Led /\ [Next]_vars =>
        [\A s \in Session : LET w == pty[s].live  p == pty[s].proc IN
            (w # 0 /\ sock[w] = "open" /\ p # 0 /\ proc[p] = "running" /\ proc'[p] = "signalled")
            => \/ \E c \in calls \ calls' : c.pc = "kill" /\ c.sid = pty[s].sid
               \/ \E v \in Socket \ {w} : sessions[v] = s /\ sessions'[v] = 0]_vars
  BY <1>1
<1> QED
  BY <1>2, InitZInv, NextZInv, NextLed, InitLed, PTL DEF Spec, RunsWhileAttached
=============================================================================
