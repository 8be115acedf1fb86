----------------------------- MODULE GbrainProofs -----------------------------
(***************************************************************************)
(* Theorems about Gbrain, for every set of runs and files, any number of   *)
(* versions, staging directories and failures.                             *)
(***************************************************************************)
EXTENDS Gbrain, TLAPS

USE DEF disk, memory, history, Dir, Version, Seen

\* Nobody has seen a version there is not.
NoneAhead ==
    /\ \A p \in Proc, f \in File : run[p].copy[f] <= files[f] /\ run[p].prep[f] <= files[f]
    /\ \A d \in DOMAIN dirs, f \in File : dirs[d][f] <= files[f]

TInv == TypeOK /\ NoneAhead

\* The lock does its work: one run is between taking it and giving it back.
Alone == \A p, q \in Proc : Working(p) /\ Working(q) => p = q

\* Nothing a directory holds is older than what is recorded.
Newer(d) ==
    d \in DOMAIN dirs => \A f \in File \ excused : dirs[d][f] = 0 \/ dirs[d][f] >= sessions[f]

\* What a run under way has read and staged is what its record may say.
CurrentFor(p) ==
    /\ run[p].pc \in {"stage", "import", "record"} =>
          /\ run[p].copy = sessions
          /\ \A f \in File : run[p].prep[f] = 0 \/ run[p].prep[f] >= sessions[f]
    /\ run[p].pc \in {"prepare", "stage"} => Newer(run[p].resume)
    /\ run[p].pc = "import" => Newer(run[p].dir)
    /\ run[p].pc = "record" => checkpoint \in {None, Notes}
    /\ run[p].pc = "record" =>
          \A f \in Staged(p) \ (run[p].failed \union run[p].unseen) :
             imported[f] >= dirs[run[p].dir][f]

Current ==
    /\ Newer(checkpoint)
    /\ Notes \in DOMAIN dirs => dirs[Notes] = NoFile
    /\ \A p \in Proc : CurrentFor(p)

Landed == \A f \in File \ excused : imported[f] >= sessions[f]

LInv == ~overlapped => Alone /\ Current /\ Landed

-----------------------------------------------------------------------------

LEMMA InitialsTyped ==
    /\ NoFile \in [File -> 0..MaxVersion]
    /\ Off \in Runs /\ Off.pc = "off" /\ Off.copy = NoFile /\ Off.prep = NoFile
BY GbrainAssumption DEF NoFile, Off, Runs, Pcs

\* A step along the code: the run's other fields stay.
LEMMA GotoMoves ==
    ASSUME run \in [Proc -> Runs], NEW p \in Proc, NEW l \in Pcs, Goto(p, l)
    PROVE  /\ run' \in [Proc -> Runs]
           /\ run'[p].pc = l /\ run'[p].plan = run[p].plan /\ run'[p].resume = run[p].resume
           /\ run'[p].copy = run[p].copy /\ run'[p].prep = run[p].prep
           /\ run'[p].dir = run[p].dir /\ run'[p].failed = run[p].failed
           /\ \A q \in Proc \ {p} : run'[q] = run[q]
<1> DEFINE r == [run[p] EXCEPT !.pc = l]
<1>0. run[p] \in Runs
  OBVIOUS
<1>1. r \in Runs /\ r.pc = l
  BY <1>0 DEF Runs
<1>2. /\ r.plan = run[p].plan /\ r.resume = run[p].resume /\ r.copy = run[p].copy
      /\ r.prep = run[p].prep /\ r.dir = run[p].dir /\ r.failed = run[p].failed
  BY <1>0 DEF Runs
<1>3. run' = [run EXCEPT ![p] = r]
  BY DEF Goto
<1> HIDE DEF r
<1> QED
  BY <1>1, <1>2, <1>3

LEMMA InitTInv == Init => TInv
<1> SUFFICES ASSUME Init PROVE TInv
  OBVIOUS
<1>1. lock \in [by : Proc \union {None}, old : BOOLEAN] /\ (lock.old => lock.by # None)
  BY DEF Init
<1>2. run \in [Proc -> Runs] /\ \A p \in Proc : run[p].pc = "off"
  BY InitialsTyped DEF Init
<1>3. sources \in [Id -> BOOLEAN \union {None}]
  BY DEF Init
<1>4. /\ files \in [File -> Version] /\ sessions \in Seen /\ imported \in Seen
      /\ \A f \in File : sessions[f] = 0 /\ imported[f] = 0 /\ files[f] = 1
  BY InitialsTyped, GbrainAssumption DEF Init, NoFile
<1>5. /\ DOMAIN dirs = {Notes} /\ dirs[Notes] = NoFile /\ made \in 0..MaxDirs
      /\ checkpoint = None /\ faults \in 0..MaxFaults /\ overlapped = FALSE /\ excused = {}
      /\ emptied = {}
  <2>1. dirs = [d \in {Notes} |-> NoFile] /\ made = 0 /\ checkpoint = None /\ faults = 0
        /\ excused = {} /\ emptied = {}
    BY DEF Init
  <2>2. overlapped = FALSE
    BY DEF Init
  <2> QED
    BY <2>1, <2>2, GbrainAssumption
<1>6. NoneAhead
  <2>1. \A p \in Proc : run[p].copy = NoFile /\ run[p].prep = NoFile
    BY InitialsTyped DEF Init
  <2> QED
    BY <1>4, <1>5, <2>1, GbrainAssumption DEF NoneAhead, NoFile
<1>7. TypeOK
  <2>1. overlapped \in BOOLEAN /\ excused \in SUBSET File /\ faults \in 0..MaxFaults
        /\ emptied \in SUBSET Proc
    BY <1>5
  <2>2. \A d \in DOMAIN dirs : dirs[d] \in Seen
    BY <1>5, InitialsTyped
  <2>3. DOMAIN dirs \subseteq 1..made \union {Notes} /\ checkpoint \in Dir \union {None, Notes}
    BY <1>5
  <2>4. \A f \in File : sessions[f] <= files[f] /\ imported[f] <= files[f]
    BY <1>4
  <2>5. \A p \in Proc : run[p].pc \in {"import", "record"} => run[p].dir # None
    BY <1>2
  <2> QED
    BY <1>1, <1>2, <1>3, <1>4, <1>5, <2>1, <2>2, <2>3, <2>4, <2>5 DEF TypeOK
<1> QED
  BY <1>6, <1>7 DEF TInv

\* Starting, taking the lock, giving it back.
LEMMA LockTyped ==
    ASSUME TInv, NEW p \in Proc, Start(p) \/ TakeOver(p) \/ Create(p) \/ Release(p) \/ Unlock(p)
    PROVE  /\ TInv'
           /\ \A q \in Proc \ {p} : run'[q] = run[q]
           /\ run'[p].pc \in {"create", "takeover", "off", "legacy", "decide", "unlock"}
           /\ Working(p)' => \/ Working(p)
                             \/ overlapped' = (overlapped \/ \E q \in Proc : Working(q))
           /\ overlapped' = overlapped \/ overlapped' = (overlapped \/ \E q \in Proc : Working(q))
           /\ UNCHANGED <<sources, memory, faults, excused>>
<1>1. /\ lock' \in [by : Proc \union {None}, old : BOOLEAN]
      /\ lock'.old => lock'.by # None
      /\ overlapped' \in BOOLEAN
  <2>1. CASE Create(p)
    <3>1. lock' = lock \/ lock' = [by |-> p, old |-> FALSE]
      BY <2>1 DEF Create
    <3>2. overlapped' \in BOOLEAN
      BY <2>1 DEF Create, TInv, TypeOK
    <3> QED
      <4>1. /\ [by |-> p, old |-> FALSE] \in [by : Proc \union {None}, old : BOOLEAN]
            /\ [by |-> p, old |-> FALSE].by # None
        BY GbrainAssumption
      <4>2. CASE lock' = lock
        BY <3>2, <4>2 DEF TInv, TypeOK
      <4>3. CASE lock' = [by |-> p, old |-> FALSE]
        BY <3>2, <4>1, <4>3
      <4> QED
        BY <3>1, <4>2, <4>3
  <2>2. CASE ~Create(p)
    <3>1. (lock' = lock \/ lock' = NoLock) /\ overlapped' = overlapped
      BY <2>2 DEF Start, TakeOver, Release, Unlock
    <3>2. /\ NoLock \in [by : Proc \union {None}, old : BOOLEAN]
          /\ ~NoLock.old
      BY DEF NoLock
    <3>3. /\ lock \in [by : Proc \union {None}, old : BOOLEAN] /\ (lock.old => lock.by # None)
          /\ overlapped \in BOOLEAN
      BY DEF TInv, TypeOK
    <3>4. CASE lock' = lock
      BY <3>1, <3>3, <3>4
    <3>5. CASE lock' = NoLock
      BY <3>1, <3>2, <3>3, <3>5
    <3> QED
      BY <3>1, <3>4, <3>5
  <2> QED
    BY <2>1, <2>2
<1>2. /\ run' \in [Proc -> Runs]
      /\ run'[p].pc \in {"create", "takeover", "off", "legacy", "decide", "unlock"}
      /\ \A q \in Proc \ {p} : run'[q] = run[q]
      /\ \/ run'[p].copy = run[p].copy /\ run'[p].prep = run[p].prep
         \/ run'[p].copy = NoFile /\ run'[p].prep = NoFile
  <2>1. CASE Release(p)
    <3>1. \A l \in {"unlock", "off"} : /\ [Off EXCEPT !.pc = l] \in Runs
                                       /\ [Off EXCEPT !.pc = l].pc = l
                                       /\ [Off EXCEPT !.pc = l].copy = NoFile
                                       /\ [Off EXCEPT !.pc = l].prep = NoFile
      BY InitialsTyped DEF Runs, Pcs
    <3> QED
      BY <2>1, <3>1 DEF Release, TInv, TypeOK
  <2>2. CASE ~Release(p)
    <3>1. \E l \in {"create", "takeover", "off", "legacy", "decide"} : Goto(p, l)
      BY <2>2 DEF Start, TakeOver, Create, Unlock
    <3> QED
      BY <3>1, GotoMoves DEF TInv, TypeOK, Pcs
  <2> QED
    BY <2>1, <2>2
<1>3. UNCHANGED <<sources, memory, faults, excused>>
  BY DEF Start, TakeOver, Create, Release, Unlock
<1>4. \A f \in File : NoFile[f] = 0 /\ files[f] \in Nat
  BY GbrainAssumption DEF NoFile, TInv, TypeOK
<1>5. NoneAhead'
  BY <1>2, <1>3, <1>4 DEF TInv, NoneAhead
<1>6. TypeOK'
  <2>1. emptied' = emptied
    BY DEF Start, TakeOver, Create, Release, Unlock
  <2> QED
    BY <1>1, <1>2, <1>3, <2>1 DEF TInv, TypeOK
<1>7. overlapped' = overlapped \/ overlapped' = (overlapped \/ \E q \in Proc : Working(q))
  BY DEF Start, TakeOver, Create, Release, Unlock
<1>8. ASSUME Working(p)'
      PROVE  Working(p) \/ overlapped' = (overlapped \/ \E q \in Proc : Working(q))
  <2>1. CASE Create(p)
    <3>1. \/ overlapped' = (overlapped \/ \E q \in Proc : Working(q))
          \/ Goto(p, "off")
      BY <2>1 DEF Create
    <3>2. Goto(p, "off") => ~Working(p)'
      BY GotoMoves DEF TInv, TypeOK, Pcs, Working
    <3> QED
      BY <1>8, <3>1, <3>2
  <2>2. CASE Start(p) \/ TakeOver(p)
    <3>1. \E l \in {"create", "takeover", "off"} : Goto(p, l)
      BY <2>2 DEF Start, TakeOver
    <3> QED
      BY <1>8, <3>1, GotoMoves DEF TInv, TypeOK, Pcs, Working
  <2>3. CASE Release(p) \/ Unlock(p)
    BY <2>3 DEF Release, Unlock, Working
  <2> QED
    BY <2>1, <2>2, <2>3
<1> QED
  BY <1>2, <1>3, <1>5, <1>6, <1>7, <1>8 DEF TInv

\* runCodeImport.
LEMMA CodeTyped ==
    ASSUME TInv, NEW p \in Proc,
           RemoveLegacy(p) \/ Plan(p) \/ Register(p) \/ Walk(p) \/ Count(p) \/ RemoveOrphaned(p)
    PROVE  /\ TInv' /\ Working(p)
           /\ \A q \in Proc \ {p} : run'[q] = run[q]
           /\ run'[p].pc \in {"plan", "register", "decide", "walk", "count", "remove", "release"}
           /\ UNCHANGED <<lock, memory, overlapped, excused>>
<1>1. sources' \in [Id -> BOOLEAN \union {None}]
  <2>1. sources \in [Id -> BOOLEAN \union {None}]
    BY DEF TInv, TypeOK
  <2>2. CASE RemoveLegacy(p)
    BY <2>1, <2>2 DEF RemoveLegacy
  <2>3. CASE Plan(p)
    BY <2>1, <2>3 DEF Plan, Id
  <2>4. CASE Register(p)
    <3>1. sources["hostHash"] \in BOOLEAN \union {None}
      BY <2>1 DEF Id
    <3>2. sources' = sources \/ sources' = [sources EXCEPT !["hostHash"] = FALSE]
          \/ sources' = [sources EXCEPT !["hostHash"] = sources["hostHash"]]
      BY <2>4 DEF Register
    <3> QED
      BY <2>1, <3>1, <3>2
  <2>5. CASE Walk(p)
    <3>1. sources["hostHash"] \in BOOLEAN \union {None}
      BY <2>1 DEF Id
    <3> QED
      BY <2>1, <2>5, <3>1 DEF Walk
  <2>6. CASE Count(p) \/ RemoveOrphaned(p)
    BY <2>1, <2>6 DEF Count, RemoveOrphaned
  <2> QED
    BY <2>2, <2>3, <2>4, <2>5, <2>6
<1>2. /\ run' \in [Proc -> Runs]
      /\ run'[p].pc \in {"plan", "register", "decide", "walk", "count", "remove", "release"}
      /\ \A q \in Proc \ {p} : run'[q] = run[q]
      /\ run'[p].copy = run[p].copy /\ run'[p].prep = run[p].prep
  <2>1. CASE \E l \in {"plan", "register", "decide", "walk", "count", "remove", "release"} : Goto(p, l)
    BY <2>1, GotoMoves DEF TInv, TypeOK, Pcs
  <2>2. CASE run' = [run EXCEPT ![p] = [@ EXCEPT !.pc = "register", !.plan = "pending"]]
    <3> DEFINE r == [run[p] EXCEPT !.pc = "register", !.plan = "pending"]
    <3>0. run[p] \in Runs
      BY DEF TInv, TypeOK
    <3>1. r \in Runs /\ r.pc = "register" /\ r.copy = run[p].copy /\ r.prep = run[p].prep
      BY <3>0 DEF Runs, Pcs
    <3>2. run' = [run EXCEPT ![p] = r]
      BY <2>2
    <3> HIDE DEF r
    <3> QED
      BY <3>1, <3>2 DEF TInv, TypeOK
  <2> QED
    BY <2>1, <2>2 DEF RemoveLegacy, Plan, Register, Walk, Count, RemoveOrphaned, Onward
<1>3. /\ UNCHANGED <<lock, memory, overlapped, excused>> /\ faults' \in 0..MaxFaults
      /\ emptied' \in SUBSET Proc
  <2>1. /\ UNCHANGED <<lock, memory, overlapped, excused>>
        /\ emptied' \subseteq emptied
    BY DEF RemoveLegacy, Plan, Register, Walk, Count, RemoveOrphaned
  <2>2. faults' = faults \/ Fault
    BY DEF RemoveLegacy, Plan, Register, Walk, Count, RemoveOrphaned
  <2> QED
    BY <2>1, <2>2, GbrainAssumption DEF Fault, TInv, TypeOK
<1>4. NoneAhead'
  BY <1>2, <1>3 DEF TInv, NoneAhead
<1>5. TypeOK'
  BY <1>1, <1>2, <1>3 DEF TInv, TypeOK
<1>6. Working(p)
  BY DEF Working, RemoveLegacy, Plan, Register, Walk, Count, RemoveOrphaned
<1> QED
  BY <1>2, <1>3, <1>4, <1>5, <1>6 DEF TInv

\* decideResume, preparePages, and the staging.
LEMMA PrepareTyped ==
    ASSUME TInv, NEW p \in Proc, Decide(p) \/ Prepare(p)
    PROVE  /\ TInv'
           /\ \A q \in Proc \ {p} : run'[q] = run[q]
           /\ Decide(p) => /\ run'[p].pc = "prepare"
                           /\ run'[p].resume \in {checkpoint, None}
           /\ Prepare(p) => /\ run'[p].pc \in {"release", "stage"}
                            /\ run'[p].resume = run[p].resume
                            /\ run'[p].copy = sessions
                            /\ \A f \in File : run'[p].prep[f] \in {0, files[f]}
           /\ UNCHANGED <<lock, sources, memory, faults, history>>
<1>0. run[p] \in Runs /\ checkpoint \in Dir \union {None, Notes} /\ files \in [File -> Version]
      /\ sessions \in Seen
  BY DEF TInv, TypeOK
<1>1. UNCHANGED <<lock, sources, memory, faults, history>>
  BY DEF Decide, Prepare
<1>2. CASE Decide(p)
  <2> DEFINE resume == IF checkpoint \in DOMAIN dirs THEN checkpoint ELSE None
  <2> DEFINE r == [run[p] EXCEPT !.pc = "prepare", !.resume = resume]
  <2>1. resume \in Dir \union {None, Notes} /\ resume \in {checkpoint, None}
    BY <1>0
  <2> HIDE DEF resume
  <2>2. r \in Runs /\ r.pc = "prepare" /\ r.resume = resume /\ r.copy = run[p].copy
        /\ r.prep = run[p].prep
    BY <1>0, <2>1 DEF Runs, Pcs
  <2>3. run' = [run EXCEPT ![p] = r]
    BY <1>2 DEF Decide, resume
  <2> HIDE DEF r
  <2>4. run' \in [Proc -> Runs] /\ run'[p] = r /\ \A q \in Proc \ {p} : run'[q] = run[q]
    BY <2>2, <2>3 DEF TInv, TypeOK
  <2>5. TypeOK' /\ NoneAhead'
    BY <1>1, <2>2, <2>4 DEF TInv, TypeOK, NoneAhead
  <2>6. ~Prepare(p)
    BY <1>2 DEF Decide, Prepare
  <2> QED
    BY <1>1, <2>1, <2>2, <2>4, <2>5, <2>6 DEF TInv
<1>3. CASE Prepare(p)
  <2>1. PICK chosen \in {{f \in File : sessions[f] # files[f]}, File} :
           run' = [run EXCEPT ![p] = [@ EXCEPT
                    !.pc = IF chosen = {} THEN "release" ELSE "stage",
                    !.copy = sessions,
                    !.prep = [f \in File |-> IF f \in chosen THEN files[f] ELSE 0]]]
    BY <1>3 DEF Prepare
  <2> DEFINE prep == [f \in File |-> IF f \in chosen THEN files[f] ELSE 0]
  <2> DEFINE to == IF chosen = {} THEN "release" ELSE "stage"
  <2> DEFINE r == [run[p] EXCEPT !.pc = to, !.copy = sessions, !.prep = prep]
  <2>2. prep \in Seen /\ \A f \in File : prep[f] \in {0, files[f]}
    BY <1>0, GbrainAssumption
  <2>3. to \in {"release", "stage"}
    OBVIOUS
  <2>4. run' = [run EXCEPT ![p] = r]
    BY <2>1
  <2> HIDE DEF prep, to
  <2>5. r \in Runs /\ r.pc = to /\ r.copy = sessions /\ r.prep = prep /\ r.resume = run[p].resume
    BY <1>0, <2>2, <2>3 DEF Runs, Pcs
  <2> HIDE DEF r
  <2>6. run' \in [Proc -> Runs] /\ run'[p] = r /\ \A q \in Proc \ {p} : run'[q] = run[q]
    BY <2>4, <2>5 DEF TInv, TypeOK
  <2>7. TypeOK'
    BY <1>1, <2>3, <2>5, <2>6 DEF TInv, TypeOK
  <2>8. \A f \in File : 0 <= files[f] /\ files[f] <= files[f] /\ sessions[f] <= files[f]
    BY <1>0 DEF TInv, TypeOK
  <2>9. NoneAhead'
    BY <1>1, <2>2, <2>5, <2>6, <2>8 DEF TInv, NoneAhead
  <2>10. ~Decide(p)
    BY <1>3 DEF Decide, Prepare
  <2> QED
    BY <1>1, <2>2, <2>3, <2>5, <2>6, <2>7, <2>9, <2>10 DEF TInv
<1> QED
  BY <1>2, <1>3

LEMMA StageTyped ==
    ASSUME TInv, NEW p \in Proc, Stage(p)
    PROVE  /\ TInv'
           /\ \A q \in Proc \ {p} : run'[q] = run[q]
           /\ \/ /\ run'[p].pc = "import" /\ run'[p].resume = run[p].resume
                 /\ run'[p].resume \in DOMAIN dirs /\ run'[p].dir = run[p].resume
                 /\ UNCHANGED disk
              \/ /\ run'[p].pc = "import" /\ run'[p].resume = None /\ run'[p].dir = made'
                 /\ made' \in Dir /\ made' = made + 1 /\ checkpoint' = checkpoint
                 /\ DOMAIN dirs' = DOMAIN dirs \union {made'}
                 /\ \A d \in DOMAIN dirs \ {made'} : dirs'[d] = dirs[d]
                 /\ \A f \in File : dirs'[made'][f] \in {0, run[p].prep[f]}
              \/ run'[p].pc = "release" /\ UNCHANGED disk
           /\ run'[p].copy = run[p].copy /\ run'[p].prep = run[p].prep
           /\ UNCHANGED <<lock, sources, files, sessions, imported, history>>
<1>0. /\ run[p] \in Runs /\ made \in 0..MaxDirs /\ DOMAIN dirs \subseteq 1..made \union {Notes}
      /\ \A d \in DOMAIN dirs : dirs[d] \in Seen
      /\ faults \in 0..MaxFaults /\ run[p].prep \in Seen
  BY DEF TInv, TypeOK, Runs
<1>1. UNCHANGED <<lock, sources, files, sessions, imported, history>>
  BY DEF Stage
<1>2. CASE Resumable(p) /\ run' = [run EXCEPT ![p] = [@ EXCEPT !.pc = "import", !.dir = run[p].resume]]
           /\ UNCHANGED <<disk, faults>>
  <2> DEFINE r == [run[p] EXCEPT !.pc = "import", !.dir = run[p].resume]
  <2>1. /\ r \in Runs /\ r.pc = "import" /\ r.dir = run[p].resume /\ r.resume = run[p].resume
        /\ r.copy = run[p].copy /\ r.prep = run[p].prep
    BY <1>0 DEF Runs, Pcs
  <2>2. run' = [run EXCEPT ![p] = r]
    BY <1>2
  <2> HIDE DEF r
  <2>3. run' \in [Proc -> Runs] /\ run'[p] = r /\ \A q \in Proc \ {p} : run'[q] = run[q]
    BY <2>1, <2>2 DEF TInv, TypeOK
  <2>4. run[p].resume \in DOMAIN dirs /\ run[p].resume # None
    BY <1>0, <1>2, GbrainAssumption DEF Resumable
  <2>5. TypeOK' /\ NoneAhead'
    BY <1>1, <1>2, <2>1, <2>3, <2>4 DEF TInv, TypeOK, NoneAhead
  <2> QED
    BY <1>1, <1>2, <2>1, <2>3, <2>4, <2>5 DEF TInv
<1>3. CASE /\ made < MaxDirs /\ made' = made + 1 /\ UNCHANGED checkpoint
           /\ \E lost \in SUBSET Prepared(p) :
                /\ IF lost = {} THEN UNCHANGED faults ELSE Fault
                /\ dirs' = [d \in DOMAIN dirs \union {made'} |->
                              IF d # made' THEN dirs[d]
                              ELSE [f \in File |-> IF f \in lost THEN 0 ELSE run[p].prep[f]]]
           /\ run' = [run EXCEPT ![p] = [@ EXCEPT !.pc = "import", !.dir = made', !.resume = None]]
  <2> DEFINE n == made + 1
  <2>0. n \in Dir /\ n # None /\ made' = n
    BY <1>0, <1>3, GbrainAssumption
  <2> HIDE DEF n
  <2> DEFINE r == [run[p] EXCEPT !.pc = "import", !.dir = n, !.resume = None]
  <2>1. /\ r \in Runs /\ r.pc = "import" /\ r.dir = n /\ r.resume = None
        /\ r.copy = run[p].copy /\ r.prep = run[p].prep
    BY <1>0, <2>0 DEF Runs, Pcs
  <2>2. run' = [run EXCEPT ![p] = r]
    BY <1>3, <2>0
  <2> HIDE DEF r
  <2>3. run' \in [Proc -> Runs] /\ run'[p] = r /\ \A q \in Proc \ {p} : run'[q] = run[q]
    BY <2>1, <2>2 DEF TInv, TypeOK
  <2>4. PICK lost \in SUBSET Prepared(p) :
                /\ IF lost = {} THEN UNCHANGED faults ELSE Fault
                /\ dirs' = [d \in DOMAIN dirs \union {n} |->
                              IF d # n THEN dirs[d]
                              ELSE [f \in File |-> IF f \in lost THEN 0 ELSE run[p].prep[f]]]
    BY <1>3, <2>0
  <2>5. /\ DOMAIN dirs' = DOMAIN dirs \union {n}
        /\ \A d \in DOMAIN dirs \ {n} : dirs'[d] = dirs[d]
        /\ dirs'[n] = [f \in File |-> IF f \in lost THEN 0 ELSE run[p].prep[f]]
    BY <2>4
  <2>6. dirs'[n] \in Seen /\ \A f \in File : dirs'[n][f] \in {0, run[p].prep[f]}
    BY <1>0, <2>5, GbrainAssumption
  <2>7. faults' \in 0..MaxFaults
    BY <1>0, <2>4, GbrainAssumption DEF Fault
  <2>8. /\ made' \in 0..MaxDirs /\ DOMAIN dirs' \subseteq 1..made' \union {Notes}
        /\ \A d \in DOMAIN dirs' : dirs'[d] \in Seen
    BY <1>0, <1>3, <2>0, <2>5, <2>6 DEF n
  <2>9. TypeOK'
    BY <1>1, <1>3, <2>0, <2>1, <2>3, <2>7, <2>8 DEF TInv, TypeOK
  <2>10. \A f \in File : run[p].prep[f] <= files[f] /\ 0 <= files[f]
    BY GbrainAssumption DEF TInv, TypeOK, NoneAhead
  <2>11. NoneAhead'
    BY <1>1, <2>1, <2>3, <2>5, <2>6, <2>10 DEF TInv, NoneAhead
  <2> QED
    BY <1>1, <1>3, <2>0, <2>1, <2>3, <2>5, <2>6, <2>9, <2>11 DEF TInv
<1>4. CASE Fault /\ Goto(p, "release") /\ UNCHANGED disk
  <2>1. faults' \in 0..MaxFaults
    BY <1>0, <1>4, GbrainAssumption DEF Fault
  <2>2. /\ run' \in [Proc -> Runs] /\ run'[p].pc = "release" /\ \A q \in Proc \ {p} : run'[q] = run[q]
        /\ run'[p].copy = run[p].copy /\ run'[p].prep = run[p].prep
    BY <1>4, GotoMoves DEF TInv, TypeOK, Pcs
  <2>3. TypeOK' /\ NoneAhead'
    BY <1>1, <1>4, <2>1, <2>2 DEF TInv, TypeOK, NoneAhead
  <2> QED
    BY <1>1, <1>4, <2>2, <2>3 DEF TInv
<1> QED
  BY <1>2, <1>3, <1>4 DEF Stage

\* gbrain takes what it finds in the directory.
LEMMA AfterTyped ==
    ASSUME TInv, NEW p \in Proc, NEW landed \in SUBSET Staged(p)
    PROVE  /\ After(p, landed) \in Seen
           /\ \A f \in File : After(p, landed)[f] <= files[f]
           /\ \A f \in landed : /\ run[p].dir \in DOMAIN dirs /\ dirs[run[p].dir][f] # 0
                                /\ After(p, landed)[f] = dirs[run[p].dir][f]
           /\ \A f \in File \ landed : After(p, landed)[f] = imported[f]
<1>1. \A f \in landed : f \in File /\ run[p].dir \in DOMAIN dirs /\ dirs[run[p].dir][f] # 0
  BY DEF Staged
<1>2. \A f \in landed : dirs[run[p].dir] \in Seen /\ dirs[run[p].dir][f] <= files[f]
  BY <1>1 DEF TInv, TypeOK, NoneAhead
<1>3. imported \in Seen /\ \A f \in File : imported[f] <= files[f]
  BY DEF TInv, TypeOK
<1> QED
  BY <1>1, <1>2, <1>3 DEF After

LEMMA WithoutTyped ==
    ASSUME TInv, NEW d
    PROVE  /\ DOMAIN Without(d) \subseteq DOMAIN dirs
           /\ \A e \in DOMAIN Without(d) : Without(d)[e] = dirs[e]
BY DEF Without

\* An import that goes on, fails or is stopped: files and records stay.
LEMMA ImportTyped ==
    ASSUME TInv, NEW p \in Proc,
           Checkpoint(p) \/ ImportEnds(p) \/ ImportFails(p) \/ Terminated(p)
    PROVE  /\ TInv'
           /\ run[p].pc = "import"
           /\ \A q \in Proc \ {p} : run'[q] = run[q]
           /\ \/ run'[p] = run[p] /\ Checkpoint(p)
              \/ run'[p].pc = "release" /\ (ImportFails(p) \/ Terminated(p))
              \/ /\ run'[p].pc = "record" /\ checkpoint' = None /\ UNCHANGED dirs
                 /\ run'[p].dir = run[p].dir /\ run'[p].resume = run[p].resume
                 /\ \E failed \in SUBSET Staged(p) :
                       /\ imported' = After(p, Staged(p) \ failed)
                       /\ failed \subseteq run'[p].failed \union run'[p].unseen
           /\ \E landed \in SUBSET Staged(p) : imported' = After(p, landed) \/ imported' = imported
           /\ DOMAIN dirs' \subseteq DOMAIN dirs /\ \A d \in DOMAIN dirs' : dirs'[d] = dirs[d]
           /\ run'[p].copy = run[p].copy /\ run'[p].prep = run[p].prep
           /\ checkpoint' \in {checkpoint, run[p].dir, None}
           /\ UNCHANGED <<lock, sources, files, sessions, made, history>>
<1>0. run[p] \in Runs /\ faults \in 0..MaxFaults
  BY DEF TInv, TypeOK
<1>1. run[p].pc = "import" /\ UNCHANGED <<lock, sources, files, sessions, made, history>>
  BY DEF Checkpoint, ImportEnds, ImportFails, Terminated
<1>2. run[p].dir \in Dir \union {Notes}
  BY <1>0, <1>1 DEF TInv, TypeOK, Runs
<1>3. checkpoint' \in {checkpoint, run[p].dir, None} /\ faults' \in 0..MaxFaults
  <2>1. checkpoint' \in {checkpoint, run[p].dir, None}
    BY DEF Checkpoint, ImportEnds, ImportFails, Terminated
  <2>2. faults' = faults \/ Fault
    BY DEF Checkpoint, ImportEnds, ImportFails, Terminated
  <2> QED
    BY <1>0, <2>1, <2>2, GbrainAssumption DEF Fault
<1>4. DOMAIN dirs' \subseteq DOMAIN dirs /\ \A d \in DOMAIN dirs' : dirs'[d] = dirs[d]
  BY WithoutTyped DEF Checkpoint, ImportEnds, ImportFails, Terminated
<1>5. PICK landed \in SUBSET Staged(p) : imported' = After(p, landed) \/ imported' = imported
  BY DEF Checkpoint, ImportEnds, ImportFails, Terminated
<1>6. imported' \in Seen /\ \A f \in File : imported'[f] <= files[f]
  BY <1>5, AfterTyped DEF TInv, TypeOK
<1>7. ASSUME run' \in [Proc -> Runs], run'[p].copy = run[p].copy, run'[p].prep = run[p].prep,
             run'[p].pc \in {"import", "record"} => run'[p].dir = run[p].dir,
             \A q \in Proc \ {p} : run'[q] = run[q]
      PROVE  TInv'
  <2>1. NoneAhead'
    BY <1>1, <1>4, <1>7 DEF TInv, NoneAhead
  <2>2. run'[p].pc \in {"import", "record"} => run'[p].dir # None
    BY <1>2, <1>7, GbrainAssumption
  <2>3. checkpoint' \in Dir \union {None, Notes}
    BY <1>2, <1>3 DEF TInv, TypeOK
  <2>4. DOMAIN dirs' \subseteq 1..made' \union {Notes} /\ \A d \in DOMAIN dirs' : dirs'[d] \in Seen
    BY <1>1, <1>4 DEF TInv, TypeOK
  <2>5. \A q \in Proc : run'[q].pc \in {"import", "record"} => run'[q].dir # None
    BY <1>7, <2>2 DEF TInv, TypeOK
  <2>6. TypeOK'
    BY <1>1, <1>3, <1>6, <1>7, <2>3, <2>4, <2>5 DEF TInv, TypeOK
  <2> QED
    BY <2>1, <2>6 DEF TInv
<1>8. CASE Checkpoint(p)
  <2>1. run' = run
    BY <1>8 DEF Checkpoint
  <2> QED
    BY <1>1, <1>3, <1>4, <1>5, <1>7, <1>8, <2>1 DEF TInv, TypeOK
<1>9. CASE ImportFails(p) \/ Terminated(p)
  <2>1. Goto(p, "release")
    BY <1>9 DEF ImportFails, Terminated
  <2>2. /\ run' \in [Proc -> Runs] /\ run'[p].pc = "release" /\ run'[p].copy = run[p].copy
        /\ run'[p].prep = run[p].prep /\ \A q \in Proc \ {p} : run'[q] = run[q]
    BY <2>1, GotoMoves DEF TInv, TypeOK, Pcs
  <2> QED
    BY <1>1, <1>3, <1>4, <1>5, <1>7, <1>9, <2>2
<1>10. CASE ImportEnds(p)
  <2>1. PICK failed \in SUBSET Staged(p), known \in SUBSET File :
          /\ imported' = After(p, Staged(p) \ failed)
          /\ run' = [run EXCEPT ![p] = [@ EXCEPT !.pc = "record", !.failed = known,
                                                !.unseen = failed \ known]]
    <3>1. PICK failed \in SUBSET Staged(p) : \E known \in SUBSET Mapped(p, failed) :
            /\ imported' = After(p, Staged(p) \ failed)
            /\ run' = [run EXCEPT ![p] = [@ EXCEPT !.pc = "record", !.failed = known,
                                                  !.unseen = failed \ known]]
      BY <1>10 DEF ImportEnds
    <3>2. Mapped(p, failed) \subseteq File
      BY DEF Mapped, Staged
    <3> QED
      BY <3>1, <3>2
  <2> DEFINE r == [run[p] EXCEPT !.pc = "record", !.failed = known, !.unseen = failed \ known]
  <2>2. failed \ known \in SUBSET File
    BY DEF Staged
  <2>3. run' = [run EXCEPT ![p] = r]
    BY <2>1
  <2>4. /\ r \in Runs /\ r.pc = "record" /\ r.dir = run[p].dir /\ r.resume = run[p].resume
        /\ r.copy = run[p].copy /\ r.prep = run[p].prep
        /\ r.failed = known /\ r.unseen = failed \ known
    BY <1>0, <2>2 DEF Runs, Pcs
  <2> HIDE DEF r
  <2>5. run' \in [Proc -> Runs] /\ run'[p] = r /\ \A q \in Proc \ {p} : run'[q] = run[q]
    BY <2>3, <2>4 DEF TInv, TypeOK
  <2>6. TInv'
    BY <1>7, <2>4, <2>5
  <2>7. checkpoint' = None /\ UNCHANGED dirs
    BY <1>10 DEF ImportEnds
  <2>8. \E none \in SUBSET Staged(p) :
           /\ imported' = After(p, Staged(p) \ none)
           /\ none \subseteq run'[p].failed \union run'[p].unseen
    BY <2>1, <2>4, <2>5
  <2> QED
    BY <1>1, <1>3, <1>4, <1>5, <2>4, <2>5, <2>6, <2>7, <2>8
<1> QED
  BY <1>8, <1>9, <1>10

LEMMA RecordTyped ==
    ASSUME TInv, NEW p \in Proc, Record(p)
    PROVE  /\ TInv'
           /\ run[p].pc = "record" /\ run'[p].pc = "release"
           /\ \A q \in Proc \ {p} : run'[q] = run[q]
           /\ \A f \in File : sessions'[f] = IF f \in Recordable(p) THEN files[f] ELSE run[p].copy[f]
           /\ DOMAIN dirs' \subseteq DOMAIN dirs /\ \A d \in DOMAIN dirs' : dirs'[d] = dirs[d]
           /\ UNCHANGED <<lock, sources, files, imported, checkpoint, made, faults, overlapped, emptied>>
<1>0. run[p] \in Runs
  BY DEF TInv, TypeOK
<1>1. /\ run[p].pc = "record" /\ Goto(p, "release")
      /\ UNCHANGED <<lock, sources, files, imported, checkpoint, made, faults, overlapped, emptied>>
      /\ sessions' = [f \in File |-> IF f \in Recordable(p) THEN files[f] ELSE run[p].copy[f]]
      /\ dirs' = Without(run[p].dir) /\ excused' \subseteq File
  BY DEF Record
<1>2. /\ run' \in [Proc -> Runs] /\ run'[p].pc = "release" /\ \A q \in Proc \ {p} : run'[q] = run[q]
      /\ run'[p].copy = run[p].copy /\ run'[p].prep = run[p].prep
  BY <1>1, GotoMoves DEF TInv, TypeOK, Pcs
<1>3. \A f \in File : sessions'[f] = IF f \in Recordable(p) THEN files[f] ELSE run[p].copy[f]
  BY <1>1
<1>4. \A f \in File : /\ files[f] \in 0..MaxVersion /\ run[p].copy[f] \in 0..MaxVersion
                      /\ run[p].copy[f] <= files[f] /\ files[f] <= files[f]
  BY <1>0, GbrainAssumption DEF TInv, TypeOK, Runs, NoneAhead
<1>5. sessions' \in Seen /\ \A f \in File : sessions'[f] <= files[f]
  BY <1>1, <1>4
<1>6. DOMAIN dirs' \subseteq DOMAIN dirs /\ \A d \in DOMAIN dirs' : dirs'[d] = dirs[d]
  BY <1>1, WithoutTyped
<1>7. NoneAhead'
  BY <1>1, <1>2, <1>6 DEF TInv, NoneAhead
<1>8. TypeOK'
  BY <1>1, <1>2, <1>5, <1>6 DEF TInv, TypeOK
<1> QED
  BY <1>1, <1>2, <1>3, <1>6, <1>7, <1>8 DEF TInv

\* What happens around the runs.
LEMMA AroundTyped ==
    ASSUME TInv,
           (\E p \in Proc : Killed(p)) \/ (\E f \in File : Edit(f)) \/ LockAges \/ UserImportStops
           \/ SourceEmptied
    PROVE  /\ TInv'
           /\ \A q \in Proc : run'[q] = run[q] \/ run'[q] = Off
           /\ \/ checkpoint' = checkpoint
              \/ checkpoint' = Notes /\ Notes \in DOMAIN dirs
           /\ UNCHANGED <<sessions, imported, dirs, overlapped, excused>>
<1>1. CASE \E p \in Proc : Killed(p)
  <2>1. /\ UNCHANGED <<lock, sources, memory, overlapped, excused>> /\ Fault
        /\ emptied' \subseteq emptied
        /\ \A q \in Proc : run'[q] = run[q] \/ run'[q] = Off
        /\ run' \in [Proc -> Runs]
    BY <1>1, InitialsTyped DEF Killed, TInv, TypeOK
  <2>2. faults' \in 0..MaxFaults
    BY <2>1, GbrainAssumption DEF Fault, TInv, TypeOK
  <2>3. \A f \in File : NoFile[f] = 0 /\ 0 <= files[f]
    BY GbrainAssumption DEF NoFile, TInv, TypeOK
  <2>4. NoneAhead'
    BY <2>1, <2>3, InitialsTyped DEF TInv, NoneAhead
  <2>5. TypeOK'
    BY <2>1, <2>2, InitialsTyped DEF TInv, TypeOK
  <2> QED
    BY <2>1, <2>4, <2>5 DEF TInv
<1>2. CASE \E f \in File : Edit(f)
  <2>1. PICK f \in File : Edit(f)
    BY <1>2
  <2>2. /\ files' \in [File -> Version]
        /\ \A g \in File : files[g] <= files'[g]
    BY <2>1, GbrainAssumption DEF Edit, TInv, TypeOK
  <2>3. UNCHANGED <<lock, run, sources, sessions, imported, disk, faults, history>>
    BY <2>1 DEF Edit
  <2>4. \A n \in 0..MaxVersion, g \in File : n <= files[g] => n <= files'[g]
    BY <2>2, GbrainAssumption DEF TInv, TypeOK
  <2>5. TypeOK'
    BY <2>2, <2>3, <2>4 DEF TInv, TypeOK
  <2>6. NoneAhead'
    <3>1. \A p \in Proc, g \in File : run[p].copy[g] \in 0..MaxVersion /\ run[p].prep[g] \in 0..MaxVersion
      BY DEF TInv, TypeOK, Runs
    <3>2. \A d \in DOMAIN dirs, g \in File : dirs[d][g] \in 0..MaxVersion
      BY DEF TInv, TypeOK
    <3> QED
      BY <2>3, <2>4, <3>1, <3>2 DEF TInv, NoneAhead
  <2> QED
    BY <2>3, <2>5, <2>6 DEF TInv
<1>3. CASE LockAges
  <2>1. /\ UNCHANGED <<run, sources, memory, faults, history>>
        /\ lock.by # None /\ lock' = [lock EXCEPT !.old = TRUE]
    BY <1>3 DEF LockAges
  <2>2. lock \in [by : Proc \union {None}, old : BOOLEAN]
    BY DEF TInv, TypeOK
  <2>3. lock' \in [by : Proc \union {None}, old : BOOLEAN] /\ lock'.by # None
    BY <2>1, <2>2
  <2>4. TypeOK' /\ NoneAhead'
    BY <2>1, <2>3 DEF TInv, TypeOK, NoneAhead
  <2> QED
    BY <2>1, <2>4 DEF TInv
<1>4. CASE UserImportStops
  <2>1. /\ UNCHANGED <<lock, run, sources, files, sessions, imported, dirs, made, history>>
        /\ Fault /\ checkpoint' = Notes /\ Notes \in DOMAIN dirs
    BY <1>4 DEF UserImportStops
  <2>2. faults' \in 0..MaxFaults
    BY <2>1, GbrainAssumption DEF Fault, TInv, TypeOK
  <2>3. TypeOK' /\ NoneAhead'
    BY <2>1, <2>2 DEF TInv, TypeOK, NoneAhead
  <2> QED
    BY <2>1, <2>3 DEF TInv
<1>5. CASE SourceEmptied
  <2>1. /\ UNCHANGED <<lock, run, memory, overlapped, excused>> /\ Fault
        /\ emptied' \in SUBSET Proc
        /\ \E gone \in {None, FALSE} : sources' = [sources EXCEPT !["hostHash"] = gone]
    BY <1>5 DEF SourceEmptied
  <2>2. faults' \in 0..MaxFaults
    BY <2>1, GbrainAssumption DEF Fault, TInv, TypeOK
  <2>3. sources' \in [Id -> BOOLEAN \union {None}]
    <3>1. sources \in [Id -> BOOLEAN \union {None}]
      BY DEF TInv, TypeOK
    <3> QED
      BY <2>1, <3>1
  <2>4. TypeOK'
    BY <2>1, <2>2, <2>3 DEF TInv, TypeOK
  <2>5. NoneAhead'
    BY <2>1 DEF TInv, NoneAhead
  <2> QED
    BY <2>1, <2>4, <2>5 DEF TInv
<1> QED
  BY <1>1, <1>2, <1>3, <1>4, <1>5

LEMMA TypeStep == TInv /\ [Next]_vars => TInv'
<1> SUFFICES ASSUME TInv, [Next]_vars PROVE TInv'
  OBVIOUS
<1>1. CASE UNCHANGED vars
  BY <1>1 DEF vars, TInv, TypeOK, NoneAhead
<1> QED
  BY <1>1, LockTyped, CodeTyped, PrepareTyped, StageTyped, ImportTyped, RecordTyped, AroundTyped
     DEF Next, Step

\* Types: every version anyone has seen is one there was.
THEOREM TypeCorrect == Spec => []TypeOK
<1>1. TInv => TypeOK
  BY DEF TInv
<1> QED
  BY <1>1, InitTInv, TypeStep, PTL DEF Spec

-----------------------------------------------------------------------------

\* What a run has counted still holds when it removes the old source: overlapping runs
\* rename into a free id only, and a walk takes no pages away.
Counted ==
    \A p \in Proc : run[p].pc = "remove" /\ p \notin emptied => sources["hostHash"] = TRUE

LEMMA NextCounted == TInv /\ Counted /\ [Next]_vars => Counted'
<1> SUFFICES ASSUME TInv, Counted, [Next]_vars PROVE Counted'
  OBVIOUS
<1>0. sources \in [Id -> BOOLEAN \union {None}] /\ "hostHash" \in Id /\ "pathHash" \in Id
  BY DEF TInv, TypeOK, Id
<1>1. ASSUME NEW p \in Proc, run'[p].pc # "remove", \A q \in Proc \ {p} : run'[q] = run[q],
             emptied \ {p} \subseteq emptied',
             sources["hostHash"] = TRUE => sources'["hostHash"] = TRUE
      PROVE  Counted'
  BY <1>1 DEF Counted
<1>2. ASSUME NEW p \in Proc,
             RemoveLegacy(p) \/ Plan(p) \/ Register(p) \/ Walk(p) \/ RemoveOrphaned(p)
      PROVE  Counted'
  <2>1. \A q \in Proc \ {p} : run'[q] = run[q]
    BY <1>2, CodeTyped
  <2>2. run'[p].pc # "remove"
    <3>1. CASE \E l \in Pcs \ {"remove"} : Goto(p, l)
      BY <3>1, GotoMoves DEF TInv, TypeOK
    <3>2. CASE run' = [run EXCEPT ![p] = [@ EXCEPT !.pc = "register", !.plan = "pending"]]
      BY <3>2 DEF TInv, TypeOK, Runs
    <3> QED
      BY <1>2, <3>1, <3>2
         DEF RemoveLegacy, Plan, Register, Walk, RemoveOrphaned, Onward, Pcs
  <2>3. sources["hostHash"] = TRUE => sources'["hostHash"] = TRUE
    <3>1. CASE RemoveLegacy(p) \/ RemoveOrphaned(p)
      BY <1>0, <3>1 DEF RemoveLegacy, RemoveOrphaned
    <3>2. CASE Plan(p)
      BY <1>0, <3>2, GbrainAssumption DEF Plan
    <3>3. CASE Register(p)
      BY <1>0, <3>3, GbrainAssumption DEF Register
    <3>4. CASE Walk(p)
      BY <1>0, <3>4 DEF Walk
    <3> QED
      BY <1>2, <3>1, <3>2, <3>3, <3>4
  <2>4. emptied \ {p} \subseteq emptied'
    BY <1>2 DEF RemoveLegacy, Plan, Register, Walk, RemoveOrphaned
  <2> QED
    BY <1>1, <2>1, <2>2, <2>3, <2>4
<1>3. ASSUME NEW p \in Proc, Count(p) PROVE Counted'
  <2>1. /\ \A q \in Proc \ {p} : run'[q] = run[q]
        /\ UNCHANGED <<sources, emptied>>
    BY <1>3, CodeTyped DEF Count
  <2>2. run'[p].pc = "remove" => sources["hostHash"] = TRUE
    <3>1. CASE \E l \in Onward : Goto(p, l)
      BY <3>1, GotoMoves DEF TInv, TypeOK, Onward, Pcs
    <3>2. CASE Verified(p)
      BY <3>2 DEF Verified
    <3> QED
      BY <1>3, <3>1, <3>2 DEF Count
  <2> QED
    BY <2>1, <2>2 DEF Counted
<1>4. ASSUME NEW p \in Proc, Killed(p) PROVE Counted'
  <2>1. /\ run' = [run EXCEPT ![p] = Off] /\ emptied' = emptied \ {p} /\ UNCHANGED sources
    BY <1>4 DEF Killed
  <2>2. run'[p].pc # "remove" /\ \A q \in Proc \ {p} : run'[q] = run[q]
    BY <2>1, InitialsTyped DEF TInv, TypeOK
  <2> QED
    BY <1>1, <2>1, <2>2
<1>5. CASE SourceEmptied
  BY <1>5 DEF SourceEmptied, Counted
<1>6. ASSUME NEW p \in Proc, UNCHANGED <<sources, emptied>>, run'[p].pc # "remove",
             \A q \in Proc \ {p} : run'[q] = run[q]
      PROVE  Counted'
  BY <1>6 DEF Counted
<1>7. ASSUME NEW p \in Proc,
             \/ Start(p) \/ TakeOver(p) \/ Create(p) \/ Release(p) \/ Unlock(p)
             \/ Decide(p) \/ Prepare(p) \/ Stage(p)
             \/ Checkpoint(p) \/ ImportEnds(p) \/ ImportFails(p) \/ Terminated(p) \/ Record(p)
      PROVE  Counted'
  <2>1. UNCHANGED <<sources, emptied>>
    BY <1>7 DEF Start, TakeOver, Create, Release, Unlock, Decide, Prepare, Stage, Checkpoint,
                ImportEnds, ImportFails, Terminated, Record
  <2>2. \A q \in Proc \ {p} : run'[q] = run[q]
    BY <1>7, LockTyped, PrepareTyped, StageTyped, ImportTyped, RecordTyped
  <2>3. run'[p].pc # "remove" \/ run'[p] = run[p]
    <3>1. CASE Start(p) \/ TakeOver(p) \/ Create(p) \/ Release(p) \/ Unlock(p)
      BY <3>1, LockTyped
    <3>2. CASE Decide(p) \/ Prepare(p)
      BY <3>2, PrepareTyped
    <3>3. CASE Stage(p)
      BY <3>3, StageTyped
    <3>4. CASE Checkpoint(p) \/ ImportEnds(p) \/ ImportFails(p) \/ Terminated(p)
      BY <3>4, ImportTyped
    <3>5. CASE Record(p)
      BY <3>5, RecordTyped
    <3> QED
      BY <1>7, <3>1, <3>2, <3>3, <3>4, <3>5
  <2> QED
    BY <2>1, <2>2, <2>3 DEF Counted
<1>8. CASE (\E f \in File : Edit(f)) \/ LockAges \/ UserImportStops \/ UNCHANGED vars
  BY <1>8 DEF Edit, LockAges, UserImportStops, vars, Counted
<1> QED
  BY <1>2, <1>3, <1>4, <1>5, <1>7, <1>8 DEF Next, Step

\* When the pages of the path-hash source go, the source that replaces it has some, whatever
\* fails, dies or overlaps between the count and the removal, unless somebody emptied that
\* source by hand in between (planHostnameFoldMigration, runCodeImport): the property
\* PagesKept.  The legacy source is removed unseen and is not in it.
THEOREM PagesSurvive == Spec => PagesKept
<1> DEFINE Kept == sources["pathHash"] = TRUE /\ sources'["pathHash"] # TRUE
                     => sources'["hostHash"] = TRUE \/ \E p \in emptied : p \notin emptied'
<1>1. ASSUME TypeOK, Counted, [Next]_vars PROVE Kept
  <2>1. sources \in [Id -> BOOLEAN \union {None}] /\ {"legacy", "pathHash", "hostHash"} = Id
    BY <1>1 DEF TypeOK, Id
  <2>2. ASSUME NEW p \in Proc, Plan(p) PROVE Kept
    BY <2>1, <2>2 DEF Plan
  <2>3. ASSUME NEW p \in Proc, RemoveOrphaned(p) PROVE Kept
    <3>1. p \in emptied \/ sources["hostHash"] = TRUE
      BY <1>1, <2>3 DEF Counted, RemoveOrphaned
    <3> QED
      BY <2>1, <2>3, <3>1 DEF RemoveOrphaned
  <2>4. ASSUME NEW p \in Proc, RemoveLegacy(p) \/ Register(p) \/ Walk(p) PROVE Kept
    BY <2>1, <2>4 DEF RemoveLegacy, Register, Walk
  <2>5. ASSUME SourceEmptied PROVE Kept
    BY <2>1, <2>5 DEF SourceEmptied
  <2>6. ASSUME UNCHANGED sources PROVE Kept
    BY <2>6
  <2> QED
    BY <1>1, <2>2, <2>3, <2>4, <2>5, <2>6
       DEF Next, Step, vars, Start, TakeOver, Create, Release, Unlock, Killed, Count, Decide, Prepare,
           Stage, Checkpoint, ImportEnds, ImportFails, Terminated, Record, Edit, LockAges,
           UserImportStops
<1>2. Init => Counted
  BY InitialsTyped DEF Init, Counted
<1>3. TInv => TypeOK
  BY DEF TInv
<1> QED
  BY <1>1, <1>2, <1>3, NextCounted, InitTInv, TypeStep, PTL DEF Spec, PagesKept

LEMMA StayCurrent ==
    ASSUME UNCHANGED <<sessions, imported, dirs, excused>>, NEW q \in Proc, CurrentFor(q),
           run'[q] = run[q] \/ run'[q] = Off,
           checkpoint' = checkpoint \/ checkpoint' = Notes
    PROVE  CurrentFor(q)'
BY InitialsTyped DEF CurrentFor, Newer, Staged

\* A run that is not at work has nothing to be wrong about.
LEMMA IdleCurrent ==
    ASSUME NEW q \in Proc, ~(run'[q].pc \in {"prepare", "stage", "import", "record"})
    PROVE  CurrentFor(q)'
BY DEF CurrentFor

\* With one run at work, only that one needs a look.
LEMMA LoneStep ==
    ASSUME Alone, NEW p \in Proc, Working(p), \A q \in Proc \ {p} : run'[q] = run[q]
    PROVE  Alone' /\ \A q \in Proc \ {p} : CurrentFor(q)'
<1>1. \A q \in Proc \ {p} : ~Working(q) /\ ~Working(q)'
  BY DEF Alone, Working
<1>2. \A q \in Proc \ {p} : ~(run'[q].pc \in {"prepare", "stage", "import", "record"})
  BY <1>1 DEF Working
<1> QED
  BY <1>1, <1>2, IdleCurrent DEF Alone

LEMMA LandedStep ==
    ASSUME TInv, LInv, [Next]_vars, ~overlapped'
    PROVE  (Alone /\ Current /\ Landed)'
<1>1. ~overlapped
  BY LockTyped, CodeTyped, PrepareTyped, StageTyped, ImportTyped, RecordTyped, AroundTyped
     DEF Next, Step, vars
<1>2. Alone /\ Current /\ Landed
  BY <1>1 DEF LInv
<1>n. None \notin DOMAIN dirs
  BY GbrainAssumption DEF TInv, TypeOK
<1>3. ASSUME NEW p \in Proc, Start(p) \/ TakeOver(p) \/ Create(p) \/ Release(p) \/ Unlock(p)
      PROVE  (Alone /\ Current /\ Landed)'
  <2>1. UNCHANGED <<sessions, imported, dirs, excused, checkpoint>>
    BY <1>3, LockTyped
  <2>2. Alone'
    <3>1. CASE Working(p) \/ ~Working(p)'
      BY <1>2, <1>3, <3>1, LockTyped DEF Alone, Working
    <3>2. CASE ~Working(p) /\ Working(p)'
      <4>1. \A q \in Proc : ~Working(q)
        BY <1>3, <3>2, LockTyped
      <4> QED
        BY <1>3, <4>1, LockTyped DEF Alone, Working
    <3> QED
      BY <3>1, <3>2
  <2>3. ASSUME NEW q \in Proc PROVE CurrentFor(q)'
    <3>1. CASE q = p
      BY <1>3, <3>1, LockTyped, IdleCurrent
    <3>2. CASE q # p
      BY <1>2, <1>3, <2>1, <3>2, LockTyped, StayCurrent DEF Current
    <3> QED
      BY <3>1, <3>2
  <2> QED
    BY <1>2, <2>1, <2>2, <2>3 DEF Current, Newer, Landed
<1>4. ASSUME NEW p \in Proc, RemoveLegacy(p) \/ Plan(p) \/ Register(p) \/ Walk(p) \/ Count(p) \/ RemoveOrphaned(p)
      PROVE  (Alone /\ Current /\ Landed)'
  <2>1. UNCHANGED <<sessions, imported, dirs, excused, checkpoint>>
    BY <1>4, CodeTyped
  <2>2. Alone' /\ \A q \in Proc \ {p} : CurrentFor(q)'
    BY <1>2, <1>4, CodeTyped, LoneStep
  <2>3. CurrentFor(p)'
    BY <1>4, CodeTyped, IdleCurrent
  <2> QED
    BY <1>2, <2>1, <2>2, <2>3 DEF Current, Newer, Landed
<1>5. ASSUME NEW p \in Proc, Decide(p) \/ Prepare(p) PROVE (Alone /\ Current /\ Landed)'
  <2>1. UNCHANGED <<sessions, imported, dirs, excused, checkpoint>>
    BY <1>5, PrepareTyped
  <2>2. Working(p)
    BY <1>5 DEF Working, Decide, Prepare
  <2>3. Alone' /\ \A q \in Proc \ {p} : CurrentFor(q)'
    BY <1>2, <1>5, <2>2, PrepareTyped, LoneStep
  <2>4. CurrentFor(p)'
    <3>1. CASE Decide(p)
      <4>1. run'[p].pc = "prepare" /\ run'[p].resume \in {checkpoint, None}
        BY <3>1, PrepareTyped
      <4>2. Newer(run[p].resume)'
        BY <1>2, <1>n, <2>1, <4>1 DEF Current, Newer
      <4> QED
        BY <4>1, <4>2 DEF CurrentFor
    <3>2. CASE Prepare(p)
      <4>1. /\ run'[p].pc \in {"release", "stage"} /\ run'[p].resume = run[p].resume
            /\ run'[p].copy = sessions /\ \A f \in File : run'[p].prep[f] \in {0, files[f]}
        BY <3>2, PrepareTyped
      <4>2. Newer(run[p].resume)
        BY <1>2, <3>2 DEF Current, CurrentFor, Prepare
      <4>3. \A f \in File : files[f] >= sessions[f]
        BY GbrainAssumption DEF TInv, TypeOK
      <4> QED
        BY <2>1, <4>1, <4>2, <4>3 DEF CurrentFor, Newer
    <3> QED
      BY <1>5, <3>1, <3>2
  <2> QED
    BY <1>2, <2>1, <2>3, <2>4 DEF Current, Newer, Landed
<1>6. ASSUME NEW p \in Proc, Stage(p) PROVE (Alone /\ Current /\ Landed)'
  <2>1. UNCHANGED <<sessions, imported, excused>>
    BY <1>6, StageTyped
  <2>2. run[p].pc = "stage" /\ Working(p)
    BY <1>6 DEF Working, Stage
  <2>3. Alone' /\ \A q \in Proc \ {p} : CurrentFor(q)'
    BY <1>2, <1>6, <2>2, StageTyped, LoneStep
  <2>4. /\ run[p].copy = sessions /\ Newer(run[p].resume)
        /\ \A f \in File : run[p].prep[f] = 0 \/ run[p].prep[f] >= sessions[f]
    BY <1>2, <2>2 DEF Current, CurrentFor
  <2>5. CASE UNCHANGED disk
    <3>1. CurrentFor(p)'
      BY <1>6, <2>1, <2>4, <2>5, StageTyped DEF CurrentFor, Newer
    <3> QED
      BY <1>2, <2>1, <2>3, <2>5, <3>1 DEF Current, Newer, Landed
  <2>6. CASE /\ run'[p].pc = "import" /\ run'[p].resume = None /\ run'[p].dir = made'
             /\ made' \in Dir /\ made' = made + 1 /\ checkpoint' = checkpoint
             /\ DOMAIN dirs' = DOMAIN dirs \union {made'}
             /\ \A d \in DOMAIN dirs \ {made'} : dirs'[d] = dirs[d]
             /\ \A f \in File : dirs'[made'][f] \in {0, run[p].prep[f]}
    <3>1. Newer(made)'
      BY <2>1, <2>4, <2>6 DEF Newer
    <3>2. CurrentFor(p)'
      BY <1>6, <2>1, <2>4, <2>6, <3>1, StageTyped DEF CurrentFor
    <3>3. Newer(checkpoint)'
      BY <1>2, <2>1, <2>6, <3>1 DEF Current, Newer
    <3>4. Notes \in DOMAIN dirs' => dirs'[Notes] = NoFile
      BY <1>2, <2>6, GbrainAssumption DEF Current
    <3> QED
      BY <1>2, <2>1, <2>3, <3>2, <3>3, <3>4 DEF Current, Landed
  <2> QED
    BY <1>6, <2>5, <2>6, StageTyped
<1>7. ASSUME NEW p \in Proc, Checkpoint(p) \/ ImportEnds(p) \/ ImportFails(p) \/ Terminated(p)
      PROVE  (Alone /\ Current /\ Landed)'
  <2>1. UNCHANGED <<sessions, excused>> /\ run[p].pc = "import"
    BY <1>7, ImportTyped
  <2>2. Alone' /\ \A q \in Proc \ {p} : CurrentFor(q)'
    BY <1>2, <1>7, <2>1, ImportTyped, LoneStep DEF Working
  <2>3. /\ run[p].copy = sessions /\ Newer(run[p].dir)
        /\ \A f \in File : run[p].prep[f] = 0 \/ run[p].prep[f] >= sessions[f]
    BY <1>2, <2>1 DEF Current, CurrentFor
  <2>4. DOMAIN dirs' \subseteq DOMAIN dirs /\ \A d \in DOMAIN dirs' : dirs'[d] = dirs[d]
    BY <1>7, ImportTyped
  <2>5. \A d : Newer(d) => (d \in DOMAIN dirs' => \A f \in File \ excused :
                                                     dirs'[d][f] = 0 \/ dirs'[d][f] >= sessions[f])
    BY <2>4 DEF Newer
  <2>6. Newer(checkpoint)'
    <3>1. checkpoint' \in {checkpoint, run[p].dir, None}
      BY <1>7, ImportTyped
    <3> QED
      BY <1>2, <1>n, <2>1, <2>3, <2>4, <2>5, <3>1 DEF Newer, Current
  <2>7. Landed'
    <3>1. PICK landed \in SUBSET Staged(p) : imported' = After(p, landed) \/ imported' = imported
      BY <1>7, ImportTyped
    <3> QED
      BY <1>2, <2>1, <2>3, <3>1, AfterTyped DEF Landed, Newer
  <2>8. CurrentFor(p)'
    <3>1. CASE run'[p] = run[p] /\ Checkpoint(p)
      BY <2>1, <2>3, <2>5, <3>1 DEF CurrentFor, Newer
    <3>2. CASE run'[p].pc = "release"
      BY <3>2, IdleCurrent
    <3>3. CASE /\ run'[p].pc = "record" /\ checkpoint' = None /\ UNCHANGED dirs
               /\ run'[p].dir = run[p].dir /\ run'[p].resume = run[p].resume
               /\ \E failed \in SUBSET Staged(p) :
                     /\ imported' = After(p, Staged(p) \ failed)
                     /\ failed \subseteq run'[p].failed \union run'[p].unseen
      <4>1. PICK failed \in SUBSET Staged(p) :
               /\ imported' = After(p, Staged(p) \ failed)
               /\ failed \subseteq run'[p].failed \union run'[p].unseen
        BY <3>3
      <4>2. Staged(p)' = Staged(p)
        BY <3>3 DEF Staged
      <4>3. \A f \in Staged(p) \ failed : imported'[f] = dirs[run[p].dir][f]
        BY <4>1, AfterTyped
      <4>4. \A f \in Staged(p) : dirs[run[p].dir][f] \in 0..MaxVersion
        BY DEF Staged, TInv, TypeOK
      <4>5. \A f \in Staged(p) \ (run'[p].failed \union run'[p].unseen) :
               imported'[f] >= dirs[run[p].dir][f]
        <5>1. SUFFICES ASSUME NEW f \in Staged(p), f \notin run'[p].failed \union run'[p].unseen
                       PROVE  imported'[f] >= dirs[run[p].dir][f]
          OBVIOUS
        <5>2. imported'[f] = dirs[run[p].dir][f]
          BY <4>1, <4>3, <5>1
        <5>3. dirs[run[p].dir][f] \in 0..MaxVersion
          BY <4>4
        <5> QED
          BY <5>2, <5>3, GbrainAssumption
      <4>6. run'[p].copy = run[p].copy /\ run'[p].prep = run[p].prep
        BY <1>7, ImportTyped
      <4> QED
        BY <2>1, <2>3, <3>3, <4>2, <4>5, <4>6 DEF CurrentFor
    <3> QED
      BY <1>7, <3>1, <3>2, <3>3, ImportTyped
  <2> QED
    BY <1>2, <2>2, <2>4, <2>6, <2>7, <2>8 DEF Current
<1>8. ASSUME NEW p \in Proc, Record(p) PROVE (Alone /\ Current /\ Landed)'
  <2>1. run[p].pc = "record" /\ Working(p)
    BY <1>8, RecordTyped DEF Working
  <2>2. Alone' /\ \A q \in Proc \ {p} : CurrentFor(q)'
    BY <1>2, <1>8, <2>1, RecordTyped, LoneStep
  <2>3. CurrentFor(p)'
    BY <1>8, RecordTyped, IdleCurrent
  <2>4. DOMAIN dirs' \subseteq DOMAIN dirs /\ \A d \in DOMAIN dirs' : dirs'[d] = dirs[d]
    BY <1>8, RecordTyped
  <2>5. Newer(checkpoint)'
    <3>1. checkpoint' \in {None, Notes}
      BY <1>2, <1>8, <2>1, RecordTyped DEF Current, CurrentFor
    <3>2. \A f \in File : NoFile[f] = 0
      BY DEF NoFile
    <3> QED
      BY <1>2, <1>n, <2>4, <3>1, <3>2 DEF Current, Newer
  <2>6. Landed'
    <3>1. SUFFICES ASSUME NEW f \in File, f \notin excused' PROVE imported'[f] >= sessions'[f]
      BY DEF Landed
    <3>2. /\ imported' = imported /\ files' = files
          /\ sessions'[f] = IF f \in Recordable(p) THEN files[f] ELSE run[p].copy[f]
      BY <1>8, RecordTyped
    <3>3. /\ imported[f] \in Nat /\ sessions'[f] \in Nat /\ files[f] \in Nat \ {0}
      BY <1>8, RecordTyped, GbrainAssumption DEF TInv, TypeOK
    <3>4. CASE ~(imported[f] < sessions'[f])
      BY <3>2, <3>3, <3>4
    <3>5. CASE imported[f] < sessions'[f]
      <4>1. /\ f \notin excused
            /\ f \in Recordable(p) => f \notin run[p].unseen /\ StagedNow(p, f)
        BY <1>8, <3>1, <3>5 DEF Record
      <4>2. CASE f \notin Recordable(p)
        <5>1. sessions'[f] = sessions[f]
          BY <1>2, <2>1, <3>2, <4>2 DEF Current, CurrentFor
        <5> QED
          BY <1>2, <3>2, <4>1, <5>1 DEF Landed
      <4>3. CASE f \in Recordable(p)
        <5>1. f \notin run[p].unseen /\ run[p].dir \in DOMAIN dirs /\ dirs[run[p].dir][f] = files[f]
          BY <4>1, <4>3 DEF StagedNow
        <5>2. f \in Staged(p) \ (run[p].failed \union run[p].unseen)
          BY <3>3, <4>3, <5>1 DEF Staged, Recordable
        <5>3. imported[f] >= files[f]
          BY <1>2, <2>1, <5>1, <5>2 DEF Current, CurrentFor
        <5> QED
          BY <3>2, <4>3, <5>3
      <4> QED
        BY <4>2, <4>3
    <3> QED
      BY <3>4, <3>5
  <2> QED
    BY <1>2, <2>2, <2>3, <2>4, <2>5, <2>6 DEF Current
<1>9. ASSUME (\E p \in Proc : Killed(p)) \/ (\E f \in File : Edit(f)) \/ LockAges
             \/ UserImportStops \/ SourceEmptied
      PROVE  (Alone /\ Current /\ Landed)'
  <2>1. /\ \A q \in Proc : run'[q] = run[q] \/ run'[q] = Off
        /\ checkpoint' = checkpoint \/ (checkpoint' = Notes /\ Notes \in DOMAIN dirs)
        /\ UNCHANGED <<sessions, imported, dirs, overlapped, excused>>
    BY <1>9, AroundTyped
  <2>2. Alone'
    BY <1>2, <2>1, InitialsTyped DEF Alone, Working
  <2>3. \A q \in Proc : CurrentFor(q)'
    BY <1>2, <2>1, StayCurrent DEF Current
  <2>4. Newer(checkpoint)'
    <3>1. \A f \in File : NoFile[f] = 0
      BY DEF NoFile
    <3> QED
      BY <1>2, <2>1, <3>1 DEF Current, Newer
  <2> QED
    BY <1>2, <2>1, <2>2, <2>3, <2>4 DEF Current, Landed
<1>10. CASE UNCHANGED vars
  <2>1. \A q \in Proc : CurrentFor(q)'
    BY <1>2, <1>10, StayCurrent DEF Current, vars
  <2> QED
    BY <1>2, <1>10, <2>1 DEF Alone, Working, Current, Newer, Landed, vars
<1> QED
  BY <1>3, <1>4, <1>5, <1>6, <1>7, <1>8, <1>9, <1>10 DEF Next, Step

\* What is recorded as ingested is in gbrain, unless runs have overlapped, a run recorded what
\* gbrain failed on without knowing, or recorded a version that was not staged (ingestPass,
\* decideResume, readNewFailures, saveState): the property RecordedLanded.
THEOREM RecordsTrue == Spec => []RecordedLanded
<1>1. Init => LInv
  <2> SUFFICES ASSUME Init PROVE Alone /\ Current /\ Landed
    BY DEF LInv
  <2>1. \A p \in Proc : run[p].pc = "off"
    BY InitialsTyped DEF Init
  <2>2. /\ DOMAIN dirs = {Notes} /\ dirs[Notes] = NoFile /\ checkpoint = None
        /\ \A f \in File : imported[f] = 0 /\ sessions[f] = 0
    BY DEF Init, NoFile
  <2> QED
    BY <2>1, <2>2, GbrainAssumption DEF Alone, Working, Current, CurrentFor, Newer, Landed
<1>2. TInv /\ LInv /\ [Next]_vars => LInv'
  BY LandedStep DEF LInv
<1>3. LInv => RecordedLanded
  BY DEF LInv, Landed, RecordedLanded
<1> QED
  BY <1>1, <1>2, <1>3, InitTInv, TypeStep, PTL DEF Spec
=============================================================================
