---------------------------- MODULE InstallProofs ----------------------------
(***************************************************************************)
(* Theorems about Install, for every registry, catalog, set of targets and *)
(* bound.  It is type correct, and `aipkg install` is reproducible, for    *)
(* any number of processes.  While one command runs at a time, the         *)
(* statusLine is its owner's, what is locked at the top level is declared, *)
(* and an install leaves all it was asked for pinned, placed and mirrored. *)
(***************************************************************************)
EXTENDS Install, FiniteSetTheorems, SequenceTheorems, TLAPS

USE LockfileAssumption

(***************************************************************************)
(* What the operators on lockfiles return.                                 *)
(***************************************************************************)

\* The parts of a decoded archive.
LEMMA DecodedType ==
    ASSUME NEW a \in Archive
    PROVE  /\ Content[a].pkg \in Pkg
           /\ Content[a].ver \in Ver
           /\ Content[a].assets \in Seq(Slot)
           /\ Content[a].deps \in Seq(Ref)
           /\ Content[a].line \in Line \union {None}
           /\ OwnSlot(a) \in Slot
           /\ RefOf(a) \in Ref
           /\ AssetSet(a) \subseteq Slot
           /\ Children(a) \subseteq Slot
  <1>1. Content[a] \in Decoded
    OBVIOUS
  <1>2. /\ Content[a].pkg \in Pkg
        /\ Content[a].ver \in Ver
        /\ Content[a].assets \in Seq(Slot)
        /\ Content[a].deps \in Seq(Ref)
        /\ Content[a].line \in Line \union {None}
    BY <1>1 DEF Decoded
  <1>3. OwnSlot(a) \in Slot /\ RefOf(a) \in Ref
    BY <1>2 DEF OwnSlot, RefOf, Ref
  <1>4. AssetSet(a) \subseteq Slot
    BY <1>2 DEF AssetSet
  <1> QED
    BY <1>2, <1>3, <1>4 DEF Children

\* An entry of a lockfile is a pin.
LEMMA PinType ==
    ASSUME NEW L \in Locks, NEW s \in Slot, L.pins[s] # None
    PROVE  L.pins[s].arc \in Archive /\ L.pins[s].parent \in Ref \union {None}
  BY DEF Locks, Pin

\* A resolved reference is a reference.
LEMMA ResolveType ==
    ASSUME NEW L \in Locks, NEW r \in Ref
    PROVE  ResolvePkgRef(L, r) \in Ref
  <1>1. SlotOf[r.pkg] \in Slot
    BY DEF Ref
  <1> QED
    BY <1>1, PinType, DecodedType DEF ResolvePkgRef, GetEntry

\* Dropping a stale pin, recording an archive, claiming the statusLine and
\* clearing slots turn lockfiles into lockfiles.
LEMMA LocksType ==
    ASSUME NEW L \in Locks
    PROVE  /\ \A r \in Ref : DropStalePin(L, r) \in Locks
           /\ \A a \in Archive, parent \in Ref \union {None} :
                 Recorded(L, a, parent) \in Locks
           /\ \A a \in Archive, line \in Line :
                 UpsertStatusLine(L, KeyOf[OwnSlot(a)], line) \in Locks
           /\ \A S \in SUBSET Slot : Cleared(L, S) \in Locks
  <1>0. L \in [pins  : [Slot -> Pin \union {None}], claim : Claim \union {None}]
    BY DEF Locks
  <1>1. ASSUME NEW r \in Ref
        PROVE  DropStalePin(L, r) \in Locks
    BY <1>0 DEF DropStalePin, RemoveEntry, Locks
  <1>2. ASSUME NEW a \in Archive, NEW parent \in Ref \union {None}
        PROVE  Recorded(L, a, parent) \in Locks
    <2> DEFINE bundled == [L EXCEPT !.pins =
                      [s \in Slot |-> IF s \in Children(a)
                                      THEN UpsertEntry(L, s, a, RefOf(a)).pins[s]
                                      ELSE L.pins[s]]]
    <2>1. ASSUME NEW M \in Locks, NEW s \in Slot, NEW r \in Ref \union {None}
          PROVE  UpsertEntry(M, s, a, r) \in Locks
      <3>1. [arc |-> a, parent |-> r] \in Pin
        BY DEF Pin
      <3> QED
        BY <3>1 DEF UpsertEntry, Locks
    <2>2. ASSUME NEW s \in Slot
          PROVE  UpsertEntry(L, s, a, RefOf(a)).pins[s] \in Pin \union {None}
      BY <2>1, DecodedType DEF Locks
    <2>3. bundled \in Locks
      BY <1>0, <2>2 DEF Locks
    <2> HIDE DEF bundled
    <2>4. UpsertEntry(bundled, OwnSlot(a), a, parent) \in Locks
      BY <2>1, <2>3, DecodedType
    <2> QED
      BY <2>4 DEF Recorded, bundled
  <1>3. ASSUME NEW a \in Archive, NEW line \in Line
        PROVE  UpsertStatusLine(L, KeyOf[OwnSlot(a)], line) \in Locks
    <2>1. KeyOf[OwnSlot(a)] \in Key
      BY DecodedType
    <2> QED
      BY <1>0, <2>1 DEF UpsertStatusLine, Locks, Claim
  <1>4. ASSUME NEW S \in SUBSET Slot
        PROVE  Cleared(L, S) \in Locks
    BY <1>0 DEF Cleared, Locks
  <1> QED
    BY <1>1, <1>2, <1>3, <1>4

\* A function on an initial segment is a sequence.
LEMMA SegmentIsSeq ==
    ASSUME NEW S, NEW n \in Nat, NEW f \in [1 .. n -> S]
    PROVE  f \in Seq(S) /\ Len(f) = n /\ DOMAIN f = 1 .. n
  OBVIOUS

\* Taking the first element off a sequence.
LEMMA HeadTail ==
    ASSUME NEW S, NEW q \in Seq(S), q # <<>>
    PROVE  /\ Head(q) \in S /\ Tail(q) \in Seq(S)
           /\ Len(q) # 1 => Tail(q) # <<>>
  <1>1. /\ Head(q) \in S /\ Tail(q) \in Seq(S)
        /\ Len(Tail(q)) = Len(q) - 1 /\ Len(q) \in Nat /\ Len(q) # 0
    BY HeadTailProperties, EmptySeq
  <1>2. ASSUME Len(q) # 1
        PROVE  Tail(q) # <<>>
    <2>1. Len(Tail(q)) # 0
      BY <1>1, <1>2
    <2> QED
      BY <1>1, <2>1, EmptySeq
  <1> QED
    BY <1>1, <1>2

\* Of the dependencies put before the rest of an agenda, what is not resolved
\* late was on the agenda before.
LEMMA LateThenTail ==
    ASSUME NEW d \in Seq(Item), NEW q \in Seq(Item), q # <<>>,
           \A i \in DOMAIN d : d[i].late
    PROVE  \A i \in DOMAIN (d \o Tail(q)) : ~(d \o Tail(q))[i].late =>
              \E j \in DOMAIN q : (d \o Tail(q))[i] = q[j]
  <1> DEFINE t == Tail(q)
  <1>1. /\ t \in Seq(Item) /\ Len(t) = Len(q) - 1
        /\ \A j \in 1 .. Len(t) : t[j] = q[j + 1]
    BY HeadTailProperties
  <1>2. /\ Len(d) \in Nat /\ DOMAIN d = 1 .. Len(d)
        /\ Len(q) \in Nat /\ DOMAIN q = 1 .. Len(q)
        /\ Len(t) \in Nat
    BY <1>1, LenProperties
  <1> HIDE DEF t
  <1>3. /\ d \o t \in Seq(Item) /\ Len(d \o t) = Len(d) + Len(t)
        /\ \A j \in 1 .. Len(d) + Len(t) :
              (d \o t)[j] = IF j <= Len(d) THEN d[j] ELSE t[j - Len(d)]
    <2>1. t \in Seq(Item)
      BY <1>1
    <2> QED
      BY <2>1, ConcatProperties, Zenon
  <1>4. SUFFICES ASSUME NEW i \in DOMAIN (d \o t), ~(d \o t)[i].late
                 PROVE  \E j \in DOMAIN q : (d \o t)[i] = q[j]
    BY DEF t
  <1>5. i \in 1 .. Len(d) + Len(t)
    BY <1>3, LenProperties
  <1>6. ~(i <= Len(d))
    BY <1>2, <1>3, <1>4, <1>5
  <1>7. i - Len(d) \in 1 .. Len(t) /\ i - Len(d) + 1 \in 1 .. Len(q)
    BY <1>1, <1>2, <1>5, <1>6
  <1>8. (d \o t)[i] = q[i - Len(d) + 1]
    BY <1>1, <1>3, <1>5, <1>6, <1>7
  <1> QED
    BY <1>2, <1>7, <1>8

\* Lining up a set of slots gives a sequence of slots.
LEMMA OrdersType ==
    ASSUME NEW S \in SUBSET Slot, NEW q \in Orders(S)
    PROVE  /\ q \in Seq(Slot)
           /\ S # {} => q # <<>>
           /\ \A i \in DOMAIN q : q[i] \in S
  <1>1. IsFiniteSet(S) /\ Cardinality(S) \in Nat /\ (Cardinality(S) = 0 <=> S = {})
    BY FS_Subset, FS_CardinalityType, FS_EmptySet
  <1>2. q \in [1 .. Cardinality(S) -> S]
    BY DEF Orders
  <1>3. q \in Seq(Slot) /\ Len(q) = Cardinality(S)
    BY <1>1, <1>2
  <1> QED
    BY <1>1, <1>2, <1>3

\* The dependencies of an archive are packages to hydrate, each through the
\* lockfile.
LEMMA DepItemsType ==
    ASSUME NEW a \in Archive
    PROVE  /\ DepItems(a) \in Seq(Item)
           /\ \A i \in DOMAIN DepItems(a) : DepItems(a)[i].late
  <1>1. Content[a].deps \in Seq(Ref) /\ RefOf(a) \in Ref
    BY DecodedType
  <1>2. PICK n \in Nat : Content[a].deps \in [1 .. n -> Ref]
    BY <1>1
  <1>3. DOMAIN Content[a].deps = 1 .. n
    BY <1>2
  <1>4. ASSUME NEW i \in 1 .. n
        PROVE  [ref |-> Content[a].deps[i], parent |-> RefOf(a), late |-> TRUE] \in Item
    BY <1>1, <1>2 DEF Item
  <1>5. DepItems(a) \in [1 .. n -> Item]
    BY <1>3, <1>4 DEF DepItems
  <1>6. \A i \in DOMAIN DepItems(a) : DepItems(a)[i].late
    BY DEF DepItems
  <1> QED
    BY <1>5, <1>6, SegmentIsSeq

(***************************************************************************)
(* Type correctness.                                                       *)
(***************************************************************************)

\* A step of p leaves the memory of the other commands alone.
OthersKept(p) ==
    \A q \in Proc \ {p} :
        /\ pc'[q] = pc[q] /\ cmd'[q] = cmd[q] /\ tgts'[q] = tgts[q]
        /\ lock'[q] = lock[q] /\ base'[q] = base[q]
        /\ agenda'[q] = agenda[q] /\ cur'[q] = cur[q]
        /\ todo'[q] = todo[q] /\ left'[q] = left[q]

\* So only its own shape has to be looked at.
LEMMA ShapeOfOthers ==
    ASSUME NEW p \in Proc, TypeInv, CommandType', Shape(p)', OthersKept(p)
    PROVE  \A q \in Proc : Shape(q)'
  BY DEF Shape, InHydrate, TypeInv, OthersKept

\* A command ends with nothing in its memory.
LEMMA ForgetTypes ==
    ASSUME TypeInv, NEW p \in Proc, Forget(p)
    PROVE  CommandType' /\ \A q \in Proc : Shape(q)'
  <1>1. NoDeps \in Manifests /\ EmptyLock \in Locks
    BY DEF NoDeps, Manifests, EmptyLock, Locks
  <1>2. CommandType'
    BY <1>1 DEF Forget, TypeInv, TypeOK, CommandType
  <1>3. Shape(p)'
    BY DEF Forget, TypeInv, TypeOK, CommandType, Shape, InHydrate
  <1>4. OthersKept(p)
    BY DEF Forget, TypeInv, TypeOK, CommandType, OthersKept
  <1> QED
    BY <1>2, <1>3, <1>4, ShapeOfOthers

\* What a command holds while it hydrates, and the reference it asks for.
LEMMA HydrateTypes ==
    ASSUME TypeInv, NEW p \in Proc, InHydrate(p)
    PROVE  /\ cmd[p] \in Command /\ cmd[p].op # "remove"
           /\ lock[p] \in Locks
           /\ agenda[p] \in Seq(Item) /\ agenda[p] # <<>>
           /\ Head(agenda[p]) \in Item /\ Tail(agenda[p]) \in Seq(Item)
           /\ Wanted(p) \in Ref
  <1>1. /\ cmd[p] \in Command /\ cmd[p].op # "remove"
        /\ agenda[p] \in Seq(Item) /\ agenda[p] # <<>>
        /\ lock[p] \in Locks
    BY DEF TypeInv, TypeOK, CommandType, Shape, InHydrate
  <1>2. Head(agenda[p]) \in Item /\ Tail(agenda[p]) \in Seq(Item)
    BY <1>1
  <1>3. Wanted(p) \in Ref
    BY <1>1, <1>2, ResolveType DEF Wanted, Item
  <1> QED
    BY <1>1, <1>2, <1>3

\* The parts of a step of p make up the type invariant after it.
LEMMA StepTypes ==
    ASSUME TypeInv, NEW p \in Proc,
           DiskType', WorldType', CommandType', Shape(p)', OthersKept(p)
    PROVE  TypeInv'
  BY ShapeOfOthers DEF TypeInv, TypeOK

\* Starting a command and reading its files.
LEMMA StartTypes ==
    ASSUME TypeInv, NEW p \in Proc,
           \/ Start(p) \/ ReadLock(p) \/ ReadManifest(p)
           \/ SeedLock(p) \/ SeedManifest(p)
    PROVE  TypeInv'
  <1> USE DEF disk, world, copies, work, Goto, Steps, AfterLock, AfterManifest
  <1>i. DiskType /\ WorldType /\ CommandType /\ Shape(p)
    BY DEF TypeInv, TypeOK
  <1>1. CASE Start(p)
    <2>0. PICK c \in Command :
             /\ started' = started + 1
             /\ Goto(p, "idle", FirstRead(c.op))
             /\ cmd' = [cmd EXCEPT ![p] = c]
             /\ tgts' = [tgts EXCEPT ![p] = config]
             /\ UNCHANGED <<disk, world, man, lock, base, work>>
      BY <1>1 DEF Start
    <2>1. config \in Seq(Target) /\ config # <<>>
      BY <1>i, InstallAssumption DEF WorldType
    <2>2. FirstRead(c.op) \in {"readLock", "readManifest"}
      BY DEF FirstRead
    <2>3. DiskType' /\ WorldType'
      BY <2>0, <1>i DEF DiskType, WorldType
    <2>4. CommandType'
      BY <2>0, <2>1, <2>2, <1>i DEF CommandType
    <2>5. Shape(p)'
      BY <2>0, <2>1, <2>2, <1>i DEF CommandType, Shape, InHydrate
    <2>6. OthersKept(p)
      BY <2>0, <1>i DEF CommandType, OthersKept
    <2> QED
      BY <2>3, <2>4, <2>5, <2>6, StepTypes
  <1>2. CASE ReadLock(p)
    <2>1. DiskType' /\ WorldType'
      BY <1>2, <1>i DEF ReadLock, DiskType, WorldType
    <2>2. CommandType'
      BY <1>2, <1>i DEF ReadLock, DiskType, CommandType
    <2>3. Shape(p)' /\ OthersKept(p)
      BY <1>2, <1>i DEF ReadLock, CommandType, Shape, InHydrate, OthersKept
    <2> QED
      BY <2>1, <2>2, <2>3, StepTypes
  <1>3. CASE ReadManifest(p)
    <2>1. DiskType' /\ WorldType'
      BY <1>3, <1>i DEF ReadManifest, DiskType, WorldType
    <2>2. CommandType'
      BY <1>3, <1>i DEF ReadManifest, DiskType, CommandType
    <2>3. Shape(p)' /\ OthersKept(p)
      BY <1>3, <1>i DEF ReadManifest, CommandType, Shape, InHydrate, OthersKept
    <2> QED
      BY <2>1, <2>2, <2>3, StepTypes
  <1>4. CASE SeedLock(p) \/ SeedManifest(p)
    <2>1. NoDeps \in Manifests /\ EmptyLock \in Locks
      BY DEF NoDeps, Manifests, EmptyLock, Locks
    <2>2. DiskType' /\ WorldType'
      BY <1>4, <2>1, <1>i DEF SeedLock, SeedManifest, DiskType, WorldType
    <2>3. CommandType'
      BY <1>4, <1>i DEF SeedLock, SeedManifest, CommandType
    <2>4. Shape(p)' /\ OthersKept(p)
      BY <1>4, <1>i DEF SeedLock, SeedManifest, CommandType, Shape, InHydrate, OthersKept
    <2> QED
      BY <2>2, <2>3, <2>4, StepTypes
  <1> QED
    BY <1>1, <1>2, <1>3, <1>4

\* Planning an install.
LEMMA PlanTypes ==
    ASSUME TypeInv, NEW p \in Proc,
           PlanInstall(p) \/ PlanInstallAll(p) \/ PlanNothing(p)
    PROVE  TypeInv'
  <1> USE DEF disk, world, copies, work, Goto, Steps
  <1>i. DiskType /\ WorldType /\ CommandType /\ Shape(p)
    BY DEF TypeInv, TypeOK
  <1>1. CASE PlanInstall(p)
    <2>1. cmd[p].ref \in Ref
      BY <1>1, <1>i, InstallAssumption DEF PlanInstall, CommandType, Shape, Command
    <2>2. [ref |-> cmd[p].ref, parent |-> None, late |-> FALSE] \in Item
      BY <2>1 DEF Item
    <2>3. DiskType' /\ WorldType'
      BY <1>1, <1>i DEF PlanInstall, DiskType, WorldType
    <2>4. CommandType'
      BY <1>1, <1>i, <2>2 DEF PlanInstall, CommandType
    <2>5. Shape(p)' /\ OthersKept(p)
      BY <1>1, <1>i DEF PlanInstall, CommandType, Shape, InHydrate, OthersKept
    <2> QED
      BY <2>3, <2>4, <2>5, StepTypes
  <1>2. CASE PlanInstallAll(p)
    <2> DEFINE deps == {s \in Slot : man[p][s] # None}
               tasks(q) == [i \in DOMAIN q |->
                             [ref    |-> ResolvePkgRef(lock[p], man[p][q[i]]),
                              parent |-> None,
                              late   |-> FALSE]]
    <2>0. PICK q \in Orders(deps) : agenda' = [agenda EXCEPT ![p] = tasks(q)]
      BY <1>2 DEF PlanInstallAll
    <2>1. q \in Seq(Slot) /\ q # <<>> /\ \A i \in DOMAIN q : q[i] \in deps
      BY <1>2, OrdersType DEF PlanInstallAll
    <2>2. ASSUME NEW i \in DOMAIN q
          PROVE  tasks(q)[i] \in Item
      <3>1. man[p][q[i]] \in Ref
        BY <2>1, <1>i DEF CommandType, Manifests
      <3>2. ResolvePkgRef(lock[p], man[p][q[i]]) \in Ref
        BY <3>1, <1>i, ResolveType DEF CommandType
      <3> QED
        BY <3>2 DEF Item
    <2>3. tasks(q) \in Seq(Item) /\ tasks(q) # <<>>
      <3>1. PICK n \in Nat : DOMAIN q = 1 .. n /\ n # 0
        BY <2>1
      <3>2. tasks(q) \in [1 .. n -> Item]
        BY <3>1, <2>2
      <3> HIDE DEF tasks
      <3> QED
        BY <3>1, <3>2, SegmentIsSeq
    <2> HIDE DEF tasks
    <2>4. DiskType' /\ WorldType'
      BY <1>2, <1>i DEF PlanInstallAll, DiskType, WorldType
    <2>5. CommandType'
      BY <1>2, <1>i, <2>0, <2>3 DEF PlanInstallAll, CommandType
    <2>6. Shape(p)' /\ OthersKept(p)
      BY <1>2, <1>i, <2>0, <2>3
         DEF PlanInstallAll, CommandType, Shape, InHydrate, OthersKept
    <2> QED
      BY <2>4, <2>5, <2>6, StepTypes
  <1>3. CASE PlanNothing(p)
    <2>1. DiskType' /\ WorldType'
      BY <1>3, <1>i DEF PlanNothing, DiskType, WorldType
    <2> QED
      BY <1>3, <2>1, ForgetTypes DEF PlanNothing, TypeInv, TypeOK
  <1> QED
    BY <1>1, <1>2, <1>3

\* Fetching an archive.
LEMMA FetchTypes ==
    ASSUME TypeInv, NEW p \in Proc, Fetch(p) \/ FetchFails(p)
    PROVE  TypeInv'
  <1> USE DEF disk, world, copies, work, Goto
  <1>i. DiskType /\ WorldType /\ CommandType /\ Shape(p)
    BY DEF TypeInv, TypeOK
  <1>1. CASE Fetch(p)
    <2>1. PICK a \in Archive : cur' = [cur EXCEPT ![p] = a]
      BY <1>1 DEF Fetch
    <2>2. DropStalePin(lock[p], Wanted(p)) \in Locks
      BY <1>1, HydrateTypes, LocksType DEF Fetch, InHydrate
    <2>3. DiskType' /\ WorldType'
      BY <1>1, <1>i DEF Fetch, DiskType, WorldType
    <2>4. CommandType'
      BY <1>1, <1>i, <2>1, <2>2 DEF Fetch, CommandType, Steps
    <2>5. Shape(p)' /\ OthersKept(p)
      BY <1>1, <1>i, <2>1 DEF Fetch, CommandType, Shape, InHydrate, OthersKept
    <2> QED
      BY <2>3, <2>4, <2>5, StepTypes
  <1>2. CASE FetchFails(p)
    <2>1. DiskType' /\ WorldType'
      BY <1>2, <1>i DEF FetchFails, DiskType, WorldType
    <2>2. CommandType'
      BY <1>2, <1>i DEF FetchFails, CommandType, Failures
    <2>3. Shape(p)' /\ OthersKept(p)
      BY <1>2, <1>i DEF FetchFails, CommandType, Shape, InHydrate, OthersKept
    <2> QED
      BY <2>1, <2>2, <2>3, StepTypes
  <1> QED
    BY <1>1, <1>2

\* Mirroring an archive and claiming the statusLine.
LEMMA MirrorTypes ==
    ASSUME TypeInv, NEW p \in Proc, MirrorAndClaim(p) \/ ClaimFails(p)
    PROVE  TypeInv'
  <1> USE DEF disk, world, copies, work, Goto
  <1>i. DiskType /\ WorldType /\ CommandType /\ Shape(p)
    BY DEF TypeInv, TypeOK
  <1> DEFINE a == cur[p]
  <1>a. a \in Archive /\ pc[p] = "mirror" /\ Mirror(a)
    BY <1>i DEF MirrorAndClaim, ClaimFails, Shape
  <1>b. /\ Content[a].assets \in Seq(Slot)
        /\ Content[a].line \in Line \union {None}
        /\ Content[a].pkg \in Pkg
    BY <1>a, DecodedType
  <1>c. mirrored' \in [Pkg -> Archive \union {None}]
    BY <1>a, <1>b, <1>i DEF Mirror, DiskType
  <1>1. CASE MirrorAndClaim(p)
    <2>1. ASSUME Content[a].line # None
          PROVE  UpsertStatusLine(lock[p], KeyOf[OwnSlot(a)], Content[a].line) \in Locks
      BY <2>1, <1>a, <1>b, <1>i, LocksType DEF CommandType
    <2>2. lock' \in [Proc -> Locks]
      BY <1>1, <1>i, <2>1 DEF MirrorAndClaim, CommandType
    <2>3. DiskType' /\ WorldType'
      BY <1>1, <1>i, <1>c DEF MirrorAndClaim, DiskType, WorldType
    <2>4. CommandType'
      BY <1>1, <1>i, <1>b, <2>2 DEF MirrorAndClaim, CommandType, Steps
    <2>5. Shape(p)' /\ OthersKept(p)
      BY <1>1, <1>i, <1>a, <1>b
         DEF MirrorAndClaim, CommandType, Shape, InHydrate, OthersKept
    <2> QED
      BY <2>3, <2>4, <2>5, StepTypes
  <1>2. CASE ClaimFails(p)
    <2>1. DiskType' /\ WorldType'
      BY <1>2, <1>i, <1>c DEF ClaimFails, DiskType, WorldType
    <2>2. CommandType'
      BY <1>2, <1>i DEF ClaimFails, CommandType, Failures
    <2>3. Shape(p)' /\ OthersKept(p)
      BY <1>2, <1>i DEF ClaimFails, CommandType, Shape, InHydrate, OthersKept
    <2> QED
      BY <2>1, <2>2, <2>3, StepTypes
  <1> QED
    BY <1>1, <1>2

\* Placing one asset.
LEMMA PlaceTypes ==
    ASSUME TypeInv, NEW p \in Proc, PlaceAsset(p)
    PROVE  TypeInv'
  <1> USE DEF disk, world, copies, work, Goto
  <1>i. DiskType /\ WorldType /\ CommandType /\ Shape(p)
    BY DEF TypeInv, TypeOK
  <1> DEFINE a == cur[p]
             t == Head(todo[p])
             s == Head(left[p])
             lastOfTarget == Len(left[p]) = 1
  <1>1. /\ a \in Archive
        /\ Content[a].assets \in Seq(Slot) /\ Content[a].assets # <<>>
        /\ Content[a].line \in Line \union {None}
        /\ todo[p] \in Seq(Target) /\ todo[p] # <<>>
        /\ left[p] \in Seq(Slot) /\ left[p] # <<>>
    BY <1>i, DecodedType DEF PlaceAsset, Shape, CommandType
  <1>2. /\ t \in Target /\ Tail(todo[p]) \in Seq(Target)
        /\ s \in Slot /\ Tail(left[p]) \in Seq(Slot)
        /\ Len(todo[p]) # 1 => Tail(todo[p]) # <<>>
        /\ ~lastOfTarget => Tail(left[p]) # <<>>
    BY <1>1, HeadTail
  <1>3. placed' \in [Target -> [Slot -> Archive \union {None}]]
    BY <1>i, <1>1, <1>2 DEF PlaceAsset, DiskType
  <1>4. settings' \in [Target -> Claim \union {None}]
    <2>1. ASSUME Content[a].line # None
          PROVE  [key |-> KeyOf[s], line |-> Content[a].line] \in Claim
      BY <2>1, <1>1, <1>2 DEF Claim
    <2> QED
      BY <1>i, <1>2, <2>1 DEF PlaceAsset, DiskType
  <1>5. DiskType' /\ WorldType'
    BY <1>i, <1>3, <1>4 DEF PlaceAsset, DiskType, WorldType
  <1>6. CommandType'
    BY <1>i, <1>1, <1>2 DEF PlaceAsset, CommandType, Steps
  <1>7. Shape(p)' /\ OthersKept(p)
    BY <1>i, <1>1, <1>2 DEF PlaceAsset, CommandType, Shape, InHydrate, OthersKept
  <1> QED
    BY <1>5, <1>6, <1>7, StepTypes

\* Recording an archive and lining up its dependencies.
LEMMA RecordTypes ==
    ASSUME TypeInv, NEW p \in Proc, Record(p) \/ RecordFails(p)
    PROVE  TypeInv'
  <1> USE DEF disk, world, copies, work, Goto
  <1>i. DiskType /\ WorldType /\ CommandType /\ Shape(p)
    BY DEF TypeInv, TypeOK
  <1>1. CASE Record(p)
    <2> DEFINE a == cur[p]
               rest == DepItems(a) \o Tail(agenda[p])
    <2>1. a \in Archive /\ Head(agenda[p]) \in Item /\ Tail(agenda[p]) \in Seq(Item)
      BY <1>1, <1>i, HydrateTypes DEF Record, Shape, InHydrate
    <2>2. rest \in Seq(Item)
      <3>1. DepItems(a) \in Seq(Item)
        BY <2>1, DepItemsType
      <3> QED
        BY <3>1, <2>1
    <2>3. Recorded(lock[p], a, Head(agenda[p]).parent) \in Locks
      BY <1>i, <2>1, LocksType DEF CommandType, Item
    <2> HIDE DEF rest
    <2>r. /\ Goto(p, "record", IF rest = <<>> THEN "saveManifest" ELSE "fetch")
          /\ lock' = [lock EXCEPT ![p] = Recorded(@, a, Head(agenda[p]).parent)]
          /\ agenda' = [agenda EXCEPT ![p] = rest]
          /\ UNCHANGED <<disk, world, started, cmd, tgts, man, base, cur, todo, left>>
      BY <1>1 DEF Record, rest
    <2>4. DiskType' /\ WorldType'
      BY <2>r, <1>i DEF DiskType, WorldType
    <2>5. CommandType'
      BY <2>r, <1>i, <2>2, <2>3 DEF CommandType, Steps
    <2>6. Shape(p)' /\ OthersKept(p)
      BY <2>r, <1>i DEF CommandType, Shape, InHydrate, OthersKept
    <2> QED
      BY <2>4, <2>5, <2>6, StepTypes
  <1>2. CASE RecordFails(p)
    <2>1. DiskType' /\ WorldType'
      BY <1>2, <1>i DEF RecordFails, DiskType, WorldType
    <2>2. CommandType'
      BY <1>2, <1>i DEF RecordFails, CommandType, Failures
    <2>3. Shape(p)' /\ OthersKept(p)
      BY <1>2, <1>i DEF RecordFails, CommandType, Shape, InHydrate, OthersKept
    <2> QED
      BY <2>1, <2>2, <2>3, StepTypes
  <1> QED
    BY <1>1, <1>2

\* Removing: clearing the lock, the targets and the mirror.
LEMMA RemoveTypes ==
    ASSUME TypeInv, NEW p \in Proc, PlanRemove(p) \/ Unplace(p) \/ Unmirror(p)
    PROVE  TypeInv'
  <1> USE DEF disk, world, copies, work, Goto
  <1>i. DiskType /\ WorldType /\ CommandType /\ Shape(p)
    BY DEF TypeInv, TypeOK
  <1>c. /\ cmd[p] \in Command /\ cmd[p].op = "remove"
        /\ cmd[p].ref.pkg \in Pkg
        /\ RootSlot(p) \in Slot
    <2>1. cmd[p] \in Command /\ cmd[p].op = "remove"
      BY <1>i DEF PlanRemove, Unplace, Unmirror, Shape
    <2>2. cmd[p].ref.pkg \in Pkg
      BY <2>1, InstallAssumption DEF Command, Ref
    <2> QED
      BY <2>1, <2>2 DEF RootSlot
  <1>t. tgts[p] \in Seq(Target) /\ (pc[p] # "idle" => tgts[p] # <<>>)
    BY <1>i DEF CommandType, Shape
  <1>1. CASE PlanRemove(p)
    <2> DEFINE root == RootSlot(p)
               subtree == SubtreeOf(lock[p], root)
    <2>1. subtree \in SUBSET Slot
      BY DEF SubtreeOf, CollectSubtree, ChildrenOf
    <2> HIDE DEF subtree
    <2>r. /\ Goto(p, "plan", "unplace")
          /\ \E q \in Orders(subtree) : left' = [left EXCEPT ![p] = <<root>> \o q]
          /\ todo' = [todo EXCEPT ![p] = tgts[p]]
          /\ lock' = [lock EXCEPT ![p] = Cleared(@, subtree \union {root})]
          /\ UNCHANGED <<disk, world, started, cmd, tgts, man, base, agenda, cur>>
      BY <1>1 DEF PlanRemove, subtree
    <2>2. PICK q \in Orders(subtree) : left' = [left EXCEPT ![p] = <<root>> \o q]
      BY <2>r
    <2>3. <<root>> \o q \in Seq(Slot) /\ <<root>> \o q # <<>>
      <3>1. q \in Seq(Slot) /\ <<root>> \in Seq(Slot) /\ Len(<<root>>) = 1
        BY <1>c, <2>1, OrdersType
      <3> QED
        BY <3>1
    <2>4. Cleared(lock[p], subtree \union {root}) \in Locks
      BY <1>i, <1>c, <2>1, LocksType DEF CommandType
    <2>5. DiskType' /\ WorldType'
      BY <2>r, <1>i DEF DiskType, WorldType
    <2>6. CommandType'
      BY <2>r, <1>i, <1>t, <2>2, <2>3, <2>4 DEF CommandType, Steps
    <2>7. Shape(p)' /\ OthersKept(p)
      BY <2>r, <1>i, <1>c, <1>t, <2>2, <2>3
         DEF CommandType, Shape, InHydrate, OthersKept
    <2> QED
      BY <2>5, <2>6, <2>7, StepTypes
  <1>2. CASE Unplace(p)
    <2> DEFINE t == Head(todo[p])
               s == Head(left[p])
    <2>1. /\ todo[p] \in Seq(Target) /\ todo[p] # <<>>
          /\ left[p] \in Seq(Slot) /\ left[p] # <<>>
          /\ tgts[p] # <<>>
      BY <1>2, <1>i DEF Unplace, Shape, CommandType
    <2>2. /\ t \in Target /\ Tail(todo[p]) \in Seq(Target)
          /\ s \in Slot /\ Tail(left[p]) \in Seq(Slot)
          /\ Len(todo[p]) # 1 => Tail(todo[p]) # <<>>
          /\ Len(left[p]) # 1 => Tail(left[p]) # <<>>
      BY <2>1, HeadTail
    <2>3. DiskType' /\ WorldType'
      BY <1>2, <1>i, <2>2 DEF Unplace, DiskType, WorldType
    <2>4. CommandType'
      BY <1>2, <1>i, <1>t, <2>1, <2>2 DEF Unplace, CommandType, Steps
    <2>5. Shape(p)' /\ OthersKept(p)
      BY <1>2, <1>i, <1>c, <1>t, <2>1, <2>2
         DEF Unplace, CommandType, Shape, InHydrate, OthersKept
    <2> QED
      BY <2>3, <2>4, <2>5, StepTypes
  <1>3. CASE Unmirror(p)
    <2>1. DiskType' /\ WorldType'
      BY <1>3, <1>i, <1>c DEF Unmirror, DiskType, WorldType
    <2>2. CASE Forget(p)
      BY <2>1, <2>2, ForgetTypes DEF TypeInv, TypeOK
    <2>3. CASE ~Forget(p)
      <3>1. Goto(p, "unmirror", "saveManifest") /\ UNCHANGED <<cmd, copies, work>>
        BY <1>3, <2>3 DEF Unmirror
      <3>2. CommandType'
        BY <3>1, <1>i DEF CommandType, Steps
      <3>3. Shape(p)' /\ OthersKept(p)
        BY <3>1, <1>i DEF CommandType, Shape, InHydrate, OthersKept
      <3> QED
        BY <2>1, <3>2, <3>3, StepTypes
    <2> QED
      BY <2>2, <2>3
  <1> QED
    BY <1>1, <1>2, <1>3

\* Writing the manifest back, then the lockfile.
LEMMA SaveTypes ==
    ASSUME TypeInv, NEW p \in Proc, SaveManifest(p) \/ SaveLock(p)
    PROVE  TypeInv'
  <1> USE DEF disk, world, copies, work, Goto
  <1>i. DiskType /\ WorldType /\ CommandType /\ Shape(p)
    BY DEF TypeInv, TypeOK
  <1>1. CASE SaveManifest(p)
    <2>1. man[p] \in Manifests /\ cmd[p] \in Command
      BY <1>1, <1>i DEF SaveManifest, CommandType, Shape
    <2>2. cmd[p].op \in {"install", "remove"} => cmd[p].ref \in Ref
      BY <2>1, InstallAssumption DEF Command
    <2>3. NewManifest(p) \in Manifests
      BY <2>1, <2>2 DEF NewManifest, Manifests
    <2>4. DiskType' /\ WorldType'
      BY <1>1, <1>i, <2>3 DEF SaveManifest, DiskType, WorldType
    <2>5. CommandType'
      BY <1>1, <1>i DEF SaveManifest, CommandType, Steps
    <2>6. Shape(p)' /\ OthersKept(p)
      BY <1>1, <1>i DEF SaveManifest, CommandType, Shape, InHydrate, OthersKept
    <2> QED
      BY <2>4, <2>5, <2>6, StepTypes
  <1>2. CASE SaveLock(p)
    <2>1. DiskType' /\ WorldType'
      BY <1>2, <1>i DEF SaveLock, DiskType, WorldType, CommandType
    <2> QED
      BY <1>2, <2>1, ForgetTypes DEF SaveLock, TypeInv, TypeOK
  <1> QED
    BY <1>1, <1>2

\* Ending early.
LEMMA EndTypes ==
    ASSUME TypeInv, NEW p \in Proc, Exit(p) \/ Die(p)
    PROVE  TypeInv'
  <1> USE DEF disk, world, copies, work
  <1>i. DiskType /\ WorldType /\ CommandType /\ Shape(p)
    BY DEF TypeInv, TypeOK
  <1>1. Forget(p)
    BY DEF Exit, Die
  <1>2. mirrored' \in [Pkg -> Archive \union {None}]
    BY <1>i DEF Exit, Die, DiskType
  <1>3. DiskType' /\ WorldType'
    BY <1>i, <1>2 DEF Exit, Die, DiskType, WorldType
  <1> QED
    BY <1>1, <1>3, ForgetTypes DEF TypeInv, TypeOK

\* A change of the world.
LEMMA WorldTypes ==
    ASSUME TypeInv, World
    PROVE  TypeInv'
  <1> USE DEF disk, world, copies, work
  <1>i. DiskType /\ WorldType /\ CommandType /\ \A p \in Proc : Shape(p)
    BY DEF TypeInv, TypeOK
  <1>1. UNCHANGED <<pc, cmd, copies, work>> /\ changes' = changes + 1
    BY DEF World, Publish, SetTargets, EditManifest, Change
  <1>2. CommandType' /\ \A p \in Proc : Shape(p)'
    BY <1>1, <1>i DEF CommandType, Shape, InHydrate
  <1>3. DiskType'
    BY <1>i, InstallAssumption
       DEF World, Publish, SetTargets, EditManifest, DiskType, Manifests, Ref
  <1>4. registry' \in Registries
    <2>1. ASSUME NEW a \in Archive, Publish(a)
          PROVE  registry' \in Registries
      BY <2>1, <1>i, DecodedType DEF Publish, WorldType, Registries
    <2> QED
      BY <2>1, <1>i DEF World, SetTargets, EditManifest, WorldType
  <1>5. config' \in TargetLists /\ started' = started
    BY <1>i DEF World, Publish, SetTargets, EditManifest, WorldType
  <1>6. WorldType'
    BY <1>1, <1>4, <1>5, <1>i DEF WorldType
  <1> QED
    BY <1>2, <1>3, <1>6 DEF TypeInv, TypeOK

\* The initial states have the types and shapes of TypeInv.
LEMMA TypeInvInit == Init => TypeInv
  <1> SUFFICES ASSUME Init PROVE TypeInv
    OBVIOUS
  <1>1. NoDeps \in Manifests /\ EmptyLock \in Locks
    BY DEF NoDeps, Manifests, EmptyLock, Locks
  <1>2. DiskType
    BY InstallAssumption DEF Init, DiskType
  <1>3. WorldType
    BY InstallAssumption DEF Init, WorldType, Registries
  <1>4. CommandType
    BY <1>1 DEF Init, CommandType
  <1>5. \A p \in Proc : Shape(p)
    BY DEF Init, Shape, InHydrate
  <1> QED
    BY <1>2, <1>3, <1>4, <1>5 DEF TypeInv, TypeOK

\* Every step, of a command or of the world, keeps them.
LEMMA TypeInvStep == TypeInv /\ [Next]_vars => TypeInv'
  <1> SUFFICES ASSUME TypeInv, [Next]_vars PROVE TypeInv'
    OBVIOUS
  <1>1. ASSUME NEW p \in Proc, Step(p)
        PROVE  TypeInv'
    BY <1>1, StartTypes, PlanTypes, FetchTypes, MirrorTypes, PlaceTypes, RecordTypes,
       RemoveTypes, SaveTypes, EndTypes DEF Step
  <1>2. CASE UNCHANGED vars
    BY <1>2 DEF vars, disk, world, copies, work, TypeInv, TypeOK, DiskType, WorldType,
                CommandType, Shape, InHydrate
  <1> QED
    BY <1>1, <1>2, StartTypes, EndTypes, WorldTypes DEF Next

\* Every variable always has the shape the code gives it.
THEOREM TypeCorrect == Spec => []TypeOK
  <1>1. Spec => []TypeInv
    BY TypeInvInit, TypeInvStep, PTL DEF Spec
  <1>2. TypeInv => TypeOK
    BY DEF TypeInv
  <1> QED
    BY <1>1, <1>2, PTL

(***************************************************************************)
(* Reproducibility: an install keeps the pins it read, and installs what   *)
(* they name.  Pins are lost only where a stale one is dropped; the        *)
(* invariant PinInv says why that is never one the command read.           *)
(***************************************************************************)

\* A step of p that keeps what it compares with its pins.
LEMMA PinsOfOthers ==
    ASSUME NEW p \in Proc, PinInv, PinSafe(p)', OthersKept(p)
    PROVE  \A q \in Proc : PinSafe(q)'
  <1> SUFFICES ASSUME NEW q \in Proc, q # p
               PROVE  PinSafe(q)'
    OBVIOUS
  <1>1. PinSafe(q)
    BY DEF PinInv
  <1>2. /\ pc'[q] = pc[q] /\ cmd'[q] = cmd[q] /\ agenda'[q] = agenda[q]
        /\ cur'[q] = cur[q] /\ lock'[q] = lock[q] /\ base'[q] = base[q]
    BY DEF OthersKept
  <1>3. /\ InHydrate(q)' <=> InHydrate(q)
        /\ Hydrating(q)' <=> Hydrating(q)
        /\ AgendaPinned(q)' <=> AgendaPinned(q)
        /\ OwnPins(lock[q])' <=> OwnPins(lock[q])
        /\ OwnPins(base[q])' <=> OwnPins(base[q])
    BY <1>2 DEF InHydrate, Hydrating, AgendaPinned, OwnPins
  <1>4. /\ KeepsPins(q)' <=> KeepsPins(q)
        /\ InstallsPinned(q)' <=> InstallsPinned(q)
    BY <1>2, <1>3 DEF KeepsPins, InstallsPinned, OwnSlot
  <1> QED
    BY <1>1, <1>2, <1>3, <1>4 DEF PinSafe

\* A command ends with nothing in its memory.
LEMMA ForgetPins ==
    ASSUME TypeInv, PinInv, NEW p \in Proc, Forget(p)
    PROVE  \A q \in Proc : PinSafe(q)'
  <1>1. /\ lock'[p] = EmptyLock /\ base'[p] = EmptyLock
        /\ cmd'[p].op = "none" /\ pc'[p] = "idle"
    BY DEF Forget, TypeInv, TypeOK, CommandType, NoCommand
  <1>2. OwnPins(EmptyLock)
    BY DEF OwnPins, EmptyLock
  <1>3. PinSafe(p)'
    BY <1>1, <1>2 DEF PinSafe, OwnPins, KeepsPins, InstallsPinned
  <1>4. OthersKept(p)
    BY DEF Forget, TypeInv, TypeOK, CommandType, OthersKept
  <1> QED
    BY <1>3, <1>4, PinsOfOthers

\* A reference that is looked up in the lock asks for the version locked.
LEMMA ResolvedSameVersion ==
    ASSUME NEW L \in Locks, OwnPins(L), NEW d \in Ref,
           GetEntry(L, ResolvePkgRef(L, d)) # None
    PROVE  SameVersion(L, ResolvePkgRef(L, d))
  <1> DEFINE r == ResolvePkgRef(L, d)
  <1>1. d.pkg \in Pkg /\ SlotOf[d.pkg] \in Slot
    BY DEF Ref
  <1>2. GetEntry(L, d) # None
    BY DEF ResolvePkgRef
  <1>3. r = RefOf(GetEntry(L, d).arc)
    BY <1>2 DEF ResolvePkgRef
  <1>4. SlotOf[r.pkg] = SlotOf[d.pkg]
    <2>1. OwnSlot(GetEntry(L, d).arc) = SlotOf[d.pkg]
      BY <1>1, <1>2 DEF OwnPins, GetEntry
    <2>2. r.pkg = Content[GetEntry(L, d).arc].pkg
      BY <1>3 DEF RefOf
    <2> QED
      BY <2>1, <2>2 DEF OwnSlot
  <1> QED
    BY <1>2, <1>3, <1>4 DEF SameVersion, GetEntry, RefOf

\* Only a slot that was free when the lockfile was read can lose its pin to a
\* fetch, and what is fetched for a slot that was pinned is what the pin names.
LEMMA FetchPins ==
    ASSUME TypeInv, PinInv, NEW p \in Proc, Fetch(p)
    PROVE  PinInv'
  <1> USE DEF disk, world, copies, work, Goto
  <1> DEFINE r == Wanted(p)
             g == SlotOf[r.pkg]
             item == Head(agenda[p])
  <1>i. CommandType /\ DiskType /\ WorldType /\ PinSafe(p) /\ NamedAsServed /\ OwnPins(lockfile)
    BY DEF TypeInv, TypeOK, PinInv
  <1>l. /\ lock[p] \in Locks /\ base[p] \in Locks
        /\ agenda[p] \in Seq(Item) /\ agenda[p] # <<>> /\ item \in Item
        /\ r \in Ref /\ r.pkg \in Pkg /\ g \in Slot
    BY <1>i, HydrateTypes DEF Fetch, InHydrate, CommandType, Ref
  <1>1. PICK a \in Archive :
           /\ Serves(r, a)
           /\ ~ShaMismatch(lock[p], r, a)
           /\ cur' = [cur EXCEPT ![p] = a]
    BY DEF Fetch
  <1>2. Content[a].pkg = r.pkg /\ OwnSlot(a) = g
    <2>1. PICK v \in Ver : registry[r.pkg][v] = a
      BY <1>1 DEF Serves
    <2>2. a # None
      OBVIOUS
    <2> QED
      BY <1>i, <1>l, <2>1, <2>2 DEF NamedAsServed, OwnSlot
  <1>3. /\ pc[p] = "fetch" /\ pc'[p] = "mirror" /\ cur'[p] = a
        /\ lock'[p] = DropStalePin(lock[p], r) /\ base'[p] = base[p]
        /\ cmd'[p] = cmd[p] /\ agenda'[p] = agenda[p]
    BY <1>i, <1>1 DEF Fetch, CommandType
  <1>4. ASSUME NEW s \in Slot
        PROVE  lock'[p].pins[s] \in {lock[p].pins[s], None}
    BY <1>3, <1>l DEF DropStalePin, RemoveEntry, Locks
  <1>5. OwnPins(lock'[p])
    BY <1>4, <1>i DEF OwnPins, PinSafe
  <1>6. ASSUME cmd[p].op = "installAll", base[p].pins[g] # None
        PROVE  SameVersion(lock[p], r)
    <2>1. GetEntry(lock[p], r) = base[p].pins[g]
      BY <1>6, <1>3, <1>i, <1>l DEF PinSafe, KeepsPins, Hydrating, GetEntry
    <2>2. CASE item.late
      <3>1. r = ResolvePkgRef(lock[p], item.ref) /\ item.ref \in Ref
        BY <2>2, <1>l DEF Wanted, Item
      <3> QED
        BY <3>1, <2>1, <1>6, <1>i, <1>l, ResolvedSameVersion DEF PinSafe
    <2>3. CASE ~item.late
      <3>1. r = item.ref
        BY <2>3 DEF Wanted
      <3>2. 1 \in DOMAIN agenda[p] /\ item = agenda[p][1]
        BY <1>l
      <3>3. AgendaPinned(p)
        BY <1>6, <1>3, <1>i DEF PinSafe, InHydrate
      <3>4. Content[base[p].pins[g].arc].ver = r.ver
        BY <3>1, <3>2, <3>3, <2>3, <1>6 DEF AgendaPinned
      <3> QED
        BY <3>4, <2>1, <1>6 DEF SameVersion
    <2> QED
      BY <2>2, <2>3
  <1>7. KeepsPins(p)'
    <2> SUFFICES ASSUME cmd[p].op = "installAll", NEW s \in Slot, base[p].pins[s] # None
                 PROVE  lock'[p].pins[s] = base[p].pins[s]
      BY <1>3 DEF KeepsPins
    <2>1. lock[p].pins[s] = base[p].pins[s]
      BY <1>3, <1>i DEF PinSafe, KeepsPins, Hydrating
    <2>2. CASE s = g
      BY <2>1, <2>2, <1>3, <1>6 DEF DropStalePin
    <2>3. CASE s # g
      BY <2>1, <2>3, <1>3, <1>l DEF DropStalePin, RemoveEntry, Locks
    <2> QED
      BY <2>2, <2>3
  <1>8. InstallsPinned(p)'
    <2> SUFFICES ASSUME cmd[p].op = "installAll", base[p].pins[g] # None
                 PROVE  base[p].pins[g].arc = a
      BY <1>2, <1>3 DEF InstallsPinned, OwnSlot
    <2>1. lock[p].pins[g] = base[p].pins[g]
      BY <1>3, <1>i, <1>l DEF PinSafe, KeepsPins, Hydrating
    <2> QED
      BY <2>1, <1>1, <1>6 DEF ShaMismatch, GetEntry
  <1>9. AgendaPinned(p)' <=> AgendaPinned(p)
    BY <1>3 DEF AgendaPinned
  <1>10. PinSafe(p)'
    BY <1>3, <1>5, <1>7, <1>8, <1>9, <1>i DEF PinSafe, InHydrate, OwnPins
  <1>11. OthersKept(p)
    BY <1>1, <1>i DEF Fetch, CommandType, OthersKept
  <1>12. NamedAsServed' /\ OwnPins(lockfile)'
    BY <1>i DEF Fetch, NamedAsServed, OwnPins
  <1> QED
    BY <1>10, <1>11, <1>12, PinsOfOthers DEF PinInv

\* Starting a command, reading its files, planning.
LEMMA PlanPins ==
    ASSUME TypeInv, PinInv, NEW p \in Proc,
           \/ Start(p) \/ ReadLock(p) \/ ReadManifest(p)
           \/ SeedLock(p) \/ SeedManifest(p)
           \/ PlanInstall(p) \/ PlanInstallAll(p) \/ PlanNothing(p)
    PROVE  PinInv'
  <1> USE DEF disk, world, copies, work, Goto, AfterLock, AfterManifest
  <1>i. CommandType /\ PinSafe(p) /\ NamedAsServed /\ OwnPins(lockfile)
    BY DEF TypeInv, TypeOK, PinInv
  <1>e. OwnPins(EmptyLock)
    BY DEF OwnPins, EmptyLock
  <1>w. NamedAsServed' /\ OwnPins(lockfile)'
    BY <1>i, <1>e DEF Start, ReadLock, ReadManifest, SeedLock, SeedManifest, PlanInstall,
                      PlanInstallAll, PlanNothing, NamedAsServed, OwnPins
  <1>1. CASE Start(p)
    <2>1. PICK c \in Command : Goto(p, "idle", FirstRead(c.op))
      BY <1>1 DEF Start
    <2>2. FirstRead(c.op) \in {"readLock", "readManifest"}
      BY DEF FirstRead
    <2>3. /\ pc'[p] \in {"readLock", "readManifest"}
          /\ lock' = lock /\ base' = base
      BY <1>1, <2>1, <2>2, <1>i DEF Start, CommandType
    <2>4. PinSafe(p)'
      BY <2>3, <1>i DEF PinSafe, OwnPins, InHydrate, Hydrating, KeepsPins, InstallsPinned
    <2>5. OthersKept(p)
      BY <1>1, <1>i DEF Start, CommandType, OthersKept
    <2> QED
      BY <1>w, <2>4, <2>5, PinsOfOthers DEF PinInv
  <1>2. CASE ReadLock(p)
    <2>1. /\ pc'[p] \in {"seedLock", "readManifest", "plan"}
          /\ lock'[p] = lockfile /\ base'[p] = lockfile
      BY <1>2, <1>i DEF ReadLock, CommandType
    <2>2. PinSafe(p)'
      BY <2>1, <1>i DEF PinSafe, OwnPins, InHydrate, Hydrating, KeepsPins, InstallsPinned
    <2>3. OthersKept(p)
      BY <1>2, <1>i DEF ReadLock, CommandType, OthersKept
    <2> QED
      BY <1>w, <2>2, <2>3, PinsOfOthers DEF PinInv
  <1>3. CASE ReadManifest(p)
    <2>1. /\ pc'[p] \in {"seedManifest", IF cmd[p].op = "install" THEN "plan" ELSE "readLock"}
          /\ lock' = lock /\ base' = base /\ cmd' = cmd
      BY <1>3, <1>i DEF ReadManifest, CommandType
    <2>2. PinSafe(p)'
      BY <2>1, <1>i DEF PinSafe, OwnPins, InHydrate, Hydrating, KeepsPins, InstallsPinned
    <2>3. OthersKept(p)
      BY <1>3, <1>i DEF ReadManifest, CommandType, OthersKept
    <2> QED
      BY <1>w, <2>2, <2>3, PinsOfOthers DEF PinInv
  <1>4. CASE PlanInstall(p)
    <2>1. cmd'[p].op = "install" /\ lock' = lock /\ base' = base
      BY <1>4, <1>i DEF PlanInstall, CommandType
    <2>2. PinSafe(p)'
      BY <2>1, <1>i DEF PinSafe, OwnPins, KeepsPins, InstallsPinned
    <2>3. OthersKept(p)
      BY <1>4, <1>i DEF PlanInstall, CommandType, OthersKept
    <2> QED
      BY <1>w, <2>2, <2>3, PinsOfOthers DEF PinInv
  <1>5. CASE PlanInstallAll(p)
    <2> DEFINE deps == {s \in Slot : man[p][s] # None}
    <2>0. PICK q \in Orders(deps) :
             agenda' = [agenda EXCEPT ![p] =
                          [i \in DOMAIN q |->
                             [ref    |-> ResolvePkgRef(lock[p], man[p][q[i]]),
                              parent |-> None,
                              late   |-> FALSE]]]
      BY <1>5 DEF PlanInstallAll
    <2>1. /\ pc[p] = "plan" /\ cmd[p].op = "installAll" /\ lock[p] = base[p]
          /\ pc'[p] = "fetch" /\ lock' = lock /\ base' = base /\ cmd' = cmd
      BY <1>5, <1>i DEF PlanInstallAll, CommandType, PinSafe
    <2>2. ASSUME NEW i \in DOMAIN agenda'[p],
                 base[p].pins[SlotOf[agenda'[p][i].ref.pkg]] # None
          PROVE  Content[base[p].pins[SlotOf[agenda'[p][i].ref.pkg]].arc].ver
                   = agenda'[p][i].ref.ver
      <3> DEFINE d == man[p][q[i]]
                 r == ResolvePkgRef(lock[p], d)
      <3>1. i \in DOMAIN q /\ agenda'[p][i].ref = r
        BY <2>0, <1>i DEF CommandType
      <3>2. q[i] \in deps
        BY <3>1, OrdersType
      <3>3. d \in Ref
        BY <3>2, <1>i DEF CommandType, Manifests
      <3>4. GetEntry(lock[p], r) = base[p].pins[SlotOf[r.pkg]]
        BY <2>1 DEF GetEntry
      <3>5. SameVersion(lock[p], r)
        BY <3>1, <3>3, <3>4, <2>2, <1>i, ResolvedSameVersion DEF PinSafe, CommandType
      <3> QED
        BY <3>1, <3>4, <3>5 DEF SameVersion
    <2>3. AgendaPinned(p)'
      BY <2>1, <2>2 DEF AgendaPinned
    <2>4. PinSafe(p)'
      BY <2>1, <2>3, <1>i DEF PinSafe, OwnPins, KeepsPins, InstallsPinned
    <2>5. OthersKept(p)
      BY <1>5, <1>i DEF PlanInstallAll, CommandType, OthersKept
    <2> QED
      BY <1>w, <2>4, <2>5, PinsOfOthers DEF PinInv
  <1>6. CASE PlanNothing(p)
    BY <1>6, <1>w, ForgetPins DEF PlanNothing, PinInv
  <1>7. CASE SeedLock(p) \/ SeedManifest(p)
    <2>1. /\ pc'[p] \in {"readLock", "readManifest", "plan"}
          /\ pc'[p] = "plan" /\ cmd[p].op = "installAll" => pc[p] = "seedLock"
          /\ lock' = lock /\ base' = base /\ cmd' = cmd
      BY <1>7, <1>i DEF SeedLock, SeedManifest, CommandType
    <2>2. PinSafe(p)'
      BY <2>1, <1>i DEF PinSafe, OwnPins, InHydrate, Hydrating, KeepsPins, InstallsPinned
    <2>3. OthersKept(p)
      BY <1>7, <1>i DEF SeedLock, SeedManifest, CommandType, OthersKept
    <2> QED
      BY <1>w, <2>2, <2>3, PinsOfOthers DEF PinInv
  <1> QED
    BY <1>1, <1>2, <1>3, <1>4, <1>5, <1>6, <1>7

\* Steps that touch neither the pins a command holds nor its agenda.
LEMMA QuietPins ==
    ASSUME TypeInv, PinInv, NEW p \in Proc,
           \/ FetchFails(p) \/ MirrorAndClaim(p) \/ ClaimFails(p) \/ PlaceAsset(p)
           \/ RecordFails(p) \/ Unplace(p) \/ SaveManifest(p)
    PROVE  PinInv'
  <1> USE DEF disk, world, copies, work, Goto
  <1>i. CommandType /\ PinSafe(p) /\ NamedAsServed /\ OwnPins(lockfile)
    BY DEF TypeInv, TypeOK, PinInv
  <1>1. NamedAsServed' /\ OwnPins(lockfile)'
    BY <1>i DEF FetchFails, MirrorAndClaim, ClaimFails, PlaceAsset, RecordFails, Unplace,
                SaveManifest, NamedAsServed, OwnPins
  <1>2. /\ cmd'[p] = cmd[p] /\ base'[p] = base[p] /\ agenda'[p] = agenda[p]
        /\ cur'[p] = cur[p]
    BY DEF FetchFails, MirrorAndClaim, ClaimFails, PlaceAsset, RecordFails, Unplace,
           SaveManifest
  <1>3. lock'[p].pins = lock[p].pins
    <2>1. CASE MirrorAndClaim(p)
      <3>1. lock[p] \in Locks
        BY <1>i DEF CommandType
      <3>2. \A k, line : UpsertStatusLine(lock[p], k, line).pins = lock[p].pins
        BY <3>1 DEF UpsertStatusLine, Locks
      <3> QED
        BY <2>1, <3>2, <1>i DEF MirrorAndClaim, CommandType
    <2>2. CASE ~MirrorAndClaim(p)
      BY <2>2 DEF FetchFails, ClaimFails, PlaceAsset, RecordFails, Unplace, SaveManifest
    <2> QED
      BY <2>1, <2>2
  <1>4. /\ pc'[p] \notin {"seedLock", "plan"}
        /\ pc'[p] \in {"mirror", "place", "record"} => pc[p] \in {"mirror", "place", "record"}
        /\ InHydrate(p)' => InHydrate(p)
    BY <1>i DEF FetchFails, MirrorAndClaim, ClaimFails, PlaceAsset, RecordFails, Unplace,
                SaveManifest, CommandType, InHydrate
  <1>5. Hydrating(p)' => Hydrating(p)
    BY <1>i DEF FetchFails, MirrorAndClaim, ClaimFails, PlaceAsset, RecordFails, Unplace,
                SaveManifest, CommandType, Hydrating
  <1>6. KeepsPins(p)' /\ InstallsPinned(p)'
    BY <1>2, <1>3, <1>4, <1>5, <1>i DEF PinSafe, KeepsPins, InstallsPinned, OwnSlot
  <1>7. /\ OwnPins(lock[p])' /\ OwnPins(base[p])'
        /\ AgendaPinned(p)' <=> AgendaPinned(p)
    BY <1>2, <1>3, <1>i DEF PinSafe, OwnPins, AgendaPinned
  <1>8. PinSafe(p)'
    BY <1>2, <1>4, <1>6, <1>7, <1>i DEF PinSafe
  <1>9. OthersKept(p)
    BY <1>i DEF FetchFails, MirrorAndClaim, ClaimFails, PlaceAsset, RecordFails, Unplace,
                SaveManifest, CommandType, OthersKept
  <1> QED
    BY <1>1, <1>8, <1>9, PinsOfOthers DEF PinInv

\* Recording fills free slots only, and a package's slot only with a package of
\* that slot.
LEMMA RecordedPins ==
    ASSUME NoAliasing, NEW L \in Locks, NEW a \in Archive, NEW parent \in Ref \union {None}
    PROVE  /\ \A s \in Slot : L.pins[s] # None =>
                 Recorded(L, a, parent).pins[s] = L.pins[s]
           /\ OwnPins(L) => OwnPins(Recorded(L, a, parent))
  <1> DEFINE bundled == [L EXCEPT !.pins =
                      [s \in Slot |-> IF s \in Children(a)
                                      THEN UpsertEntry(L, s, a, RefOf(a)).pins[s]
                                      ELSE L.pins[s]]]
  <1>0. L \in [pins : [Slot -> Pin \union {None}], claim : Claim \union {None}]
    BY DEF Locks
  <1>1. OwnSlot(a) \in Slot /\ Children(a) \subseteq Slot
    BY DecodedType
  <1>2. /\ bundled \in [pins : [Slot -> Pin \union {None}], claim : Claim \union {None}]
        /\ \A s \in Slot : s \notin Children(a) \/ L.pins[s] # None =>
              bundled.pins[s] = L.pins[s]
    <2>1. ASSUME NEW s \in Slot
          PROVE  /\ UpsertEntry(L, s, a, RefOf(a)).pins[s] \in Pin \union {None}
                 /\ L.pins[s] # None => UpsertEntry(L, s, a, RefOf(a)).pins[s] = L.pins[s]
      <3>1. [arc |-> a, parent |-> RefOf(a)] \in Pin
        BY DecodedType DEF Pin
      <3> QED
        BY <1>0, <3>1 DEF UpsertEntry
    <2> QED
      BY <1>0, <2>1
  <1> HIDE DEF bundled
  <1>3. Recorded(L, a, parent) = UpsertEntry(bundled, OwnSlot(a), a, parent)
    BY DEF Recorded, bundled
  <1>4. ASSUME NEW s \in Slot
        PROVE  \/ Recorded(L, a, parent).pins[s] = bundled.pins[s]
               \/ /\ s = OwnSlot(a) /\ bundled.pins[s] = None
                  /\ Recorded(L, a, parent).pins[s].arc = a
    BY <1>1, <1>2, <1>3 DEF UpsertEntry
  <1>5. ASSUME NEW s \in Slot, L.pins[s] # None
        PROVE  Recorded(L, a, parent).pins[s] = L.pins[s]
    BY <1>2, <1>4, <1>5
  <1>6. ASSUME OwnPins(L), NEW h \in Pkg,
               Recorded(L, a, parent).pins[SlotOf[h]] # None
        PROVE  OwnSlot(Recorded(L, a, parent).pins[SlotOf[h]].arc) = SlotOf[h]
    <2>1. SlotOf[h] \in Slot /\ SlotOf[h] \notin Children(a)
      BY DEF NoAliasing
    <2>2. bundled.pins[SlotOf[h]] = L.pins[SlotOf[h]]
      BY <2>1, <1>2
    <2> QED
      BY <2>1, <2>2, <1>4, <1>6 DEF OwnPins
  <1> QED
    BY <1>5, <1>6 DEF OwnPins

\* Recording an archive keeps every pin, and puts only late dependencies on the
\* agenda.
LEMMA RecordPins ==
    ASSUME NoAliasing, TypeInv, PinInv, NEW p \in Proc, Record(p)
    PROVE  PinInv'
  <1> USE DEF disk, world, copies, work, Goto
  <1> DEFINE a == cur[p]
             parent == Head(agenda[p]).parent
             rest == DepItems(a) \o Tail(agenda[p])
  <1>i. CommandType /\ PinSafe(p) /\ NamedAsServed /\ OwnPins(lockfile)
    BY DEF TypeInv, TypeOK, PinInv
  <1>1. /\ a \in Archive /\ lock[p] \in Locks /\ parent \in Ref \union {None}
        /\ agenda[p] \in Seq(Item) /\ agenda[p] # <<>>
    <2>1. InHydrate(p) /\ a \in Archive
      BY DEF Record, InHydrate, TypeInv, Shape
    <2> QED
      BY <2>1, HydrateTypes DEF Item
  <1>2. /\ pc[p] = "record" /\ pc'[p] \in {"fetch", "saveManifest"}
        /\ lock'[p] = Recorded(lock[p], a, parent) /\ base'[p] = base[p]
        /\ cmd'[p] = cmd[p] /\ agenda'[p] = rest
    BY <1>i DEF Record, CommandType
  <1>3. OwnPins(lock'[p])
    BY <1>1, <1>2, <1>i, RecordedPins DEF PinSafe
  <1>4. KeepsPins(p)'
    <2> SUFFICES ASSUME cmd[p].op = "installAll", NEW s \in Slot, base[p].pins[s] # None
                 PROVE  lock'[p].pins[s] = base[p].pins[s]
      BY <1>2 DEF KeepsPins
    <2>1. lock[p].pins[s] = base[p].pins[s]
      BY <1>2, <1>i DEF PinSafe, KeepsPins, Hydrating
    <2> QED
      BY <2>1, <1>1, <1>2, RecordedPins
  <1>5. ASSUME AgendaPinned(p)
        PROVE  AgendaPinned(p)'
    <2>1. DepItems(a) \in Seq(Item) /\ \A i \in DOMAIN DepItems(a) : DepItems(a)[i].late
      BY <1>1, DepItemsType
    <2>2. \A i \in DOMAIN rest : ~rest[i].late =>
             \E j \in DOMAIN agenda[p] : rest[i] = agenda[p][j]
      BY <1>1, <2>1, LateThenTail
    <2> HIDE DEF rest
    <2>3. base'[p] = base[p] /\ agenda'[p] = rest
      BY <1>2
    <2>4. ASSUME NEW i \in DOMAIN rest, ~rest[i].late,
                 base[p].pins[SlotOf[rest[i].ref.pkg]] # None
          PROVE  Content[base[p].pins[SlotOf[rest[i].ref.pkg]].arc].ver = rest[i].ref.ver
      <3>1. PICK j \in DOMAIN agenda[p] : rest[i] = agenda[p][j]
        BY <2>2, <2>4
      <3> QED
        BY <3>1, <2>4, <1>5 DEF AgendaPinned
    <2> QED
      BY <2>3, <2>4 DEF AgendaPinned
  <1>6. PinSafe(p)'
    BY <1>2, <1>3, <1>4, <1>5, <1>i DEF PinSafe, InHydrate, InstallsPinned, OwnPins
  <1>7. OthersKept(p)
    BY <1>i DEF Record, CommandType, OthersKept
  <1>8. NamedAsServed' /\ OwnPins(lockfile)'
    BY <1>i DEF Record, NamedAsServed, OwnPins
  <1> QED
    BY <1>6, <1>7, <1>8, PinsOfOthers DEF PinInv

\* A removal only takes pins away.
LEMMA RemovePins ==
    ASSUME TypeInv, PinInv, NEW p \in Proc, PlanRemove(p) \/ Unmirror(p)
    PROVE  PinInv'
  <1> USE DEF disk, world, copies, work, Goto
  <1>i. CommandType /\ PinSafe(p) /\ NamedAsServed /\ OwnPins(lockfile)
    BY DEF TypeInv, TypeOK, PinInv
  <1>w. NamedAsServed' /\ OwnPins(lockfile)'
    BY <1>i DEF PlanRemove, Unmirror, NamedAsServed, OwnPins
  <1>1. CASE PlanRemove(p)
    <2>1. PICK S : lock' = [lock EXCEPT ![p] = Cleared(@, S)]
      BY <1>1 DEF PlanRemove
    <2>2. /\ cmd'[p].op = "remove" /\ base'[p] = base[p]
          /\ lock'[p] = Cleared(lock[p], S)
      BY <1>1, <2>1, <1>i DEF PlanRemove, CommandType
    <2>3. OwnPins(lock'[p])
      BY <2>2, <1>i DEF PinSafe, OwnPins, Cleared
    <2>4. PinSafe(p)'
      BY <2>2, <2>3, <1>i DEF PinSafe, OwnPins, KeepsPins, InstallsPinned
    <2>5. OthersKept(p)
      BY <1>1, <1>i, <2>1 DEF PlanRemove, CommandType, OthersKept
    <2> QED
      BY <1>w, <2>4, <2>5, PinsOfOthers DEF PinInv
  <1>2. CASE Unmirror(p)
    <2>1. CASE Forget(p)
      BY <2>1, <1>w, ForgetPins DEF PinInv
    <2>2. CASE ~Forget(p)
      <3>1. Goto(p, "unmirror", "saveManifest") /\ UNCHANGED <<cmd, copies, work>>
        BY <1>2, <2>2 DEF Unmirror
      <3>2. cmd[p].op = "remove"
        BY <3>1 DEF TypeInv, Shape
      <3>3. PinSafe(p)'
        BY <3>1, <3>2, <1>i DEF PinSafe, OwnPins, KeepsPins, InstallsPinned
      <3>4. OthersKept(p)
        BY <3>1, <1>i DEF CommandType, OthersKept
      <3> QED
        BY <1>w, <3>3, <3>4, PinsOfOthers DEF PinInv
    <2> QED
      BY <2>1, <2>2
  <1> QED
    BY <1>1, <1>2

\* Writing the lockfile back, and ending early.
LEMMA EndPins ==
    ASSUME TypeInv, PinInv, NEW p \in Proc, SaveLock(p) \/ Exit(p) \/ Die(p)
    PROVE  PinInv'
  <1> USE DEF disk, world, copies, work
  <1>i. PinSafe(p) /\ NamedAsServed /\ OwnPins(lockfile)
    BY DEF PinInv
  <1>1. Forget(p)
    BY DEF SaveLock, Exit, Die
  <1>2. lockfile' \in {lockfile, lock[p]} /\ registry' = registry
    BY DEF SaveLock, Exit, Die
  <1>3. NamedAsServed' /\ OwnPins(lockfile)'
    BY <1>2, <1>i DEF NamedAsServed, OwnPins, PinSafe
  <1> QED
    BY <1>1, <1>3, ForgetPins DEF PinInv

\* A change of the world: what is published is published under its own name.
LEMMA WorldPins ==
    ASSUME TypeInv, PinInv, World
    PROVE  PinInv'
  <1> USE DEF disk, world, copies, work
  <1>i. WorldType /\ NamedAsServed /\ OwnPins(lockfile) /\ \A p \in Proc : PinSafe(p)
    BY DEF TypeInv, TypeOK, PinInv
  <1>1. UNCHANGED <<lockfile, pc, cmd, copies, work>>
    BY DEF World, Publish, SetTargets, EditManifest
  <1>2. OwnPins(lockfile)' /\ \A p \in Proc : PinSafe(p)'
    <2>1. ASSUME NEW p \in Proc
          PROVE  PinSafe(p)' <=> PinSafe(p)
      BY <1>1 DEF PinSafe, OwnPins, InHydrate, Hydrating, AgendaPinned, KeepsPins,
                  InstallsPinned, OwnSlot
    <2> QED
      BY <2>1, <1>1, <1>i DEF OwnPins
  <1>3. NamedAsServed'
    <2>1. ASSUME NEW a \in Archive, Publish(a)
          PROVE  NamedAsServed'
      <3>1. Content[a].pkg \in Pkg /\ Content[a].ver \in Ver
        BY DecodedType
      <3> QED
        BY <2>1, <3>1, <1>i DEF Publish, NamedAsServed, WorldType, Registries
    <2>2. CASE registry' = registry
      BY <2>2, <1>i DEF NamedAsServed
    <2> QED
      BY <2>1, <2>2 DEF World, SetTargets, EditManifest
  <1> QED
    BY <1>2, <1>3 DEF PinInv

\* At the start no command runs and the checked-out lockfile names its own packages.
LEMMA PinInvInit == ASSUME NoAliasing PROVE Init => PinInv
  <1> SUFFICES ASSUME Init PROVE PinInv
    OBVIOUS
  <1>1. NamedAsServed
    BY InstallAssumption DEF Init, NamedAsServed
  <1>2. OwnPins(lockfile)
    BY DEF Init, OwnPins, NoAliasing
  <1>3. OwnPins(EmptyLock)
    BY DEF OwnPins, EmptyLock
  <1>4. ASSUME NEW p \in Proc
        PROVE  PinSafe(p)
    BY <1>3 DEF Init, PinSafe, InHydrate, KeepsPins, Hydrating, InstallsPinned
  <1> QED
    BY <1>1, <1>2, <1>4 DEF PinInv

\* Every step keeps the pins safe.
LEMMA PinInvStep ==
    ASSUME NoAliasing
    PROVE  TypeInv /\ PinInv /\ [Next]_vars => PinInv'
  <1> SUFFICES ASSUME TypeInv, PinInv, [Next]_vars PROVE PinInv'
    OBVIOUS
  <1>1. ASSUME NEW p \in Proc, Step(p)
        PROVE  PinInv'
    BY <1>1, PlanPins, FetchPins, QuietPins, RecordPins, RemovePins, EndPins DEF Step
  <1>2. CASE UNCHANGED vars
    <2>1. ASSUME NEW p \in Proc
          PROVE  PinSafe(p)' <=> PinSafe(p)
      BY <1>2 DEF vars, copies, work, PinSafe, OwnPins, InHydrate, Hydrating, AgendaPinned,
                  KeepsPins, InstallsPinned, OwnSlot
    <2> QED
      BY <1>2, <2>1 DEF vars, disk, world, PinInv, OwnPins, NamedAsServed
  <1> QED
    BY <1>1, <1>2, PlanPins, EndPins, WorldPins DEF Next

\* `aipkg install` never changes nor drops a pin it read, whatever the registry
\* serves and whatever runs beside it, as long as no asset bundled in a box has
\* the slot of a package.
THEOREM Reproducible == NoAliasing => (Spec => []PinsKept)
  <1> SUFFICES ASSUME NoAliasing PROVE Spec => []PinsKept
    OBVIOUS
  <1>1. Spec => []TypeInv
    BY TypeInvInit, TypeInvStep, PTL DEF Spec
  <1>2. Spec => []PinInv
    BY <1>1, PinInvInit, PinInvStep, PTL DEF Spec
  <1>3. PinInv => PinsKept
    BY DEF PinInv, PinSafe, PinsKept
  <1> QED
    BY <1>2, <1>3, PTL

\* Under the same assumption it installs, for a slot it read pinned, exactly the
\* archive the pin names.
THEOREM PinnedInstalls == NoAliasing => (Spec => []PinnedArchiveOnly)
  <1> SUFFICES ASSUME NoAliasing PROVE Spec => []PinnedArchiveOnly
    OBVIOUS
  <1>1. Spec => []TypeInv
    BY TypeInvInit, TypeInvStep, PTL DEF Spec
  <1>2. Spec => []PinInv
    BY <1>1, PinInvInit, PinInvStep, PTL DEF Spec
  <1>3. PinInv => PinnedArchiveOnly
    BY DEF PinInv, PinSafe, PinnedArchiveOnly
  <1> QED
    BY <1>2, <1>3, PTL

(***************************************************************************)
(* One command at a time.  What it read of a file is what the file has,    *)
(* until it writes the file itself.                                        *)
(***************************************************************************)

OneAtATime == \A p, q \in Proc : p = q

\* Files that are not there are read as empty ...
Absent ==
    /\ "manifest" \in missing => manifest = NoDeps
    /\ "lockfile" \in missing => lockfile = EmptyLock

\* ... and between reading the lockfile and working on it nobody changes it.
LockRead(p) ==
    \/ pc[p] = "plan"
    \/ cmd[p].op = "install" /\ pc[p] \in {"readManifest", "seedManifest"}

AsRead(p) ==
    /\ pc[p] = "seedLock" => lock[p] = EmptyLock
    /\ pc[p] = "seedManifest" => man[p] = NoDeps
    /\ LockRead(p) => lock[p] = lockfile

ReadInv == Absent /\ \A p \in Proc : AsRead(p)

\* Where a step leaves the command that takes it.
LEMMA StepRead ==
    ASSUME TypeInv, Absent, NEW p \in Proc, AsRead(p), Start(p) \/ Step(p) \/ Die(p)
    PROVE  Absent' /\ AsRead(p)'
  <1> USE DEF disk, world, copies, work, Goto, AfterLock, AfterManifest
  <1>i. CommandType
    BY DEF TypeInv, TypeOK
  <1>1. CASE Start(p)
    <2>1. PICK c \in Command : Goto(p, "idle", FirstRead(c.op)) /\ cmd' = [cmd EXCEPT ![p] = c]
      BY <1>1 DEF Start
    <2>2. pc'[p] = FirstRead(c.op) /\ cmd'[p] = c
      BY <2>1, <1>i DEF CommandType
    <2>3. AsRead(p)'
      BY <2>2 DEF AsRead, LockRead, FirstRead
    <2> QED
      BY <1>1, <2>3 DEF Start, Absent
  <1>2. CASE ReadLock(p)
    <2>1. AsRead(p)'
      BY <1>2, <1>i DEF ReadLock, CommandType, Absent, AsRead, LockRead
    <2> QED
      BY <1>2, <2>1 DEF ReadLock, Absent
  <1>3. CASE ReadManifest(p)
    <2>1. AsRead(p)'
      BY <1>3, <1>i DEF ReadManifest, CommandType, Absent, AsRead, LockRead
    <2> QED
      BY <1>3, <2>1 DEF ReadManifest, Absent
  <1>4. CASE SeedLock(p)
    BY <1>4, <1>i DEF SeedLock, CommandType, Absent, AsRead, LockRead
  <1>5. CASE SeedManifest(p)
    BY <1>5, <1>i DEF SeedManifest, CommandType, Absent, AsRead, LockRead
  <1>6. CASE PlanNothing(p) \/ Exit(p) \/ Die(p) \/ (Unmirror(p) /\ Forget(p))
    <2>1. pc'[p] = "idle" /\ UNCHANGED <<missing, manifest, lockfile>>
      BY <1>6, <1>i DEF PlanNothing, Exit, Die, Unmirror, Forget, CommandType
    <2> QED
      BY <2>1 DEF Absent, AsRead, LockRead
  <1>7. CASE PlanInstall(p) \/ PlanInstallAll(p) \/ Fetch(p) \/ FetchFails(p) \/ MirrorAndClaim(p)
              \/ ClaimFails(p) \/ PlaceAsset(p) \/ Record(p) \/ RecordFails(p) \/ PlanRemove(p)
              \/ Unplace(p) \/ (Unmirror(p) /\ ~Forget(p))
    <2>1. UNCHANGED <<missing, manifest, lockfile>>
      BY <1>7 DEF PlanInstall, PlanInstallAll, Fetch, FetchFails, MirrorAndClaim, ClaimFails, PlaceAsset,
         Record, RecordFails, PlanRemove, Unplace, Unmirror
    <2>2. pc'[p] \notin {"plan", "readManifest", "seedManifest", "seedLock"}
      BY <1>7, <1>i DEF PlanInstall, PlanInstallAll, Fetch, FetchFails, MirrorAndClaim, ClaimFails, PlaceAsset,
         Record, RecordFails, PlanRemove, Unplace, Unmirror, CommandType
    <2> QED
      BY <2>1, <2>2 DEF Absent, AsRead, LockRead
  <1>8. CASE SaveManifest(p)
    BY <1>8, <1>i DEF SaveManifest, CommandType, Absent, AsRead, LockRead
  <1>9. CASE SaveLock(p)
    BY <1>9, <1>i DEF SaveLock, Forget, CommandType, Absent, AsRead, LockRead
  <1> QED
    BY <1>1, <1>2, <1>3, <1>4, <1>5, <1>6, <1>7, <1>8, <1>9 DEF Step

\* What the world changes of the files it leaves there.
LEMMA WorldRead ==
    ASSUME ReadInv, World
    PROVE  ReadInv'
  <1>1. /\ UNCHANGED <<lockfile, pc, cmd, copies>>
        /\ missing' \subseteq missing
        /\ "manifest" \in missing' => manifest' = manifest
    BY DEF World, Publish, SetTargets, EditManifest, disk, world, copies
  <1> QED
    BY <1>1 DEF ReadInv, Absent, AsRead, LockRead, copies

LEMMA NextRead ==
    ASSUME OneAtATime, TypeInv, ReadInv, [Next]_vars
    PROVE  ReadInv'
  <1>1. ASSUME NEW p \in Proc, Start(p) \/ Step(p) \/ Die(p)
        PROVE  ReadInv'
    <2>1. Absent' /\ AsRead(p)'
      BY <1>1, StepRead DEF ReadInv
    <2>2. \A q \in Proc : q = p
      BY DEF OneAtATime
    <2> QED
      BY <2>1, <2>2 DEF ReadInv
  <1>2. CASE UNCHANGED vars
    BY <1>2 DEF ReadInv, Absent, AsRead, LockRead, vars, disk, copies
  <1> QED
    BY <1>1, <1>2, WorldRead DEF Next

LEMMA InitRead == Init => ReadInv
  BY DEF Init, ReadInv, Absent, AsRead, LockRead
(***************************************************************************)
(* The statusLine.  A command installs over the claim on file only what    *)
(* that claim allows, since it claims before it places.                    *)
(***************************************************************************)

ClaimFits(p) ==
    /\ InHydrate(p) => lockfile.claim \in {None, lock[p].claim}
    /\ pc[p] = "place" /\ Content[cur[p]].line # None =>
          lock[p].claim = [key |-> KeyOf[OwnSlot(cur[p])], line |-> Content[cur[p]].line]

ClaimInv == \A p \in Proc : ClaimFits(p)

\* Dropping a pin and recording an archive leave the claim alone.
LEMMA ClaimUntouched ==
    ASSUME NEW L \in Locks
    PROVE  /\ \A r : DropStalePin(L, r).claim = L.claim
           /\ \A a, parent : Recorded(L, a, parent).claim = L.claim
  <1>1. L \in [pins : [Slot -> Pin \union {None}], claim : Claim \union {None}]
    BY DEF Locks
  <1>2. \A r : DropStalePin(L, r).claim = L.claim
    BY <1>1 DEF DropStalePin, RemoveEntry
  <1>3. \A M : M.claim = L.claim /\ DOMAIN M = {"pins", "claim"} =>
           \A s, a, parent : UpsertEntry(M, s, a, parent).claim = L.claim
    BY DEF UpsertEntry
  <1>4. ASSUME NEW f
        PROVE  [L EXCEPT !.pins = f].claim = L.claim /\ DOMAIN [L EXCEPT !.pins = f] = {"pins", "claim"}
    BY <1>1
  <1>5. \A a, parent : Recorded(L, a, parent).claim = L.claim
    BY <1>3, <1>4 DEF Recorded
  <1> QED
    BY <1>2, <1>5

\* A claim on file is kept by whoever claims the statusLine.
LEMMA ClaimStep ==
    ASSUME TypeInv, NEW p \in Proc, ClaimFits(p), MirrorAndClaim(p)
    PROVE  ClaimFits(p)'
  <1> USE DEF disk, world, copies, work, Goto
  <1> DEFINE a == cur[p]
             c == [key |-> KeyOf[OwnSlot(a)], line |-> Content[a].line]
  <1>i. CommandType
    BY DEF TypeInv, TypeOK
  <1>1. /\ pc[p] = "mirror" /\ pc'[p] \in {"place", "record"} /\ cur'[p] = a
        /\ lockfile' = lockfile /\ lock[p] \in Locks
    BY <1>i DEF MirrorAndClaim, CommandType
  <1>2. lockfile.claim \in {None, lock[p].claim}
    BY <1>1 DEF ClaimFits, InHydrate
  <1>3. CASE Content[a].line = None
    <2>1. lock'[p] = lock[p]
      BY <1>3 DEF MirrorAndClaim
    <2> QED
      BY <2>1, <1>1, <1>2, <1>3 DEF ClaimFits
  <1>4. CASE Content[a].line # None
    <2>1. lock'[p] = UpsertStatusLine(lock[p], KeyOf[OwnSlot(a)], Content[a].line)
      BY <1>4, <1>i DEF MirrorAndClaim, CommandType
    <2>2. lock'[p].claim = c
      BY <2>1, <1>1 DEF UpsertStatusLine, Locks
    <2>3. lock[p].claim \in {None, c}
      BY <1>4 DEF MirrorAndClaim, LineConflicts
    <2> QED
      BY <2>2, <2>3, <1>1, <1>2 DEF ClaimFits, OwnSlot
  <1> QED
    BY <1>3, <1>4

\* After these steps the command is not hydrating a package.
LEMMA LeavesHydrate ==
    ASSUME TypeInv, NEW p \in Proc,
           \/ Start(p) \/ ReadLock(p) \/ ReadManifest(p) \/ SeedLock(p) \/ SeedManifest(p)
           \/ PlanNothing(p) \/ FetchFails(p) \/ ClaimFails(p) \/ RecordFails(p) \/ PlanRemove(p)
           \/ Unplace(p) \/ Unmirror(p) \/ SaveManifest(p) \/ SaveLock(p) \/ Exit(p) \/ Die(p)
    PROVE  ~InHydrate(p)'
  <1> USE DEF disk, world, copies, work, Goto, AfterLock, AfterManifest, FirstRead
  <1>i. CommandType
    BY DEF TypeInv, TypeOK
  <1>1. CASE Start(p) \/ ReadLock(p) \/ ReadManifest(p) \/ SeedLock(p) \/ SeedManifest(p)
    BY <1>1, <1>i DEF Start, ReadLock, ReadManifest, SeedLock, SeedManifest, CommandType, InHydrate
  <1>2. CASE FetchFails(p) \/ ClaimFails(p) \/ RecordFails(p) \/ PlanRemove(p) \/ Unplace(p) \/ SaveManifest(p)
    BY <1>2, <1>i DEF FetchFails, ClaimFails, RecordFails, PlanRemove, Unplace, SaveManifest,
       CommandType, InHydrate
  <1>3. CASE PlanNothing(p) \/ Unmirror(p) \/ SaveLock(p) \/ Exit(p) \/ Die(p)
    BY <1>3, <1>i DEF PlanNothing, Unmirror, SaveLock, Exit, Die, Forget, CommandType, InHydrate
  <1> QED
    BY <1>1, <1>2, <1>3

LEMMA StepClaim ==
    ASSUME TypeInv, NEW p \in Proc, AsRead(p), ClaimFits(p), Start(p) \/ Step(p) \/ Die(p)
    PROVE  ClaimFits(p)'
  <1> USE DEF disk, world, copies, work, Goto, AfterLock, AfterManifest, FirstRead
  <1>i. CommandType
    BY DEF TypeInv, TypeOK
  <1>1. CASE \/ Start(p) \/ ReadLock(p) \/ ReadManifest(p) \/ SeedLock(p) \/ SeedManifest(p)
             \/ PlanNothing(p) \/ FetchFails(p) \/ ClaimFails(p) \/ RecordFails(p) \/ PlanRemove(p)
             \/ Unplace(p) \/ Unmirror(p) \/ SaveManifest(p) \/ SaveLock(p) \/ Exit(p) \/ Die(p)
    <2>1. ~InHydrate(p)'
      BY <1>1, LeavesHydrate
    <2> QED
      BY <2>1 DEF ClaimFits, InHydrate
  <1>2. CASE PlanInstall(p) \/ PlanInstallAll(p)
    <2>1. /\ pc[p] = "plan" /\ pc'[p] = "fetch" /\ lock' = lock /\ lockfile' = lockfile
      BY <1>2, <1>i DEF PlanInstall, PlanInstallAll, CommandType
    <2> QED
      BY <2>1 DEF AsRead, LockRead, ClaimFits
  <1>3. CASE Fetch(p) \/ Record(p)
    <2>1. /\ InHydrate(p) /\ pc'[p] \notin {"place"} /\ lockfile' = lockfile
          /\ \/ lock'[p] = DropStalePin(lock[p], Wanted(p))
             \/ lock'[p] = Recorded(lock[p], cur[p], Head(agenda[p]).parent)
      BY <1>3, <1>i DEF Fetch, Record, CommandType, InHydrate
    <2>2. lock'[p].claim = lock[p].claim
      BY <2>1, <1>i, ClaimUntouched DEF CommandType
    <2> QED
      BY <2>1, <2>2 DEF ClaimFits
  <1>4. CASE MirrorAndClaim(p)
    BY <1>4, ClaimStep
  <1>5. CASE PlaceAsset(p)
    <2>1. pc[p] = "place" /\ UNCHANGED <<lock, lockfile, cur>>
      BY <1>5 DEF PlaceAsset
    <2> QED
      BY <2>1 DEF ClaimFits, InHydrate, OwnSlot
  <1> QED
    BY <1>1, <1>2, <1>3, <1>4, <1>5 DEF Step

LEMMA NextClaim ==
    ASSUME OneAtATime, TypeInv, ReadInv, ClaimInv, [Next]_vars
    PROVE  ClaimInv'
  <1>1. ASSUME NEW p \in Proc, Start(p) \/ Step(p) \/ Die(p)
        PROVE  ClaimInv'
    <2>1. ClaimFits(p)'
      BY <1>1, StepClaim DEF ReadInv, ClaimInv
    <2>2. \A q \in Proc : q = p
      BY DEF OneAtATime
    <2> QED
      BY <2>1, <2>2 DEF ClaimInv
  <1>2. CASE World \/ UNCHANGED vars
    <2>1. UNCHANGED <<lockfile, pc, lock, cur>>
      BY <1>2 DEF World, Publish, SetTargets, EditManifest, vars, disk, copies, work
    <2> QED
      BY <2>1 DEF ClaimInv, ClaimFits, InHydrate, OwnSlot
  <1> QED
    BY <1>1, <1>2 DEF Next

LEMMA ClaimedLineStep ==
    ASSUME TypeInv, ClaimInv, [Next]_vars, NEW t \in Target,
           lockfile.claim # None, settings'[t] # settings[t]
    PROVE  settings'[t] \in {lockfile.claim, None}
  <1> USE DEF disk, world, copies, work, Goto
  <1>i. CommandType /\ DiskType
    BY DEF TypeInv, TypeOK
  <1>1. ASSUME NEW p \in Proc, PlaceAsset(p)
        PROVE  settings'[t] = lockfile.claim
    <2>1. /\ pc[p] = "place" /\ Content[cur[p]].line # None /\ Head(left[p]) = OwnSlot(cur[p])
          /\ settings'[t] = [key |-> KeyOf[OwnSlot(cur[p])], line |-> Content[cur[p]].line]
      BY <1>1, <1>i DEF PlaceAsset, DiskType
    <2> QED
      BY <2>1 DEF ClaimInv, ClaimFits, InHydrate
  <1>2. ASSUME NEW p \in Proc, Unplace(p)
        PROVE  settings'[t] = None
    BY <1>2, <1>i DEF Unplace, DiskType
  <1>3. ASSUME NEW p \in Proc, Start(p) \/ Step(p) \/ Die(p), ~PlaceAsset(p), ~Unplace(p)
        PROVE  settings' = settings
    <2>1. CASE \/ Start(p) \/ ReadLock(p) \/ SeedLock(p) \/ ReadManifest(p) \/ SeedManifest(p)
               \/ PlanInstall(p) \/ PlanInstallAll(p) \/ PlanNothing(p) \/ Fetch(p) \/ FetchFails(p)
      BY <2>1 DEF Start, ReadLock, SeedLock, ReadManifest, SeedManifest, PlanInstall, PlanInstallAll,
         PlanNothing, Fetch, FetchFails
    <2>2. CASE \/ MirrorAndClaim(p) \/ ClaimFails(p) \/ Record(p) \/ RecordFails(p) \/ PlanRemove(p)
               \/ Unmirror(p) \/ SaveManifest(p) \/ SaveLock(p) \/ Exit(p) \/ Die(p)
      BY <2>2 DEF MirrorAndClaim, ClaimFails, Record, RecordFails, PlanRemove, Unmirror, SaveManifest,
         SaveLock, Exit, Die
    <2> QED
      BY <1>3, <2>1, <2>2 DEF Step
  <1>4. World \/ UNCHANGED vars => settings' = settings
    BY DEF World, Publish, SetTargets, EditManifest, vars
  <1> QED
    BY <1>1, <1>2, <1>3, <1>4 DEF Next

\* As long as one command runs at a time, a statusLine the lockfile has an owner
\* for is replaced by that owner's only, or taken away with it, whatever other
\* packages bring a statusLine and wherever commands die (upsertStatusLine is
\* called before anything is placed).
THEOREM ClaimRespected == OneAtATime => (Spec => ClaimedLineKept)
  <1> SUFFICES ASSUME OneAtATime PROVE Spec => ClaimedLineKept
    OBVIOUS
  <1>1. Init => ClaimInv
    BY DEF Init, ClaimInv, ClaimFits, InHydrate
  <1>2. TypeInv /\ ReadInv /\ [Next]_vars => ReadInv'
    BY NextRead
  <1>3. TypeInv /\ ReadInv /\ ClaimInv /\ [Next]_vars => ClaimInv'
    BY NextClaim
  <1>4. TypeInv /\ ClaimInv /\ [Next]_vars =>
           [\A t \in Target : lockfile.claim # None /\ settings'[t] # settings[t] =>
                settings'[t] \in {lockfile.claim, None}]_vars
    BY ClaimedLineStep
  <1> QED
    BY <1>1, <1>2, <1>3, <1>4, TypeInvInit, TypeInvStep, InitRead, PTL DEF Spec, ClaimedLineKept
(***************************************************************************)
(* The agenda.  Every declared dep gets a task of its own, and what is not *)
(* a dependency of another package is a task the manifest accounts for.    *)
(***************************************************************************)

\* A manifest has a package under its own slot only.
Filed(m) == \A s \in Slot : m[s] # None => SlotOf[m[s].pkg] = s

CheckoutsFiled == \A c \in Checkouts : Filed(c.manifest)

FiledInv == Filed(manifest) /\ \A p \in Proc : Filed(man[p])

Loaded(p) == pc[p] \in {"mirror", "place", "record"}

Accounted(p) ==
    \A i \in DOMAIN agenda[p] : agenda[p][i].parent = None =>
        /\ ~agenda[p][i].late
        /\ NewManifest(p)[SlotOf[agenda[p][i].ref.pkg]] # None

\* The archive fetched for a task as it was planned is of the package it names.
AsTasked(p) == ~Head(agenda[p]).late => OwnSlot(cur[p]) = SlotOf[Head(agenda[p]).ref.pkg]

AgendaInv ==
    \A p \in Proc : (InHydrate(p) => Accounted(p)) /\ (Loaded(p) => AsTasked(p))

\* The manifest a command will write, entry by entry.
LEMMA NewManifestOf ==
    ASSUME TypeInv, NEW p \in Proc, pc[p] # "idle"
    PROVE  /\ man[p] \in Manifests
           /\ cmd[p].op = "install" =>
                 /\ RootSlot(p) \in Slot /\ cmd[p].ref \in Ref /\ cmd[p].ref # None
                 /\ NewManifest(p)[RootSlot(p)] = cmd[p].ref
                 /\ \A s \in Slot \ {RootSlot(p)} : NewManifest(p)[s] = man[p][s]
           /\ cmd[p].op = "remove" =>
                 /\ RootSlot(p) \in Slot
                 /\ NewManifest(p)[RootSlot(p)] = None
                 /\ \A s \in Slot \ {RootSlot(p)} : NewManifest(p)[s] = man[p][s]
           /\ cmd[p].op = "installAll" => NewManifest(p) = man[p]
           /\ cmd[p].op \in {"install", "installAll", "remove"}
  <1>1. man[p] \in Manifests /\ cmd[p] \in Command
    BY DEF TypeInv, TypeOK, CommandType, Shape
  <1>2. cmd[p].op \in {"install", "remove"} => cmd[p].ref \in Ref
    BY <1>1, InstallAssumption DEF Command
  <1>3. cmd[p].op \in {"install", "remove"} => RootSlot(p) \in Slot
    BY <1>2 DEF RootSlot, Ref
  <1>4. cmd[p].op \in {"install", "installAll", "remove"}
    BY <1>1 DEF Command
  <1>5. cmd[p].ref \in Ref => cmd[p].ref # None
    OBVIOUS
  <1> QED
    BY <1>1, <1>2, <1>3, <1>4, <1>5 DEF NewManifest, Manifests

\* Looking a reference up in the lock does not lead to another slot.
LEMMA ResolvedSlot ==
    ASSUME NEW L \in Locks, OwnPins(L), NEW d \in Ref
    PROVE  SlotOf[ResolvePkgRef(L, d).pkg] = SlotOf[d.pkg]
  BY DEF Ref, ResolvePkgRef, GetEntry, OwnPins, OwnSlot, RefOf

\* Lining up a set of slots leaves none out.
LEMMA OrdersOnto ==
    ASSUME NEW S \in SUBSET Slot, NEW q \in Orders(S)
    PROVE  \A s \in S : \E i \in DOMAIN q : q[i] = s
  <1> DEFINE n == Cardinality(S)
  <1>1. IsFiniteSet(S) /\ n \in Nat
    BY FS_Subset, FS_CardinalityType
  <1>2. q \in [1 .. n -> S] /\ \A i, j \in 1 .. n : q[i] = q[j] => i = j
    BY DEF Orders
  <1>3. q \in Injection(1 .. n, S)
    BY <1>2 DEF Injection, IsInjective
  <1>4. Cardinality(1 .. n) = n
    BY <1>1, FS_Interval
  <1>5. q \in Surjection(1 .. n, S)
    BY <1>1, <1>3, <1>4, FS_Injection
  <1> QED
    BY <1>2, <1>5 DEF Surjection

\* What `aipkg install` plans: a task for every declared dep and no other.
LEMMA PlannedTasks ==
    ASSUME TypeInv, PinInv, FiledInv, NEW p \in Proc, PlanInstallAll(p)
    PROVE  /\ \A i \in DOMAIN agenda'[p] :
                 /\ agenda'[p][i].parent = None /\ ~agenda'[p][i].late
                 /\ SlotOf[agenda'[p][i].ref.pkg] \in Slot
                 /\ man[p][SlotOf[agenda'[p][i].ref.pkg]] # None
           /\ \A s \in Slot : man[p][s] # None =>
                 \E i \in DOMAIN agenda'[p] : SlotOf[agenda'[p][i].ref.pkg] = s
  <1> DEFINE deps == {s \in Slot : man[p][s] # None}
             task(s) == [ref    |-> ResolvePkgRef(lock[p], man[p][s]),
                         parent |-> None,
                         late   |-> FALSE]
  <1>i. CommandType /\ OwnPins(lock[p]) /\ Filed(man[p])
    BY DEF TypeInv, TypeOK, PinInv, PinSafe, FiledInv
  <1>1. PICK q \in Orders(deps) : agenda' = [agenda EXCEPT ![p] = [i \in DOMAIN q |-> task(q[i])]]
    BY DEF PlanInstallAll
  <1>2. agenda'[p] = [i \in DOMAIN q |-> task(q[i])]
    BY <1>1, <1>i DEF CommandType
  <1>3. /\ \A i \in DOMAIN q : q[i] \in deps
        /\ \A s \in deps : \E i \in DOMAIN q : q[i] = s
    <2>1. deps \in SUBSET Slot /\ q \in Orders(deps)
      BY <1>1
    <2> HIDE DEF deps
    <2> QED
      BY <2>1, OrdersType, OrdersOnto
  <1>4. ASSUME NEW s \in deps
        PROVE  SlotOf[task(s).ref.pkg] = s
    <2>1. man[p][s] \in Ref /\ SlotOf[man[p][s].pkg] = s
      BY <1>i DEF CommandType, Manifests, Filed
    <2> QED
      BY <2>1, <1>i, ResolvedSlot DEF CommandType
  <1>5. \A s \in deps : task(s).parent = None /\ ~task(s).late
    OBVIOUS
  <1> HIDE DEF task
  <1>6. DOMAIN agenda'[p] = DOMAIN q /\ \A i \in DOMAIN q : agenda'[p][i] = task(q[i])
    BY <1>2
  <1>7. ASSUME NEW i \in DOMAIN agenda'[p]
        PROVE  /\ agenda'[p][i].parent = None /\ ~agenda'[p][i].late
               /\ SlotOf[agenda'[p][i].ref.pkg] \in deps
    BY <1>3, <1>4, <1>5, <1>6
  <1>8. ASSUME NEW s \in deps
        PROVE  \E i \in DOMAIN agenda'[p] : SlotOf[agenda'[p][i].ref.pkg] = s
    BY <1>3, <1>4, <1>6
  <1> QED
    BY <1>7, <1>8

\* What is fetched for a task is of the package it asks for.
LEMMA FetchedAsked ==
    ASSUME TypeInv, PinInv, NEW p \in Proc, Fetch(p)
    PROVE  /\ cur'[p] \in Archive
           /\ OwnSlot(cur'[p]) = SlotOf[Wanted(p).pkg]
           /\ SlotOf[Wanted(p).pkg] \in Slot
           /\ lock'[p] = DropStalePin(lock[p], Wanted(p))
  <1>1. PICK a \in Archive : Serves(Wanted(p), a) /\ cur' = [cur EXCEPT ![p] = a]
    BY DEF Fetch
  <1>2. Wanted(p) \in Ref /\ CommandType
    BY HydrateTypes DEF Fetch, Goto, InHydrate, TypeInv, TypeOK
  <1>3. cur'[p] = a /\ lock'[p] = DropStalePin(lock[p], Wanted(p))
    BY <1>1, <1>2 DEF CommandType, Fetch
  <1>4. PICK v \in Ver : registry[Wanted(p).pkg][v] = a
    BY <1>1 DEF Serves
  <1>5. a # None
    OBVIOUS
  <1>6. Content[a].pkg = Wanted(p).pkg
    BY <1>2, <1>4, <1>5 DEF PinInv, NamedAsServed, Ref
  <1> QED
    BY <1>2, <1>3, <1>6 DEF OwnSlot, Ref

\* Dependencies put before the rest of an agenda: what is on it then, and what
\* stays on it.
LEMMA PutBefore ==
    ASSUME NEW d \in Seq(Item), NEW q \in Seq(Item), q # <<>>
    PROVE  /\ \A i \in DOMAIN (d \o Tail(q)) :
                 \/ \E j \in DOMAIN d : (d \o Tail(q))[i] = d[j]
                 \/ \E j \in DOMAIN q : (d \o Tail(q))[i] = q[j]
           /\ \A j \in DOMAIN q : j # 1 => \E i \in DOMAIN (d \o Tail(q)) : (d \o Tail(q))[i] = q[j]
  <1> DEFINE t == Tail(q)
  <1>1. /\ t \in Seq(Item) /\ Len(t) = Len(q) - 1
        /\ \A j \in 1 .. Len(t) : t[j] = q[j + 1]
    BY HeadTailProperties
  <1>2. /\ Len(d) \in Nat /\ DOMAIN d = 1 .. Len(d)
        /\ Len(q) \in Nat /\ DOMAIN q = 1 .. Len(q)
        /\ Len(t) \in Nat
    BY <1>1, LenProperties
  <1> HIDE DEF t
  <1>3. /\ d \o t \in Seq(Item) /\ Len(d \o t) = Len(d) + Len(t)
        /\ \A j \in 1 .. Len(d) + Len(t) :
              (d \o t)[j] = IF j <= Len(d) THEN d[j] ELSE t[j - Len(d)]
    <2>1. t \in Seq(Item)
      BY <1>1
    <2> QED
      BY <2>1, ConcatProperties, Zenon
  <1>4. DOMAIN (d \o t) = 1 .. Len(d) + Len(t)
    BY <1>3, LenProperties
  <1>5. ASSUME NEW i \in 1 .. Len(d) + Len(t)
        PROVE  \/ \E j \in DOMAIN d : (d \o t)[i] = d[j]
               \/ \E j \in DOMAIN q : (d \o t)[i] = q[j]
    <2>1. CASE i <= Len(d)
      BY <2>1, <1>2, <1>3
    <2>2. CASE ~(i <= Len(d))
      <3>1. i - Len(d) \in 1 .. Len(t) /\ i - Len(d) + 1 \in 1 .. Len(q)
        BY <1>1, <1>2, <2>2
      <3>2. (d \o t)[i] = q[i - Len(d) + 1]
        BY <1>1, <1>3, <2>2, <3>1
      <3> QED
        BY <3>1, <3>2, <1>2
    <2> QED
      BY <2>1, <2>2
  <1>6. ASSUME NEW j \in DOMAIN q, j # 1
        PROVE  \E i \in 1 .. Len(d) + Len(t) : (d \o t)[i] = q[j]
    <2>1. /\ j - 1 \in 1 .. Len(t) /\ Len(d) + j - 1 \in 1 .. Len(d) + Len(t)
          /\ ~(Len(d) + j - 1 <= Len(d)) /\ (Len(d) + j - 1) - Len(d) = j - 1 /\ (j - 1) + 1 = j
      BY <1>1, <1>2, <1>6
    <2>2. (d \o t)[Len(d) + j - 1] = t[j - 1]
      BY <2>1, <1>3
    <2>3. t[j - 1] = q[j]
      BY <2>1, <1>1
    <2> QED
      BY <2>1, <2>2, <2>3
  <1> QED
    BY <1>4, <1>5, <1>6 DEF t
LEMMA StepFiled ==
    ASSUME TypeInv, NEW p \in Proc, Filed(manifest), Filed(man[p]), Start(p) \/ Step(p) \/ Die(p)
    PROVE  Filed(manifest)' /\ Filed(man[p])'
  <1> USE DEF disk, world, copies, work, Goto
  <1>i. CommandType
    BY DEF TypeInv, TypeOK
  <1>1. Filed(NoDeps)
    BY DEF Filed, NoDeps
  <1>2. ASSUME pc[p] = "saveManifest"
        PROVE  Filed(NewManifest(p))
    BY <1>2, NewManifestOf DEF Filed, RootSlot
  <1>3. CASE Start(p) \/ ReadLock(p) \/ SeedLock(p) \/ ReadManifest(p) \/ SeedManifest(p)
    <2>1. manifest' \in {manifest, NoDeps} /\ man'[p] \in {man[p], manifest}
      BY <1>3, <1>i DEF Start, ReadLock, SeedLock, ReadManifest, SeedManifest, CommandType
    <2> QED
      BY <2>1, <1>1 DEF Filed
  <1>4. CASE \/ PlanInstall(p) \/ PlanInstallAll(p) \/ Fetch(p) \/ FetchFails(p) \/ MirrorAndClaim(p)
             \/ ClaimFails(p) \/ PlaceAsset(p) \/ Record(p) \/ RecordFails(p) \/ PlanRemove(p) \/ Unplace(p)
    <2>1. manifest' = manifest /\ man' = man
      BY <1>4 DEF PlanInstall, PlanInstallAll, Fetch, FetchFails, MirrorAndClaim, ClaimFails, PlaceAsset,
         Record, RecordFails, PlanRemove, Unplace
    <2> QED
      BY <2>1 DEF Filed
  <1>5. CASE PlanNothing(p) \/ Unmirror(p) \/ SaveLock(p) \/ Exit(p) \/ Die(p)
    <2>1. manifest' = manifest /\ man'[p] \in {man[p], NoDeps}
      BY <1>5, <1>i DEF PlanNothing, Unmirror, SaveLock, Exit, Die, Forget, CommandType
    <2> QED
      BY <2>1, <1>1 DEF Filed
  <1>6. CASE SaveManifest(p)
    <2>1. pc[p] = "saveManifest" /\ manifest' = NewManifest(p) /\ man' = man
      BY <1>6 DEF SaveManifest
    <2> QED
      BY <2>1, <1>2 DEF Filed
  <1> QED
    BY <1>3, <1>4, <1>5, <1>6 DEF Step

\* The user declares a package under its own slot, too.
LEMMA WorldFiled ==
    ASSUME TypeInv, FiledInv, World
    PROVE  FiledInv'
  <1>1. man' = man
    BY DEF World, Publish, SetTargets, EditManifest, copies
  <1>2. ASSUME NEW r \in Request, EditManifest(r)
        PROVE  Filed(manifest')
    <2>1. manifest \in Manifests /\ manifest' = [manifest EXCEPT ![SlotOf[r.pkg]] = r]
      BY <1>2 DEF EditManifest, TypeInv, TypeOK, DiskType
    <2> QED
      BY <2>1 DEF FiledInv, Filed, Manifests
  <1>3. Filed(manifest')
    BY <1>2 DEF World, Publish, SetTargets, FiledInv, disk
  <1> QED
    BY <1>1, <1>3 DEF FiledInv, Filed

LEMMA NextFiled ==
    ASSUME OneAtATime, TypeInv, FiledInv, [Next]_vars
    PROVE  FiledInv'
  <1>1. ASSUME NEW p \in Proc, Start(p) \/ Step(p) \/ Die(p)
        PROVE  FiledInv'
    <2>1. Filed(manifest)' /\ Filed(man[p])'
      BY <1>1, StepFiled DEF FiledInv
    <2>2. \A q \in Proc : q = p
      BY DEF OneAtATime
    <2> QED
      BY <2>1, <2>2 DEF FiledInv
  <1>2. CASE UNCHANGED vars
    BY <1>2 DEF FiledInv, Filed, vars, disk, copies
  <1> QED
    BY <1>1, <1>2, WorldFiled DEF Next

\* The tasks of a command keep to what it was started for.
LEMMA StepAgenda ==
    ASSUME TypeInv, PinInv, FiledInv, NEW p \in Proc,
           InHydrate(p) => Accounted(p), Loaded(p) => AsTasked(p),
           Start(p) \/ Step(p) \/ Die(p)
    PROVE  (InHydrate(p) => Accounted(p))' /\ (Loaded(p) => AsTasked(p))'
  <1> USE DEF disk, world, copies, work, Goto
  <1>i. CommandType
    BY DEF TypeInv, TypeOK
  <1>1. CASE ~InHydrate(p)'
    BY <1>1 DEF InHydrate, Loaded
  <1>2. ASSUME InHydrate(p)'
        PROVE  \/ PlanInstall(p) \/ PlanInstallAll(p) \/ Fetch(p) \/ MirrorAndClaim(p)
               \/ PlaceAsset(p) \/ Record(p)
    BY <1>2, LeavesHydrate DEF Step
  <1>3. ASSUME UNCHANGED <<cmd, man>>
        PROVE  NewManifest(p)' = NewManifest(p) /\ RootSlot(p)' = RootSlot(p)
    BY <1>3 DEF NewManifest, RootSlot
  <1>4. CASE PlanInstall(p)
    <2>1. /\ cmd[p].op = "install" /\ pc[p] = "plan" /\ pc'[p] = "fetch" /\ UNCHANGED <<cmd, man>>
          /\ agenda'[p] = <<[ref |-> cmd[p].ref, parent |-> None, late |-> FALSE]>>
      BY <1>4, <1>i DEF PlanInstall, CommandType
    <2>2. NewManifest(p)[SlotOf[cmd[p].ref.pkg]] # None
      BY <2>1, NewManifestOf DEF RootSlot
    <2>3. Accounted(p)'
      BY <2>1, <2>2, <1>3 DEF Accounted
    <2> QED
      BY <2>1, <2>3 DEF Loaded
  <1>5. CASE PlanInstallAll(p)
    <2>1. /\ cmd[p].op = "installAll" /\ pc[p] = "plan" /\ pc'[p] = "fetch" /\ UNCHANGED <<cmd, man>>
      BY <1>5, <1>i DEF PlanInstallAll, CommandType
    <2>2. NewManifest(p)' = man[p]
      BY <2>1, <1>3, NewManifestOf
    <2>3. Accounted(p)'
      BY <1>5, <2>2, PlannedTasks DEF Accounted
    <2> QED
      BY <2>1, <2>3 DEF Loaded
  <1>6. CASE Fetch(p)
    <2>1. /\ InHydrate(p) /\ pc'[p] = "mirror" /\ UNCHANGED <<cmd, man, agenda>>
      BY <1>6, <1>i DEF Fetch, CommandType, InHydrate
    <2>2. AsTasked(p)'
      BY <1>6, <2>1, FetchedAsked DEF AsTasked, Wanted, OwnSlot
    <2> QED
      BY <2>1, <2>2, <1>3 DEF Accounted
  <1>7. CASE MirrorAndClaim(p) \/ PlaceAsset(p)
    <2>1. /\ InHydrate(p) /\ Loaded(p) /\ UNCHANGED <<cmd, man, agenda, cur>>
      BY <1>7, <1>i DEF MirrorAndClaim, PlaceAsset, CommandType, InHydrate, Loaded
    <2> QED
      BY <2>1, <1>3 DEF Accounted, AsTasked, OwnSlot
  <1>8. CASE Record(p)
    <2> DEFINE rest == DepItems(cur[p]) \o Tail(agenda[p])
    <2>1. /\ InHydrate(p) /\ pc'[p] \in {"fetch", "saveManifest"} /\ UNCHANGED <<cmd, man>>
          /\ agenda'[p] = rest /\ cur[p] \in Archive
      BY <1>8, <1>i DEF Record, CommandType, InHydrate, TypeInv, Shape
    <2>2. DepItems(cur[p]) \in Seq(Item) /\ agenda[p] \in Seq(Item) /\ agenda[p] # <<>>
      BY <2>1, DepItemsType, HydrateTypes
    <2>3. \A i \in DOMAIN rest : \/ \E j \in DOMAIN DepItems(cur[p]) : rest[i] = DepItems(cur[p])[j]
                                 \/ \E j \in DOMAIN agenda[p] : rest[i] = agenda[p][j]
      BY <2>2, PutBefore
    <2> HIDE DEF rest
    <2>4. \A j \in DOMAIN DepItems(cur[p]) : DepItems(cur[p])[j].parent # None
      <3>1. RefOf(cur[p]) # None
        BY <2>1, DecodedType
      <3> QED
        BY <3>1 DEF DepItems
    <2>5. \A i \in DOMAIN rest : rest[i].parent = None => \E j \in DOMAIN agenda[p] : rest[i] = agenda[p][j]
      BY <2>3, <2>4
    <2>6. Accounted(p)
      BY <2>1
    <2>7. Accounted(p)'
      BY <2>1, <2>5, <2>6, <1>3 DEF Accounted
    <2> QED
      BY <2>1, <2>7 DEF Loaded
  <1> QED
    BY <1>1, <1>2, <1>4, <1>5, <1>6, <1>7, <1>8

LEMMA NextAgenda ==
    ASSUME OneAtATime, TypeInv, PinInv, FiledInv, AgendaInv, [Next]_vars
    PROVE  AgendaInv'
  <1>1. ASSUME NEW p \in Proc, Start(p) \/ Step(p) \/ Die(p)
        PROVE  AgendaInv'
    <2>1. (InHydrate(p) => Accounted(p))' /\ (Loaded(p) => AsTasked(p))'
      BY <1>1, StepAgenda DEF AgendaInv
    <2>2. \A q \in Proc : q = p
      BY DEF OneAtATime
    <2> QED
      BY <2>1, <2>2 DEF AgendaInv
  <1>2. CASE World \/ UNCHANGED vars
    <2>1. UNCHANGED <<pc, cmd, man, agenda, cur>>
      BY <1>2 DEF World, Publish, SetTargets, EditManifest, vars, copies, work
    <2> QED
      BY <2>1 DEF AgendaInv, InHydrate, Loaded, Accounted, AsTasked, NewManifest, RootSlot, OwnSlot
  <1> QED
    BY <1>1, <1>2 DEF Next
(***************************************************************************)
(* What is locked at the top level is declared: on disk, and in the copies *)
(* a command works on.                                                     *)
(***************************************************************************)

Tracked(L, m) == \A s \in Slot : L.pins[s] # None /\ L.pins[s].parent = None => m[s] # None

CheckoutsTracked == \A c \in Checkouts : Tracked(c.lockfile, c.manifest)

\* The two writes at the end are not torn apart.
SavedWhole == "saveLock" \notin CrashPoints

ManifestRead(p) ==
    \/ pc[p] \in {"seedManifest", "plan"}
    \/ cmd[p].op # "install" /\ pc[p] \in {"readLock", "seedLock"}

Working(p) == InHydrate(p) \/ pc[p] \in {"unplace", "unmirror", "saveManifest"}

TrackedBy(p) ==
    /\ ManifestRead(p) => Tracked(lockfile, man[p])
    /\ Working(p) => Tracked(lock[p], NewManifest(p))
    /\ pc[p] = "saveLock" => Tracked(lock[p], manifest)

TrackInv ==
    /\ (\A p \in Proc : pc[p] # "saveLock") => Tracked(lockfile, manifest)
    /\ \A p \in Proc : TrackedBy(p)

\* The lockfile after an archive is recorded, entry by entry.
LEMMA RecordedEntries ==
    ASSUME NEW L \in Locks, NEW a \in Archive, NEW parent \in Ref \union {None}, NEW s \in Slot
    PROVE  Recorded(L, a, parent).pins[s] =
              IF L.pins[s] # None THEN L.pins[s]
              ELSE IF s \in Children(a) THEN [arc |-> a, parent |-> RefOf(a)]
              ELSE IF s = OwnSlot(a) THEN [arc |-> a, parent |-> parent]
              ELSE None
  <1> DEFINE bundled == [L EXCEPT !.pins =
                      [x \in Slot |-> IF x \in Children(a)
                                      THEN UpsertEntry(L, x, a, RefOf(a)).pins[x]
                                      ELSE L.pins[x]]]
  <1>0. L \in [pins : [Slot -> Pin \union {None}], claim : Claim \union {None}]
    BY DEF Locks
  <1>1. OwnSlot(a) \in Slot /\ OwnSlot(a) \notin Children(a)
    BY DecodedType DEF Children
  <1>2. ASSUME NEW x \in Slot
        PROVE  UpsertEntry(L, x, a, RefOf(a)).pins[x] =
                  IF L.pins[x] # None THEN L.pins[x] ELSE [arc |-> a, parent |-> RefOf(a)]
    BY <1>0 DEF UpsertEntry
  <1>3. /\ \A x \in Slot : bundled.pins[x] = IF x \in Children(a) /\ L.pins[x] = None
                                             THEN [arc |-> a, parent |-> RefOf(a)] ELSE L.pins[x]
        /\ DOMAIN bundled.pins = Slot /\ DOMAIN bundled = {"pins", "claim"}
    BY <1>0, <1>2
  <1> HIDE DEF bundled
  <1>4. Recorded(L, a, parent) = UpsertEntry(bundled, OwnSlot(a), a, parent)
    BY DEF Recorded, bundled
  <1>5. UpsertEntry(bundled, OwnSlot(a), a, parent).pins[s] =
            IF s = OwnSlot(a) /\ bundled.pins[s] = None THEN [arc |-> a, parent |-> parent]
            ELSE bundled.pins[s]
    BY <1>1, <1>3 DEF UpsertEntry
  <1> QED
    BY <1>1, <1>3, <1>4, <1>5

\* Giving up, or coming to the end without writing the lockfile.
LEMMA TrackQuits ==
    ASSUME SavedWhole, TypeInv, NEW p \in Proc, TrackedBy(p),
           pc[p] # "saveLock" => Tracked(lockfile, manifest),
           \/ PlanNothing(p) \/ Exit(p) \/ Die(p) \/ (Unmirror(p) /\ Forget(p))
           \/ FetchFails(p) \/ ClaimFails(p) \/ RecordFails(p)
    PROVE  Tracked(lockfile, manifest)' /\ TrackedBy(p)'
  <1> USE DEF disk, world, copies, work, Goto
  <1>i. CommandType
    BY DEF TypeInv, TypeOK
  <1>1. pc[p] # "saveLock"
    BY DEF PlanNothing, Exit, Die, Unmirror, FetchFails, ClaimFails, RecordFails, SavedWhole, Failures
  <1>2. UNCHANGED <<manifest, lockfile>>
    BY DEF PlanNothing, Exit, Die, Unmirror, FetchFails, ClaimFails, RecordFails
  <1>3. pc'[p] \in Failures \union {"idle"}
    BY <1>i DEF PlanNothing, Exit, Die, Unmirror, Forget, FetchFails, ClaimFails, RecordFails,
       CommandType, Failures
  <1> QED
    BY <1>1, <1>2, <1>3 DEF TrackedBy, ManifestRead, Working, InHydrate, Failures, Tracked

\* Starting, reading and seeding: the manifest a command has read accounts for
\* the lockfile.
LEMMA TrackReads ==
    ASSUME TypeInv, NEW p \in Proc, AsRead(p), TrackedBy(p),
           pc[p] # "saveLock" => Tracked(lockfile, manifest),
           Start(p) \/ ReadLock(p) \/ ReadManifest(p) \/ SeedLock(p) \/ SeedManifest(p)
    PROVE  Tracked(lockfile, manifest)' /\ TrackedBy(p)'
  <1> USE DEF disk, world, copies, work, Goto, AfterLock, AfterManifest
  <1>i. CommandType
    BY DEF TypeInv, TypeOK
  <1>e. \A m : Tracked(EmptyLock, m)
    BY DEF Tracked, EmptyLock
  <1>t. Tracked(lockfile, manifest)
    BY DEF Start, ReadLock, ReadManifest, SeedLock, SeedManifest
  <1>w. ~Working(p)' /\ pc'[p] # "saveLock"
    BY <1>i DEF Start, FirstRead, ReadLock, ReadManifest, SeedLock, SeedManifest, CommandType, Working, InHydrate
  <1>1. CASE Start(p)
    <2>1. PICK c \in Command : Goto(p, "idle", FirstRead(c.op)) /\ cmd' = [cmd EXCEPT ![p] = c]
      BY <1>1 DEF Start
    <2>2. ~ManifestRead(p)'
      BY <2>1, <1>i DEF FirstRead, CommandType, ManifestRead
    <2> QED
      BY <1>1, <2>2, <1>t, <1>w DEF Start, TrackedBy, Tracked
  <1>2. CASE ReadLock(p)
    <2>1. /\ UNCHANGED <<lockfile, manifest, man>>
          /\ ManifestRead(p)' => ManifestRead(p)
      BY <1>2, <1>i DEF ReadLock, CommandType, ManifestRead
    <2> QED
      BY <2>1, <1>t, <1>w DEF TrackedBy, Tracked
  <1>3. CASE ReadManifest(p)
    <2>1. UNCHANGED <<lockfile, manifest>> /\ man'[p] = manifest
      BY <1>3, <1>i DEF ReadManifest, CommandType
    <2> QED
      BY <2>1, <1>t, <1>w DEF TrackedBy, Tracked
  <1>4. CASE SeedLock(p)
    <2>1. lockfile' = EmptyLock
      BY <1>4 DEF SeedLock
    <2> QED
      BY <2>1, <1>e, <1>w DEF TrackedBy, Tracked
  <1>5. CASE SeedManifest(p)
    <2>1. /\ lockfile' = lockfile /\ manifest' = NoDeps /\ man[p] = NoDeps /\ man' = man
          /\ Tracked(lockfile, man[p])
      BY <1>5 DEF SeedManifest, AsRead, TrackedBy, ManifestRead
    <2> QED
      BY <2>1, <1>w DEF TrackedBy, Tracked
  <1> QED
    BY <1>1, <1>2, <1>3, <1>4, <1>5

\* At work: what the copy of the lockfile has at its top level, the manifest
\* that will be written accounts for.
LEMMA TrackWorks ==
    ASSUME TypeInv, NEW p \in Proc, AsRead(p), TrackedBy(p), InHydrate(p) => Accounted(p),
           Loaded(p) => AsTasked(p), pc[p] # "saveLock" => Tracked(lockfile, manifest),
           \/ PlanInstall(p) \/ PlanInstallAll(p) \/ Fetch(p) \/ MirrorAndClaim(p) \/ PlaceAsset(p)
           \/ Record(p) \/ PlanRemove(p) \/ Unplace(p) \/ (Unmirror(p) /\ ~Forget(p))
    PROVE  Tracked(lockfile, manifest)' /\ TrackedBy(p)'
  <1> USE DEF disk, world, copies, work, Goto
  <1>i. CommandType
    BY DEF TypeInv, TypeOK
  <1>k. /\ UNCHANGED <<manifest, lockfile, cmd, man>>
        /\ pc[p] \notin {"idle", "saveLock"}
        /\ pc'[p] \in {"fetch", "mirror", "place", "record", "saveManifest", "unplace", "unmirror"}
    <2>1. CASE PlanInstall(p) \/ PlanInstallAll(p) \/ Fetch(p) \/ MirrorAndClaim(p) \/ PlaceAsset(p)
      BY <2>1, <1>i DEF PlanInstall, PlanInstallAll, Fetch, MirrorAndClaim, PlaceAsset, CommandType
    <2>2. CASE Record(p) \/ PlanRemove(p) \/ Unplace(p) \/ (Unmirror(p) /\ ~Forget(p))
      BY <2>2, <1>i DEF Record, PlanRemove, Unplace, Unmirror, CommandType
    <2> QED
      BY <2>1, <2>2
  <1>m. NewManifest(p)' = NewManifest(p)
    BY <1>k DEF NewManifest, RootSlot
  <1>t. Tracked(lockfile, manifest)'
    BY <1>k DEF Tracked
  <1>f. SUFFICES Tracked(lock'[p], NewManifest(p))
    BY <1>k, <1>m, <1>t DEF TrackedBy, ManifestRead, Tracked
  <1>1. CASE PlanInstall(p) \/ PlanInstallAll(p)
    <2>1. /\ pc[p] = "plan" /\ lock' = lock /\ lock[p] = lockfile /\ cmd[p].op \in {"install", "installAll"}
          /\ Tracked(lockfile, man[p])
      BY <1>1 DEF PlanInstall, PlanInstallAll, AsRead, LockRead, TrackedBy, ManifestRead
    <2>2. \A s \in Slot : man[p][s] # None => NewManifest(p)[s] # None
      BY <2>1, NewManifestOf
    <2> QED
      BY <2>1, <2>2 DEF Tracked
  <1>2. CASE Fetch(p)
    <2>1. InHydrate(p) /\ lock'[p] = DropStalePin(lock[p], Wanted(p))
      BY <1>2, <1>i DEF Fetch, InHydrate, CommandType
    <2>2. \A s \in Slot : lock'[p].pins[s] \in {lock[p].pins[s], None}
      BY <2>1, HydrateTypes DEF DropStalePin, RemoveEntry, Locks
    <2> QED
      BY <2>1, <2>2 DEF TrackedBy, Working, Tracked
  <1>3. CASE MirrorAndClaim(p)
    <2>1. /\ InHydrate(p)
          /\ \/ lock'[p] = lock[p]
             \/ \E k, line : lock'[p] = UpsertStatusLine(lock[p], k, line)
      BY <1>3, <1>i DEF MirrorAndClaim, InHydrate, CommandType
    <2>2. lock'[p].pins = lock[p].pins
      BY <2>1, HydrateTypes DEF UpsertStatusLine, Locks
    <2> QED
      BY <2>1, <2>2 DEF TrackedBy, Working, Tracked
  <1>4. CASE PlaceAsset(p) \/ Unplace(p) \/ (Unmirror(p) /\ ~Forget(p))
    <2>1. Working(p) /\ lock' = lock
      BY <1>4 DEF PlaceAsset, Unplace, Unmirror, Working, InHydrate
    <2> QED
      BY <2>1 DEF TrackedBy
  <1>5. CASE Record(p)
    <2> DEFINE a == cur[p]
               item == Head(agenda[p])
    <2>1. /\ InHydrate(p) /\ Loaded(p) /\ a \in Archive /\ lock'[p] = Recorded(lock[p], a, item.parent)
      BY <1>5, <1>i DEF Record, InHydrate, Loaded, CommandType, TypeInv, Shape
    <2>2. /\ lock[p] \in Locks /\ item \in Item /\ RefOf(a) \in Ref
          /\ 1 \in DOMAIN agenda[p] /\ agenda[p][1] = item
      <3>1. agenda[p] \in Seq(Item) /\ agenda[p] # <<>> /\ lock[p] \in Locks /\ item \in Item
        BY <2>1, HydrateTypes
      <3>2. 1 \in DOMAIN agenda[p] /\ agenda[p][1] = item
        BY <3>1
      <3> QED
        BY <2>1, <3>1, <3>2, DecodedType
    <2> HIDE DEF item
    <2>p. item.parent \in Ref \union {None}
      BY <2>2 DEF Item
    <2>e. ASSUME NEW s \in Slot
          PROVE  lock'[p].pins[s] =
                    IF lock[p].pins[s] # None THEN lock[p].pins[s]
                    ELSE IF s \in Children(a) THEN [arc |-> a, parent |-> RefOf(a)]
                    ELSE IF s = OwnSlot(a) THEN [arc |-> a, parent |-> item.parent]
                    ELSE None
      BY <2>1, <2>2, <2>p, RecordedEntries
    <2>3. ASSUME NEW s \in Slot, lock[p].pins[s] = None, lock'[p].pins[s] # None, lock'[p].pins[s].parent = None
          PROVE  s = OwnSlot(a) /\ item.parent = None
      <3>1. RefOf(a) # None
        BY <2>2
      <3> QED
        BY <2>3, <2>e, <3>1
    <2>4. ASSUME item.parent = None
          PROVE  NewManifest(p)[OwnSlot(a)] # None
      <3>1. ~item.late /\ NewManifest(p)[SlotOf[item.ref.pkg]] # None
        BY <2>1, <2>2, <2>4 DEF Accounted
      <3>2. OwnSlot(a) = SlotOf[item.ref.pkg]
        BY <2>1, <3>1 DEF AsTasked, item
      <3> QED
        BY <3>1, <3>2
    <2>5. ASSUME NEW s \in Slot, lock[p].pins[s] # None
          PROVE  lock'[p].pins[s] = lock[p].pins[s]
      BY <2>2, <2>5, <2>e
    <2> QED
      BY <2>1, <2>3, <2>4, <2>5 DEF TrackedBy, Working, Tracked
  <1>6. CASE PlanRemove(p)
    <2>1. /\ pc[p] = "plan" /\ lock[p] = lockfile /\ cmd[p].op = "remove" /\ Tracked(lockfile, man[p])
          /\ lock'[p] = Cleared(lock[p], SubtreeOf(lock[p], RootSlot(p)) \union {RootSlot(p)})
      BY <1>6, <1>i DEF PlanRemove, AsRead, LockRead, TrackedBy, ManifestRead, CommandType
    <2>2. ASSUME NEW s \in Slot, lock'[p].pins[s] # None
          PROVE  s # RootSlot(p) /\ lock'[p].pins[s] = lock[p].pins[s]
      BY <2>1, <2>2 DEF Cleared
    <2>3. \A s \in Slot \ {RootSlot(p)} : NewManifest(p)[s] = man[p][s]
      BY <2>1, NewManifestOf
    <2> QED
      BY <2>1, <2>2, <2>3 DEF Tracked
  <1> QED
    BY <1>1, <1>2, <1>3, <1>4, <1>5, <1>6

\* Writing back: the manifest first, the lockfile it accounts for next.
LEMMA TrackSaves ==
    ASSUME TypeInv, NEW p \in Proc, TrackedBy(p), SaveManifest(p) \/ SaveLock(p)
    PROVE  /\ pc'[p] # "saveLock" => Tracked(lockfile, manifest)'
           /\ TrackedBy(p)'
  <1> USE DEF disk, world, copies, work, Goto
  <1>i. CommandType
    BY DEF TypeInv, TypeOK
  <1>1. CASE SaveManifest(p)
    <2>1. /\ pc[p] = "saveManifest" /\ pc'[p] = "saveLock" /\ manifest' = NewManifest(p) /\ lock' = lock
      BY <1>1, <1>i DEF SaveManifest, CommandType
    <2> QED
      BY <2>1 DEF TrackedBy, Working, ManifestRead, InHydrate, Tracked
  <1>2. CASE SaveLock(p)
    <2>1. /\ pc[p] = "saveLock" /\ pc'[p] = "idle" /\ manifest' = manifest /\ lockfile' = lock[p]
      BY <1>2, <1>i DEF SaveLock, Forget, CommandType
    <2> QED
      BY <2>1 DEF TrackedBy, Working, ManifestRead, InHydrate, Tracked
  <1> QED
    BY <1>1, <1>2

LEMMA NextTrack ==
    ASSUME OneAtATime, SavedWhole, TypeInv, ReadInv, AgendaInv, TrackInv, [Next]_vars
    PROVE  TrackInv'
  <1>1. ASSUME NEW p \in Proc, Start(p) \/ Step(p) \/ Die(p)
        PROVE  TrackInv'
    <2>1. \A q \in Proc : q = p
      BY DEF OneAtATime
    <2>2. /\ AsRead(p) /\ TrackedBy(p) /\ (InHydrate(p) => Accounted(p)) /\ (Loaded(p) => AsTasked(p))
          /\ pc[p] # "saveLock" => Tracked(lockfile, manifest)
      BY <2>1 DEF ReadInv, AgendaInv, TrackInv
    <2>3. TrackedBy(p)' /\ (pc'[p] # "saveLock" => Tracked(lockfile, manifest)')
      BY <1>1, <2>2, TrackQuits, TrackReads, TrackWorks, TrackSaves DEF Step
    <2> QED
      BY <2>1, <2>3 DEF TrackInv
  <1>2. CASE World
    <2>1. /\ UNCHANGED <<lockfile, pc, cmd, man, lock>>
      BY <1>2 DEF World, Publish, SetTargets, EditManifest, disk, copies
    <2>2. \A s \in Slot : manifest[s] # None => manifest'[s] # None
      <3>1. ASSUME NEW r \in Request, EditManifest(r)
            PROVE  \A s \in Slot : manifest[s] # None => manifest'[s] # None
        <4>1. manifest \in Manifests /\ manifest' = [manifest EXCEPT ![SlotOf[r.pkg]] = r] /\ r # None
          BY <3>1, InstallAssumption DEF EditManifest, TypeInv, TypeOK, DiskType
        <4> QED
          BY <4>1 DEF Manifests
      <3> QED
        BY <1>2, <3>1 DEF World, Publish, SetTargets, disk
    <2> QED
      BY <2>1, <2>2 DEF TrackInv, TrackedBy, ManifestRead, Working, InHydrate, NewManifest, RootSlot, Tracked
  <1>3. CASE UNCHANGED vars
    <2>1. UNCHANGED <<lockfile, manifest, pc, cmd, man, lock>>
      BY <1>3 DEF vars, disk, copies
    <2> QED
      BY <2>1 DEF TrackInv, TrackedBy, ManifestRead, Working, InHydrate, NewManifest, RootSlot, Tracked
  <1> QED
    BY <1>1, <1>2, <1>3 DEF Next

\* Between commands, every top-level pin of the lockfile is declared by the
\* manifest, as it was when the project was checked out: whatever is installed,
\* upgraded, removed or declared by hand, whatever fails and wherever commands
\* die, but for between the two writes (addPackageToManifest, removeAction).
\* Commands run one at a time, and no bundled asset has the slot of a package.
THEOREM TopLevelDeclared ==
    OneAtATime /\ SavedWhole /\ NoAliasing /\ CheckoutsFiled /\ CheckoutsTracked
        => (Spec => []TopLevelTracked)
  <1> SUFFICES ASSUME OneAtATime, SavedWhole, NoAliasing, CheckoutsFiled, CheckoutsTracked
               PROVE  Spec => []TopLevelTracked
    OBVIOUS
  <1>1. Init => FiledInv /\ AgendaInv /\ TrackInv
    <2> SUFFICES ASSUME Init PROVE FiledInv /\ AgendaInv /\ TrackInv
      OBVIOUS
    <2>1. Filed(manifest) /\ Tracked(lockfile, manifest)
      BY DEF Init, CheckoutsFiled, CheckoutsTracked
    <2>2. \A p \in Proc : pc[p] = "idle" /\ man[p] = NoDeps
      BY DEF Init
    <2> QED
      BY <2>1, <2>2 DEF FiledInv, Filed, NoDeps, AgendaInv, InHydrate, Loaded, TrackInv, TrackedBy,
         ManifestRead, Working
  <1>2. TypeInv /\ ReadInv /\ [Next]_vars => ReadInv'
    BY NextRead
  <1>3. TypeInv /\ PinInv /\ [Next]_vars => PinInv'
    BY PinInvStep
  <1>4. TypeInv /\ FiledInv /\ [Next]_vars => FiledInv'
    BY NextFiled
  <1>5. TypeInv /\ PinInv /\ FiledInv /\ AgendaInv /\ [Next]_vars => AgendaInv'
    BY NextAgenda
  <1>6. TypeInv /\ ReadInv /\ AgendaInv /\ TrackInv /\ [Next]_vars => TrackInv'
    BY NextTrack
  <1>7. TrackInv => TopLevelTracked
    BY DEF TrackInv, TopLevelTracked, Tracked
  <1>8. Init => PinInv
    BY PinInvInit
  <1> QED
    BY <1>1, <1>2, <1>3, <1>4, <1>5, <1>6, <1>7, <1>8, TypeInvInit, TypeInvStep, InitRead, PTL DEF Spec
(***************************************************************************)
(* What an install leaves behind.  Each package asked for is still on the  *)
(* agenda, or pinned with all its assets in place; the current archive     *)
(* disturbs what is in place only if recording it will be refused.         *)
(***************************************************************************)

Asked(p) == {s \in Slot : NewManifest(p)[s] # None /\ (cmd[p].op = "install" => s = RootSlot(p))}

Pending(p, s) ==
    \/ Loaded(p) /\ OwnSlot(cur[p]) = s
    \/ \E i \in DOMAIN agenda[p] : ~agenda[p][i].late /\ SlotOf[agenda[p][i].ref.pkg] = s

Lies(p, a) ==
    /\ MirrorOn => mirrored[Content[a].pkg] = a
    /\ \A i \in DOMAIN tgts[p], x \in AssetSet(a) : placed[tgts[p][i]][x] = a

PinnedTo(L, x, a) == L.pins[x] # None /\ L.pins[x].arc = a

InPlace(p, s) ==
    \E a \in Archive :
        /\ OwnSlot(a) = s
        /\ \A x \in AssetSet(a) \union {s} : PinnedTo(lock[p], x, a)
        /\ Lies(p, a)

Doomed(p) == Loaded(p) /\ RecordConflict(lock[p], cur[p])

Served(p) ==
    /\ InHydrate(p) /\ ~Doomed(p) => \A s \in Asked(p) : Pending(p, s) \/ InPlace(p, s)
    /\ pc[p] = "saveManifest" /\ cmd[p].op # "remove" => \A s \in Asked(p) : InPlace(p, s)

\* While assets are placed: the agents served so far have them all, and the one
\* at hand those that are not left.
Progress(p) ==
    /\ pc[p] = "place" =>
          /\ MirrorOn => mirrored[Content[cur[p]].pkg] = cur[p]
          /\ \A k \in DOMAIN left[p] : left[p][k] \in AssetSet(cur[p])
          /\ \A i \in DOMAIN tgts[p], x \in AssetSet(cur[p]) :
                \/ placed[tgts[p][i]][x] = cur[p]
                \/ \E j \in DOMAIN todo[p] :
                      /\ todo[p][j] = tgts[p][i]
                      /\ j = 1 => \E k \in DOMAIN left[p] : left[p][k] = x
    /\ pc[p] = "record" => Lies(p, cur[p])

SyncInv == \A p \in Proc : Progress(p) /\ Served(p)

\* What is in place stays there under a step that leaves its entries, its mirror
\* and its assets alone.
LEMMA StaysInPlace ==
    ASSUME NEW p \in Proc, NEW s, NEW a \in Archive, OwnSlot(a) = s,
           \A x \in AssetSet(a) \union {s} : PinnedTo(lock[p], x, a),
           \A x \in AssetSet(a) \union {s} : lock'[p].pins[x] = lock[p].pins[x],
           Lies(p, a), tgts'[p] = tgts[p],
           MirrorOn => mirrored'[Content[a].pkg] = mirrored[Content[a].pkg],
           \A i \in DOMAIN tgts[p], x \in AssetSet(a) :
              placed'[tgts[p][i]][x] = placed[tgts[p][i]][x]
    PROVE  InPlace(p, s)'
  <1>1. \A x \in AssetSet(a) \union {s} : PinnedTo(lock'[p], x, a)
    BY DEF PinnedTo
  <1>2. Lies(p, a)'
    BY DEF Lies, AssetSet
  <1> QED
    BY <1>1, <1>2 DEF InPlace, AssetSet, OwnSlot, PinnedTo

\* The slot of a package is no other package's asset.
LEMMA SlotsApart ==
    ASSUME NoAliasing, NEW a \in Archive, NEW b \in Archive, OwnSlot(a) # OwnSlot(b)
    PROVE  OwnSlot(a) \notin AssetSet(b) \union {OwnSlot(b)}
  BY DecodedType DEF NoAliasing, Children, OwnSlot

\* Planning puts all that is asked for on the agenda.
LEMMA SyncPlan ==
    ASSUME TypeInv, PinInv, FiledInv, NEW p \in Proc, PlanInstall(p) \/ PlanInstallAll(p)
    PROVE  Progress(p)' /\ Served(p)'
  <1> USE DEF disk, world, copies, work, Goto
  <1>i. CommandType
    BY DEF TypeInv, TypeOK
  <1>1. pc[p] = "plan" /\ pc'[p] = "fetch" /\ UNCHANGED <<cmd, man>>
    BY <1>i DEF PlanInstall, PlanInstallAll, CommandType
  <1>2. Asked(p)' = Asked(p)
    BY <1>1 DEF Asked, NewManifest, RootSlot
  <1>3. ASSUME NEW s \in Asked(p)
        PROVE  Pending(p, s)'
    <2>1. CASE PlanInstall(p)
      <3>1. /\ cmd[p].op = "install"
            /\ agenda'[p] = <<[ref |-> cmd[p].ref, parent |-> None, late |-> FALSE]>>
        BY <2>1, <1>i DEF PlanInstall, CommandType
      <3>2. s = SlotOf[cmd[p].ref.pkg]
        BY <3>1 DEF Asked, RootSlot
      <3>3. 1 \in DOMAIN agenda'[p] /\ ~agenda'[p][1].late /\ agenda'[p][1].ref = cmd[p].ref
        BY <3>1
      <3> QED
        BY <3>2, <3>3 DEF Pending
    <2>2. CASE PlanInstallAll(p)
      <3>1. cmd[p].op = "installAll"
        BY <2>2 DEF PlanInstallAll
      <3>2. s \in Slot /\ man[p][s] # None
        BY <3>1, <1>1, NewManifestOf DEF Asked
      <3> QED
        BY <2>2, <3>2, PlannedTasks DEF Pending
    <2> QED
      BY <2>1, <2>2
  <1> QED
    BY <1>1, <1>2, <1>3 DEF Progress, Served

\* A stale pin is dropped only for what is then on its way again.
LEMMA SyncFetch ==
    ASSUME NoAliasing, TypeInv, PinInv, NEW p \in Proc, Served(p), Fetch(p)
    PROVE  Progress(p)' /\ Served(p)'
  <1> USE DEF disk, world, copies, work, Goto
  <1> DEFINE g == SlotOf[Wanted(p).pkg]
             c == cur'[p]
  <1>i. CommandType
    BY DEF TypeInv, TypeOK
  <1>1. /\ pc[p] = "fetch" /\ pc'[p] = "mirror" /\ UNCHANGED <<cmd, man, agenda, tgts, mirrored, placed>>
    BY <1>i DEF Fetch, CommandType
  <1>2. Asked(p)' = Asked(p)
    BY <1>1 DEF Asked, NewManifest, RootSlot
  <1>3. /\ c \in Archive /\ OwnSlot(c) = g
        /\ lock'[p] = DropStalePin(lock[p], Wanted(p)) /\ lock[p] \in Locks
    BY <1>i, FetchedAsked DEF CommandType
  <1>4. \A x \in Slot : x # g => lock'[p].pins[x] = lock[p].pins[x]
    BY <1>3 DEF DropStalePin, RemoveEntry, Locks
  <1>5. ASSUME NEW s \in Asked(p)
        PROVE  (Pending(p, s) \/ InPlace(p, s))'
    <2>0. InHydrate(p) /\ ~Doomed(p) /\ ~Loaded(p)
      BY <1>1 DEF InHydrate, Doomed, Loaded
    <2>1. Pending(p, s) \/ InPlace(p, s)
      BY <2>0 DEF Served
    <2>2. CASE Pending(p, s)
      BY <2>0, <2>2, <1>1 DEF Pending
    <2>3. CASE s = g
      <3>1. Loaded(p)' /\ OwnSlot(cur[p])' = s
        BY <2>3, <1>1, <1>3 DEF Loaded, OwnSlot
      <3> QED
        BY <3>1 DEF Pending
    <2>4. CASE InPlace(p, s) /\ s # g
      <3>1. PICK a \in Archive : /\ OwnSlot(a) = s
                                 /\ \A x \in AssetSet(a) \union {s} : PinnedTo(lock[p], x, a)
                                 /\ Lies(p, a)
        BY <2>4 DEF InPlace
      <3>2. g \notin AssetSet(a) \union {s} /\ AssetSet(a) \union {s} \subseteq Slot
        BY <3>1, <2>4, <1>3, SlotsApart, DecodedType
      <3>3. \A x \in AssetSet(a) \union {s} : lock'[p].pins[x] = lock[p].pins[x]
        BY <3>2, <1>4
      <3>4. InPlace(p, s)'
        BY <3>1, <3>3, <1>1, StaysInPlace
      <3> QED
        BY <3>4
    <2> QED
      BY <2>1, <2>2, <2>3, <2>4
  <1> QED
    BY <1>1, <1>2, <1>5 DEF Progress, Served

\* The mirror of another package is left alone.
LEMMA SyncMirror ==
    ASSUME TypeInv, NEW p \in Proc, Served(p), MirrorAndClaim(p)
    PROVE  Progress(p)' /\ Served(p)'
  <1> USE DEF disk, world, copies, work, Goto
  <1> DEFINE c == cur[p]
  <1>i. CommandType /\ DiskType
    BY DEF TypeInv, TypeOK
  <1>1. /\ pc[p] = "mirror" /\ c \in Archive
        /\ pc'[p] = IF Content[c].assets = <<>> THEN "record" ELSE "place"
        /\ todo'[p] = tgts[p] /\ left'[p] = Content[c].assets
        /\ UNCHANGED <<cmd, man, agenda, tgts, placed, cur>>
    BY <1>i DEF MirrorAndClaim, CommandType, TypeInv, Shape
  <1>2. Asked(p)' = Asked(p)
    BY <1>1 DEF Asked, NewManifest, RootSlot
  <1>3. lock'[p].pins = lock[p].pins
    <2>1. /\ lock[p] \in Locks
          /\ \/ lock'[p] = lock[p]
             \/ \E k, line : lock'[p] = UpsertStatusLine(lock[p], k, line)
      BY <1>i DEF MirrorAndClaim, CommandType
    <2> QED
      BY <2>1 DEF UpsertStatusLine, Locks
  <1>4. /\ MirrorOn => mirrored'[Content[c].pkg] = c
        /\ \A g \in Pkg : g # Content[c].pkg => mirrored'[g] = mirrored[g]
    <2>1. Content[c].pkg \in Pkg
      BY <1>1, DecodedType
    <2> QED
      BY <2>1, <1>i DEF MirrorAndClaim, Mirror, DiskType
  <1>5. Progress(p)'
    <2>1. Content[c].assets = <<>> => AssetSet(c) = {}
      BY DEF AssetSet
    <2>2. \A k \in DOMAIN Content[c].assets : Content[c].assets[k] \in AssetSet(c)
      BY DEF AssetSet
    <2>3. \A x \in AssetSet(c) : \E k \in DOMAIN Content[c].assets : Content[c].assets[k] = x
      BY DEF AssetSet
    <2>4. AssetSet(c)' = AssetSet(c)
      BY <1>1 DEF AssetSet
    <2>5. CASE Content[c].assets = <<>>
      BY <2>1, <2>4, <2>5, <1>1, <1>4 DEF Progress, Lies
    <2>6. CASE Content[c].assets # <<>>
      BY <2>2, <2>3, <2>4, <2>6, <1>1, <1>4 DEF Progress
    <2> QED
      BY <2>5, <2>6
  <1>6. Doomed(p)' <=> Doomed(p)
    BY <1>1, <1>3 DEF Doomed, Loaded, RecordConflict, Conflicts, AssetSet, OwnSlot
  <1>7. ASSUME NEW s \in Asked(p), ~Doomed(p)
        PROVE  (Pending(p, s) \/ InPlace(p, s))'
    <2>0. InHydrate(p) /\ Loaded(p) /\ Loaded(p)'
      BY <1>1 DEF InHydrate, Loaded
    <2>1. Pending(p, s) \/ InPlace(p, s)
      BY <2>0, <1>7 DEF Served
    <2>2. CASE Pending(p, s)
      BY <2>0, <2>2, <1>1 DEF Pending, OwnSlot
    <2>3. CASE InPlace(p, s) /\ ~Pending(p, s)
      <3>1. PICK a \in Archive : /\ OwnSlot(a) = s
                                 /\ \A x \in AssetSet(a) \union {s} : PinnedTo(lock[p], x, a)
                                 /\ Lies(p, a)
        BY <2>3 DEF InPlace
      <3>2. Content[a].pkg # Content[c].pkg /\ Content[a].pkg \in Pkg
        BY <3>1, <2>0, <2>3, DecodedType DEF Pending, OwnSlot
      <3>3. InPlace(p, s)'
        BY <3>1, <3>2, <1>1, <1>3, <1>4, StaysInPlace
      <3> QED
        BY <3>3
    <2> QED
      BY <2>1, <2>2, <2>3
  <1> QED
    BY <1>1, <1>2, <1>5, <1>6, <1>7 DEF Served
\* The first element of a sequence and the rest of it.
LEMMA RestOf ==
    ASSUME NEW S, NEW q \in Seq(S), q # <<>>
    PROVE  /\ 1 \in DOMAIN q /\ q[1] = Head(q) /\ Head(q) \in S
           /\ Len(q) \in Nat /\ DOMAIN q = 1 .. Len(q)
           /\ DOMAIN Tail(q) = 1 .. (Len(q) - 1)
           /\ \A j \in DOMAIN Tail(q) : j + 1 \in DOMAIN q /\ Tail(q)[j] = q[j + 1]
           /\ \A j \in DOMAIN q : j # 1 => j - 1 \in DOMAIN Tail(q) /\ Tail(q)[j - 1] = q[j]
           /\ Len(q) = 1 => \A j \in DOMAIN q : j = 1
  <1>1. /\ Len(q) \in Nat /\ DOMAIN q = 1 .. Len(q) /\ Len(q) # 0
    BY EmptySeq, LenProperties
  <1>2. /\ Tail(q) \in Seq(S) /\ Len(Tail(q)) = Len(q) - 1
        /\ \A j \in 1 .. Len(Tail(q)) : Tail(q)[j] = q[j + 1]
    BY HeadTailProperties
  <1>3. DOMAIN Tail(q) = 1 .. (Len(q) - 1)
    BY <1>2, LenProperties
  <1>4. 1 \in DOMAIN q /\ q[1] = Head(q) /\ Head(q) \in S
    BY <1>1
  <1> QED
    BY <1>1, <1>2, <1>3, <1>4

\* An asset put in place is one of the archive's own, and one step further.
LEMMA ProgressPlace ==
    ASSUME TypeInv, NEW p \in Proc, Progress(p), PlaceAsset(p)
    PROVE  Progress(p)'
  <1> USE DEF disk, world, copies, work, Goto
  <1> DEFINE c == cur[p]
             t == Head(todo[p])
             x0 == Head(left[p])
             last == Len(left[p]) = 1
  <1>i. CommandType /\ DiskType
    BY DEF TypeInv, TypeOK
  <1>1. /\ pc[p] = "place" /\ c \in Archive /\ Content[c].assets \in Seq(Slot)
        /\ todo[p] \in Seq(Target) /\ todo[p] # <<>> /\ left[p] \in Seq(Slot) /\ left[p] # <<>>
    BY <1>i, DecodedType DEF PlaceAsset, TypeInv, Shape, CommandType
  <1>2. /\ pc'[p] = IF last /\ Len(todo[p]) = 1 THEN "record" ELSE "place"
        /\ left'[p] = IF last THEN Content[c].assets ELSE Tail(left[p])
        /\ todo'[p] = IF last THEN Tail(todo[p]) ELSE todo[p]
        /\ UNCHANGED <<tgts, mirrored, cur>>
    BY <1>1, <1>i DEF PlaceAsset, CommandType
  <1>3. /\ t \in Target /\ x0 \in Slot
        /\ \A u \in Target, x \in Slot : placed'[u][x] = IF u = t /\ x = x0 THEN c ELSE placed[u][x]
    <2>1. t \in Target /\ x0 \in Slot
      BY <1>1
    <2> QED
      BY <2>1, <1>i DEF PlaceAsset, DiskType
  <1>4. /\ AssetSet(c)' = AssetSet(c) /\ AssetSet(c) \subseteq Slot
        /\ \A k \in DOMAIN Content[c].assets : Content[c].assets[k] \in AssetSet(c)
        /\ \A x \in AssetSet(c) : \E k \in DOMAIN Content[c].assets : Content[c].assets[k] = x
    BY <1>1, <1>2, DecodedType DEF AssetSet
  <1>5. /\ MirrorOn => mirrored[Content[c].pkg] = c
        /\ \A k \in DOMAIN left[p] : left[p][k] \in AssetSet(c)
        /\ \A i \in DOMAIN tgts[p], x \in AssetSet(c) :
              \/ placed[tgts[p][i]][x] = c
              \/ \E j \in DOMAIN todo[p] :
                    /\ todo[p][j] = tgts[p][i]
                    /\ j = 1 => \E k \in DOMAIN left[p] : left[p][k] = x
    BY <1>1 DEF Progress
  <1>6. \A i \in DOMAIN tgts[p] : tgts[p][i] \in Target
    BY <1>i DEF CommandType
  <1>7. \A k \in DOMAIN left'[p] : left'[p][k] \in AssetSet(c)
    <2>1. CASE last
      BY <2>1, <1>2, <1>4
    <2>2. CASE ~last
      BY <2>2, <1>1, <1>2, <1>5, RestOf
    <2> QED
      BY <2>1, <2>2
  <1> HIDE DEF t, x0
  <1>h. todo[p][1] = t /\ left[p][1] = x0
    BY <1>1, RestOf DEF t, x0
  <1>8. ASSUME NEW i \in DOMAIN tgts[p], NEW x \in AssetSet(c), placed'[tgts[p][i]][x] # c
        PROVE  \E j \in DOMAIN todo'[p] :
                  /\ todo'[p][j] = tgts[p][i]
                  /\ j = 1 => \E k \in DOMAIN left'[p] : left'[p][k] = x
    <2>0. /\ tgts[p][i] \in Target /\ x \in Slot
          /\ ~(tgts[p][i] = t /\ x = x0) /\ placed[tgts[p][i]][x] # c
      BY <1>3, <1>4, <1>6, <1>8
    <2>1. PICK j \in DOMAIN todo[p] : /\ todo[p][j] = tgts[p][i]
                                      /\ j = 1 => \E k \in DOMAIN left[p] : left[p][k] = x
      BY <1>5, <2>0
    <2>2. CASE j = 1
      <3>1. tgts[p][i] = t /\ x # x0
        BY <2>0, <2>1, <2>2, <1>h
      <3>2. PICK k \in DOMAIN left[p] : left[p][k] = x
        BY <2>1, <2>2
      <3>3. k # 1
        BY <3>1, <3>2, <1>h
      <3>4. ~last /\ k - 1 \in DOMAIN Tail(left[p]) /\ Tail(left[p])[k - 1] = x
        BY <3>2, <3>3, <1>1, RestOf
      <3>5. todo'[p] = todo[p] /\ left'[p] = Tail(left[p])
        BY <3>4, <1>2
      <3> QED
        BY <2>1, <2>2, <3>4, <3>5
    <2>3. CASE j # 1 /\ ~last
      BY <2>1, <2>3, <1>2
    <2>4. CASE j # 1 /\ last
      <3>1. j - 1 \in DOMAIN Tail(todo[p]) /\ Tail(todo[p])[j - 1] = tgts[p][i]
        BY <2>1, <2>4, <1>1, RestOf
      <3>2. \E k \in DOMAIN left'[p] : left'[p][k] = x
        BY <2>4, <1>2, <1>4
      <3>3. todo'[p] = Tail(todo[p])
        BY <2>4, <1>2
      <3> QED
        BY <3>1, <3>2, <3>3
    <2> QED
      BY <2>2, <2>3, <2>4
  <1>9. ASSUME pc'[p] = "record"
        PROVE  \A i \in DOMAIN tgts[p], x \in AssetSet(c) : placed'[tgts[p][i]][x] = c
    <2>1. DOMAIN todo'[p] = {}
      <3>1. Len(todo[p]) = 1 /\ todo'[p] = Tail(todo[p])
        BY <1>9, <1>2
      <3>2. DOMAIN Tail(todo[p]) = 1 .. 0
        BY <3>1, <1>1, RestOf
      <3> QED
        BY <3>1, <3>2
    <2> QED
      BY <2>1, <1>8
  <1>10. CASE pc'[p] = "place"
    <2>1. MirrorOn => mirrored'[Content[c].pkg] = c
      BY <1>2, <1>5
    <2>2. \A i \in DOMAIN tgts[p], x \in AssetSet(c) :
             \/ placed'[tgts[p][i]][x] = c
             \/ \E j \in DOMAIN todo'[p] :
                   /\ todo'[p][j] = tgts[p][i]
                   /\ j = 1 => \E k \in DOMAIN left'[p] : left'[p][k] = x
      BY <1>8
    <2>3. cur'[p] = c /\ tgts'[p] = tgts[p] /\ AssetSet(cur[p])' = AssetSet(c)
      BY <1>2, <1>4
    <2> HIDE DEF c
    <2> QED
      BY <2>1, <2>2, <2>3, <1>7, <1>10 DEF Progress
  <1>11. CASE pc'[p] = "record"
    BY <1>2, <1>4, <1>5, <1>9, <1>11 DEF Progress, Lies
  <1> QED
    BY <1>2, <1>10, <1>11

\* It is no asset of what is in place, unless recording it will be refused.
LEMMA SyncPlace ==
    ASSUME TypeInv, NEW p \in Proc, Progress(p), Served(p), PlaceAsset(p)
    PROVE  Served(p)'
  <1> USE DEF disk, world, copies, work, Goto
  <1> DEFINE c == cur[p]
             x0 == Head(left[p])
  <1>i. CommandType /\ DiskType
    BY DEF TypeInv, TypeOK
  <1>1. /\ pc[p] = "place" /\ pc'[p] \in {"place", "record"} /\ c \in Archive
        /\ todo[p] \in Seq(Target) /\ todo[p] # <<>> /\ left[p] \in Seq(Slot) /\ left[p] # <<>>
        /\ UNCHANGED <<cmd, man, agenda, tgts, lock, mirrored, cur>>
    BY <1>i DEF PlaceAsset, TypeInv, Shape, CommandType
  <1>2. Asked(p)' = Asked(p)
    BY <1>1 DEF Asked, NewManifest, RootSlot
  <1>3. \A u \in Target, x \in Slot : x # x0 => placed'[u][x] = placed[u][x]
    BY <1>1, <1>i DEF PlaceAsset, DiskType
  <1>4. x0 \in AssetSet(c)
    BY <1>1, RestOf DEF Progress
  <1>5. Doomed(p)' <=> Doomed(p)
    BY <1>1 DEF Doomed, Loaded, RecordConflict, Conflicts, AssetSet, OwnSlot
  <1>6. ASSUME NEW s \in Asked(p), ~Doomed(p)
        PROVE  (Pending(p, s) \/ InPlace(p, s))'
    <2>0. InHydrate(p) /\ Loaded(p) /\ Loaded(p)'
      BY <1>1 DEF InHydrate, Loaded
    <2>1. Pending(p, s) \/ InPlace(p, s)
      BY <2>0, <1>6 DEF Served
    <2>2. CASE Pending(p, s)
      BY <2>0, <2>2, <1>1 DEF Pending, OwnSlot
    <2>3. CASE InPlace(p, s) /\ ~Pending(p, s)
      <3>1. PICK a \in Archive : /\ OwnSlot(a) = s
                                 /\ \A x \in AssetSet(a) \union {s} : PinnedTo(lock[p], x, a)
                                 /\ Lies(p, a)
        BY <2>3 DEF InPlace
      <3>2. a # c
        BY <3>1, <2>0, <2>3 DEF Pending
      <3>3. x0 \notin AssetSet(a)
        BY <3>1, <3>2, <1>4, <1>6, <2>0 DEF Doomed, RecordConflict, Conflicts, PinnedTo
      <3>4. AssetSet(a) \subseteq Slot /\ \A i \in DOMAIN tgts[p] : tgts[p][i] \in Target
        BY <1>i, DecodedType DEF CommandType
      <3>5. \A i \in DOMAIN tgts[p], x \in AssetSet(a) : placed'[tgts[p][i]][x] = placed[tgts[p][i]][x]
        BY <3>3, <3>4, <1>3
      <3>6. InPlace(p, s)'
        BY <3>1, <3>5, <1>1, StaysInPlace
      <3> QED
        BY <3>6
    <2> QED
      BY <2>1, <2>2, <2>3
  <1> QED
    BY <1>1, <1>2, <1>5, <1>6 DEF Served

\* The current archive is in place and pinned; what was in place stays.
LEMMA SyncRecord ==
    ASSUME TypeInv, NEW p \in Proc, Loaded(p) => AsTasked(p), Progress(p), Served(p), Record(p)
    PROVE  Progress(p)' /\ Served(p)'
  <1> USE DEF disk, world, copies, work, Goto
  <1> DEFINE c == cur[p]
             item == Head(agenda[p])
             rest == DepItems(c) \o Tail(agenda[p])
  <1>i. CommandType
    BY DEF TypeInv, TypeOK
  <1>1. /\ pc[p] = "record" /\ pc'[p] = IF rest = <<>> THEN "saveManifest" ELSE "fetch"
        /\ lock'[p] = Recorded(lock[p], c, item.parent) /\ agenda'[p] = rest
        /\ ~RecordConflict(lock[p], c)
        /\ UNCHANGED <<cmd, man, tgts, cur, placed, mirrored>>
    BY <1>i DEF Record, CommandType
  <1>2. /\ InHydrate(p) /\ Loaded(p) /\ ~Doomed(p) /\ Lies(p, c) /\ AsTasked(p)
    BY <1>1 DEF InHydrate, Loaded, Doomed, Progress
  <1>3. /\ c \in Archive /\ lock[p] \in Locks /\ item \in Item
        /\ agenda[p] \in Seq(Item) /\ agenda[p] # <<>> /\ DepItems(c) \in Seq(Item)
    <2>1. c \in Archive
      BY <1>1 DEF TypeInv, Shape
    <2> QED
      BY <2>1, <1>2, HydrateTypes, DepItemsType
  <1>4. item.parent \in Ref \union {None}
    BY <1>3 DEF Item
  <1>5. \A j \in DOMAIN agenda[p] : j # 1 => \E i \in DOMAIN rest : rest[i] = agenda[p][j]
    BY <1>3, PutBefore
  <1>6. agenda[p][1] = item
    BY <1>3, RestOf
  <1> HIDE DEF rest, item
  <1>7. Asked(p)' = Asked(p)
    BY <1>1 DEF Asked, NewManifest, RootSlot
  <1>e. ASSUME NEW x \in Slot
        PROVE  lock'[p].pins[x] =
                  IF lock[p].pins[x] # None THEN lock[p].pins[x]
                  ELSE IF x \in Children(c) THEN [arc |-> c, parent |-> RefOf(c)]
                  ELSE IF x = OwnSlot(c) THEN [arc |-> c, parent |-> item.parent]
                  ELSE None
    BY <1>1, <1>3, <1>4, RecordedEntries
  <1>8. ASSUME NEW s, s = OwnSlot(c)
        PROVE  InPlace(p, s)'
    <2>0. PICK a \in Archive : a = c
      BY <1>3
    <2>1. /\ OwnSlot(a) = s /\ s \in Slot /\ Children(a) = AssetSet(a) \ {s} /\ AssetSet(a) \subseteq Slot
          /\ [arc |-> a, parent |-> RefOf(a)] \in Pin /\ [arc |-> a, parent |-> item.parent] \in Pin
      BY <2>0, <1>4, <1>8, DecodedType DEF Pin, Children
    <2>2. [arc |-> a, parent |-> RefOf(a)] # None /\ [arc |-> a, parent |-> item.parent] # None
      BY <2>1
    <2>3. ASSUME NEW x \in AssetSet(a) \union {s}
          PROVE  PinnedTo(lock'[p], x, a)
      <3>1. x \in Slot /\ (x \in Children(a) \/ x = s)
        BY <2>1
      <3>2. lock[p].pins[x] # None => lock[p].pins[x].arc = a
        BY <2>0, <1>1, <1>8 DEF RecordConflict, Conflicts
      <3>3. lock'[p].pins[x] = IF lock[p].pins[x] # None THEN lock[p].pins[x]
                               ELSE IF x \in Children(a) THEN [arc |-> a, parent |-> RefOf(a)]
                               ELSE [arc |-> a, parent |-> item.parent]
        BY <3>1, <2>0, <1>8, <1>e
      <3> QED
        BY <3>2, <3>3, <2>2 DEF PinnedTo
    <2>4. Lies(p, a)'
      BY <2>0, <1>1, <1>2 DEF Lies, AssetSet
    <2> QED
      BY <2>1, <2>3, <2>4 DEF InPlace, PinnedTo, AssetSet, OwnSlot, Lies
  <1>9. ASSUME NEW s \in Asked(p)
        PROVE  InPlace(p, s)' \/ (\E i \in DOMAIN rest : ~rest[i].late /\ SlotOf[rest[i].ref.pkg] = s)
    <2>1. Pending(p, s) \/ InPlace(p, s)
      BY <1>2 DEF Served
    <2>2. CASE s = OwnSlot(c)
      BY <2>2, <1>8
    <2>3. CASE Pending(p, s) /\ s # OwnSlot(c)
      <3>1. PICK j \in DOMAIN agenda[p] : ~agenda[p][j].late /\ SlotOf[agenda[p][j].ref.pkg] = s
        BY <2>3 DEF Pending
      <3>2. j # 1
        BY <3>1, <2>3, <1>2, <1>6 DEF AsTasked, item
      <3> QED
        BY <3>1, <3>2, <1>5
    <2>4. CASE InPlace(p, s)
      <3>1. PICK a \in Archive : /\ OwnSlot(a) = s
                                 /\ \A x \in AssetSet(a) \union {s} : PinnedTo(lock[p], x, a)
                                 /\ Lies(p, a)
        BY <2>4 DEF InPlace
      <3>2. AssetSet(a) \union {s} \subseteq Slot
        BY <3>1, DecodedType
      <3>3. \A x \in AssetSet(a) \union {s} : lock'[p].pins[x] = lock[p].pins[x]
        BY <3>1, <3>2, <1>e DEF PinnedTo
      <3>4. InPlace(p, s)'
        BY <3>1, <3>3, <1>1, StaysInPlace
      <3> QED
        BY <3>4
    <2> QED
      BY <2>1, <2>2, <2>3, <2>4
  <1>10. Progress(p)'
    BY <1>1 DEF Progress
  <1>11. CASE rest = <<>>
    <2>1. DOMAIN rest = {}
      BY <1>11
    <2> QED
      BY <2>1, <1>1, <1>7, <1>9, <1>10, <1>11 DEF Served, InHydrate
  <1>12. CASE rest # <<>>
    BY <1>1, <1>7, <1>9, <1>10, <1>12 DEF Served, Pending
  <1> QED
    BY <1>11, <1>12

\* Where nothing is installed, nothing is to be in place.
LEMMA SyncElse ==
    ASSUME TypeInv, NEW p \in Proc,
           \/ Start(p) \/ ReadLock(p) \/ ReadManifest(p) \/ SeedLock(p) \/ SeedManifest(p)
           \/ PlanNothing(p) \/ FetchFails(p) \/ ClaimFails(p) \/ RecordFails(p) \/ PlanRemove(p)
           \/ Unplace(p) \/ Unmirror(p) \/ SaveManifest(p) \/ SaveLock(p) \/ Exit(p) \/ Die(p)
    PROVE  Progress(p)' /\ Served(p)'
  <1> USE DEF disk, world, copies, work, Goto, AfterLock, AfterManifest, FirstRead
  <1>i. CommandType
    BY DEF TypeInv, TypeOK
  <1>1. ~InHydrate(p)'
    BY LeavesHydrate
  <1>2. pc'[p] = "saveManifest" => Unmirror(p) /\ ~Forget(p)
    <2>1. CASE Start(p) \/ ReadLock(p) \/ ReadManifest(p) \/ SeedLock(p) \/ SeedManifest(p)
      BY <2>1, <1>i DEF Start, ReadLock, ReadManifest, SeedLock, SeedManifest, CommandType
    <2>2. CASE FetchFails(p) \/ ClaimFails(p) \/ RecordFails(p) \/ PlanRemove(p) \/ Unplace(p) \/ SaveManifest(p)
      BY <2>2, <1>i DEF FetchFails, ClaimFails, RecordFails, PlanRemove, Unplace, SaveManifest, CommandType
    <2>3. CASE PlanNothing(p) \/ Unmirror(p) \/ SaveLock(p) \/ Exit(p) \/ Die(p)
      BY <2>3, <1>i DEF PlanNothing, Unmirror, SaveLock, Exit, Die, Forget, CommandType
    <2> QED
      BY <2>1, <2>2, <2>3
  <1>3. pc'[p] = "saveManifest" => cmd'[p].op = "remove"
    BY <1>2 DEF Unmirror, TypeInv, Shape
  <1> QED
    BY <1>1, <1>3 DEF Progress, Served, InHydrate

LEMMA NextSync ==
    ASSUME OneAtATime, NoAliasing, TypeInv, PinInv, FiledInv, AgendaInv, SyncInv, [Next]_vars
    PROVE  SyncInv'
  <1>1. ASSUME NEW p \in Proc, Start(p) \/ Step(p) \/ Die(p)
        PROVE  SyncInv'
    <2>1. Progress(p) /\ Served(p) /\ (Loaded(p) => AsTasked(p))
      BY DEF SyncInv, AgendaInv
    <2>2. Progress(p)' /\ Served(p)'
      BY <1>1, <2>1, SyncPlan, SyncFetch, SyncMirror, ProgressPlace, SyncPlace, SyncRecord, SyncElse DEF Step
    <2>3. \A q \in Proc : q = p
      BY DEF OneAtATime
    <2> QED
      BY <2>2, <2>3 DEF SyncInv
  <1>2. CASE World \/ UNCHANGED vars
    <2>1. UNCHANGED <<pc, cmd, man, tgts, lock, agenda, cur, todo, left, placed, mirrored>>
      BY <1>2 DEF World, Publish, SetTargets, EditManifest, vars, disk, copies, work
    <2>2. ASSUME NEW p \in Proc
          PROVE  Progress(p)' /\ Served(p)'
      <3>1. Progress(p) /\ Served(p)
        BY DEF SyncInv
      <3>2. /\ Asked(p)' = Asked(p) /\ (Doomed(p)' <=> Doomed(p))
            /\ (InHydrate(p)' <=> InHydrate(p)) /\ (Loaded(p)' <=> Loaded(p))
        BY <2>1 DEF Asked, NewManifest, RootSlot, Doomed, InHydrate, Loaded, RecordConflict, Conflicts,
           AssetSet, OwnSlot
      <3>3. /\ \A s : Pending(p, s)' <=> Pending(p, s)
            /\ \A s : InPlace(p, s)' <=> InPlace(p, s)
        BY <2>1 DEF Pending, InPlace, Lies, PinnedTo, Loaded, OwnSlot, AssetSet
      <3>4. Progress(p)'
        BY <2>1, <3>1 DEF Progress, Lies, AssetSet
      <3> QED
        BY <2>1, <3>1, <3>2, <3>3, <3>4 DEF Served
    <2> QED
      BY <2>2 DEF SyncInv
  <1> QED
    BY <1>1, <1>2 DEF Next

\* When an install is about to write its files back, each package it was asked
\* for is pinned, all its assets lie where every agent looks for them, and the
\* mirror has that archive: no later package of the same command has taken the
\* place of an earlier one (hydratePkg places before it records, and recording
\* refuses a slot that is another archive's).  Commands run one at a time, and
\* no bundled asset has the slot of a package.
THEOREM InstallComplete ==
    OneAtATime /\ NoAliasing /\ CheckoutsFiled => (Spec => []InstalledInSync)
  <1> SUFFICES ASSUME OneAtATime, NoAliasing, CheckoutsFiled
               PROVE  Spec => []InstalledInSync
    OBVIOUS
  <1>1. Init => FiledInv /\ AgendaInv /\ SyncInv
    <2> SUFFICES ASSUME Init PROVE FiledInv /\ AgendaInv /\ SyncInv
      OBVIOUS
    <2>1. Filed(manifest)
      BY DEF Init, CheckoutsFiled
    <2>2. \A p \in Proc : pc[p] = "idle" /\ man[p] = NoDeps
      BY DEF Init
    <2> QED
      BY <2>1, <2>2 DEF FiledInv, Filed, NoDeps, AgendaInv, InHydrate, Loaded, SyncInv, Progress, Served
  <1>2. TypeInv /\ PinInv /\ [Next]_vars => PinInv'
    BY PinInvStep
  <1>3. TypeInv /\ FiledInv /\ [Next]_vars => FiledInv'
    BY NextFiled
  <1>4. TypeInv /\ PinInv /\ FiledInv /\ AgendaInv /\ [Next]_vars => AgendaInv'
    BY NextAgenda
  <1>5. TypeInv /\ PinInv /\ FiledInv /\ AgendaInv /\ SyncInv /\ [Next]_vars => SyncInv'
    BY NextSync
  <1>6. SyncInv => InstalledInSync
    <2> SUFFICES ASSUME SyncInv, NEW p \in Proc, pc[p] = "saveManifest", cmd[p].op # "remove",
                        NEW s \in Asked(p)
                 PROVE  /\ lock[p].pins[s] # None
                        /\ MirrorOn => mirrored[Content[lock[p].pins[s].arc].pkg] = lock[p].pins[s].arc
                        /\ \A i \in DOMAIN tgts[p], x \in AssetSet(lock[p].pins[s].arc) :
                              placed[tgts[p][i]][x] = lock[p].pins[s].arc
      BY DEF InstalledInSync, Asked
    <2>1. InPlace(p, s)
      BY DEF SyncInv, Served
    <2> QED
      BY <2>1 DEF InPlace, PinnedTo, Lies
  <1>7. Init => PinInv
    BY PinInvInit
  <1> QED
    BY <1>1, <1>2, <1>3, <1>4, <1>5, <1>6, <1>7, TypeInvInit, TypeInvStep, PTL DEF Spec
=============================================================================
