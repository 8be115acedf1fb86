------------------------------ MODULE Lockfile ------------------------------
(***************************************************************************)
(* The lockfile as the CLI holds it in memory between reading and writing  *)
(* aipkg.lock (cli/src/files/lockfile.ts), and the identifiers it is keyed *)
(* by (archive/src/ref.ts).  Every operator maps lockfile contents to      *)
(* lockfile contents; the processes that call them are in Install.         *)
(*                                                                         *)
(* An archive is a model value standing for the bytes of one published     *)
(* tarball: two archives are equal exactly when their sha256 is.  What a   *)
(* decoded archive holds is the constant function Content.  A lock entry   *)
(* {aipkgRef, version, sha, parent} is the pair [arc, parent], its ref,    *)
(* version and sha being those of the archive.                             *)
(***************************************************************************)
EXTENDS Naturals, Sequences, FiniteSets

CONSTANTS
    Pkg,       \* packages: type/org/key?/slug, without a version
    Ver,       \* published version numbers, ordered
    Latest,    \* the version of a reference that names none
    Slot,      \* (deps bucket, entry key) pairs: where an entry is tracked
    SlotOf,    \* the slot of a package; two packages may share one
    Bucket,    \* the position of a slot's bucket in DEPS_KEYS
    Key,       \* entry keys, without their bucket
    KeyOf,     \* the entry key of a slot
    Archive,   \* published tarballs
    Content,   \* what the tarball decodes to
    Line,      \* statusLine blocks a setup bundle may carry
    None       \* an absent value

Ref == [pkg : Pkg, ver : Ver \union {Latest}]

Decoded == [pkg    : Pkg,
            ver    : Ver,
            assets : Seq(Slot),             \* what is placed, in order
            deps   : Seq(Ref),              \* declared, in DEPS_KEYS order
            line   : Line \union {None}]

Pin == [arc : Archive, parent : Ref \union {None}]

ASSUME LockfileAssumption ==
    /\ IsFiniteSet(Slot)
    /\ Ver \subseteq Nat
    /\ Latest \notin Ver
    /\ SlotOf \in [Pkg -> Slot]
    /\ Bucket \in [Slot -> Nat]
    /\ KeyOf \in [Slot -> Key]
    /\ Content \in [Archive -> Decoded]
    /\ None \notin Archive \union Line \union Ref \union Pin

Claim == [key : Key, line : Line]
Locks == [pins  : [Slot -> Pin \union {None}],
          claim : Claim \union {None}]

EmptyLock == [pins |-> [s \in Slot |-> None], claim |-> None]

\* archive.pkgRef.aipkgRef: what an entry records and what children name as
\* their parent.
RefOf(a) == [pkg |-> Content[a].pkg, ver |-> Content[a].ver]

OwnSlot(a) == SlotOf[Content[a].pkg]

AssetSet(a) == {Content[a].assets[i] : i \in DOMAIN Content[a].assets}

\* The flat assets packed inside a box.
Children(a) == AssetSet(a) \ {OwnSlot(a)}

GetEntry(L, r) == L.pins[SlotOf[r.pkg]]

\* Mutant: the lock is consulted for its presence only.
ResolveUnlocked(L, r) == IF GetEntry(L, r) = None THEN r ELSE r

\* A reference that is already locked becomes the reference the entry records,
\* whatever that reference's package is.
ResolvePkgRef(L, r) ==
    IF GetEntry(L, r) = None THEN r ELSE RefOf(GetEntry(L, r).arc)

RemoveEntry(L, s) == [L EXCEPT !.pins[s] = None]

\* upsertEntry throws when the slot is locked to another archive ...
Conflicts(L, s, a) == L.pins[s] # None /\ L.pins[s].arc # a

\* ... and leaves an entry of the same archive alone, its old parent included.
UpsertEntry(L, s, a, parent) ==
    IF L.pins[s] # None THEN L
    ELSE [L EXCEPT !.pins[s] = [arc |-> a, parent |-> parent]]

\* Mutant: the owner test is inverted.
LineConflictsSameOwner(L, k, line) ==
    L.claim # None /\ L.claim.key = k /\ L.claim.line # line

\* The statusLine has a single owner: only the same key with the same block
\* may claim it again.
LineConflicts(L, k, line) ==
    L.claim # None /\ L.claim # [key |-> k, line |-> line]

UpsertStatusLine(L, k, line) == [L EXCEPT !.claim = [key |-> k, line |-> line]]

RemoveStatusLine(L, k) ==
    IF L.claim # None /\ L.claim.key = k THEN [L EXCEPT !.claim = None] ELSE L

\* collectSubtree: every entry reached from root by following parent
\* references, breadth first.
ChildrenOf(L, refs) ==
    {s \in Slot : L.pins[s] # None /\ L.pins[s].parent \in refs}

CollectSubtree(L, root) ==
    LET reach[n \in Nat] ==
            IF n = 0 THEN {root}
            ELSE reach[n - 1]
                   \union {RefOf(L.pins[s].arc) : s \in ChildrenOf(L, reach[n - 1])}
    IN  ChildrenOf(L, reach[Cardinality(Slot)])

=============================================================================
