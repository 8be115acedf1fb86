------------------------------ MODULE MCInstall ------------------------------
(***************************************************************************)
(* Small registries and projects for Install.                              *)
(*                                                                         *)
(* B: a box that bundles a skill, carries a statusLine and declares the    *)
(* rule R; its second version keeps only the skill, its third is empty.    *)
(* R: a rule in two versions, the first also in a second build.            *)
(* S: a setup with a statusLine of its own.                                *)
(* Q: another organisation's rule with the slug of R; C: a box declaring   *)
(* Q.  K: a skill published under the slug of the one B bundles.           *)
(***************************************************************************)
EXTENDS Install, TLC

CONSTANTS B, R, S, Q, C, K, latest, none,
          sSkill, sRule, sSetup, sBox, sBoxC,
          b1, b2, b3, r1, r1x, r2, s1, q1, c1, k1,
          lineB, lineS, claude, codex

MCSlot == {sSkill, sRule, sSetup, sBox, sBoxC}
MCSlotOf ==
    [g \in Pkg |-> CASE g \in {R, Q} -> sRule [] g = S -> sSetup [] g = K -> sSkill
                     [] g = C -> sBoxC [] OTHER -> sBox]
MCBucket == (sSkill :> 1) @@ (sRule :> 3) @@ (sSetup :> 4) @@ (sBox :> 5) @@ (sBoxC :> 5)
MCKeyOf == [s \in MCSlot |-> s]

Tar(g, v, assets, deps, line) ==
    [pkg |-> g, ver |-> v, assets |-> assets, deps |-> deps, line |-> line]
At(g, v) == [pkg |-> g, ver |-> v]

Tarballs ==
    (b1  :> Tar(B, 1, <<sSkill, sBox>>, <<At(R, latest)>>, lineB)) @@
    (b2  :> Tar(B, 2, <<sSkill>>, <<>>, none)) @@
    (b3  :> Tar(B, 3, <<>>, <<>>, none)) @@
    (r1  :> Tar(R, 1, <<sRule>>, <<>>, none)) @@
    (r1x :> Tar(R, 1, <<sRule>>, <<>>, none)) @@
    (r2  :> Tar(R, 2, <<sRule>>, <<>>, none)) @@
    (s1  :> Tar(S, 1, <<sSetup>>, <<>>, lineS)) @@
    (q1  :> Tar(Q, 1, <<sRule>>, <<>>, none)) @@
    (c1  :> Tar(C, 1, <<>>, <<At(Q, latest)>>, none)) @@
    (k1  :> Tar(K, 1, <<sSkill>>, <<>>, none))
MCContent == [a \in Archive |-> Tarballs[a]]

\* The registry at the start: first builds of first versions.
MCPublished ==
    [g \in Pkg |-> [v \in Ver |->
        CASE v # 1 -> none [] g = B -> b1 [] g = R -> r1 [] g = S -> s1
          [] g = Q -> q1 [] g = C -> c1 [] OTHER -> k1]]

MCRequest == {At(B, latest), At(R, latest), At(R, 2), At(S, latest)}
MCTargetLists == {<<claude>>, <<codex, claude>>}

Fresh == [manifest |-> NoDeps, lockfile |-> EmptyLock]
MCCheckouts == {Fresh}

\* Failures and kills at every call that leaves a trace on disk, but between
\* the two writes; and there too.
NoTornSave == {"fetch", "mirror", "place", "unplace", "unmirror", "saveManifest"}
AnyTrace == NoTornSave \union {"saveLock"}

\* Two commands at once in a project that is new, or checked out with a
\* lockfile that pins the rule and the setup, neither of them placed yet.  The
\* registry has moved on: a second version of the rule, a second build of the
\* first.
PairPublished == [MCPublished EXCEPT ![R][1] = r1x, ![R][2] = r2]
PairRequest == {At(B, latest), At(R, latest), At(S, latest)}
PairTargetLists == {<<claude>>}
Pinned(rule) ==
    [manifest |-> [NoDeps EXCEPT ![sRule] = At(R, latest), ![sSetup] = At(S, latest)],
     lockfile |-> [pins  |-> [NoDeps EXCEPT ![sRule] = [arc |-> rule, parent |-> none],
                                            ![sSetup] = [arc |-> s1, parent |-> none]],
                   claim |-> [key |-> sSetup, line |-> lineS]]]
PairCheckouts == {Fresh, Pinned(r1), Pinned(r1x)}

\* A box upgraded; two rules with one slug; a bundled skill addressed as a package.
UpgradeRequest == {At(B, latest)}
SlugRequest == {At(R, latest), At(C, latest)}
SiblingRequest == {At(B, latest), At(K, latest)}

=============================================================================
