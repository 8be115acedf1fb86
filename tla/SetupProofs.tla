---------------------------- MODULE SetupProofs ----------------------------
(***************************************************************************)
(* Theorems about SetupPlacement, for every catalog, every point at which  *)
(* commands may die, and every number of commands and edits.  The user's   *)
(* entries are safe for every catalog, but for what the files have room    *)
(* for once; the other theorems suppose that script directories do not     *)
(* nest and, on codex, that no two packages bring an MCP server of the     *)
(* same name.                                                              *)
(***************************************************************************)
EXTENDS SetupPlacement, SequenceTheorems, TLAPS

\* Hypotheses on the catalog.
Apart == \A r \in Ref : Inside[r] = {r}

NamesOf(r) == {n \in Name : \E b \in From(r) : \E i \in DOMAIN Content[b].mcps : Content[b].mcps[i] = n}

NamesDiffer ==
    "codex" \in Agent => \A r, q \in Ref : r # q => NamesOf(r) \cap NamesOf(q) = {}

Owner(b) == Content[b].owner

\* Whatever bundles have on disk names them as the owner, on codex by way of the name.
Tagged ==
    /\ \A s \in scripts : s.from \in Bundle => s.dir = Owner(s.from)
    /\ \A h \in hooks : h.from \in Bundle => h.owner = Owner(h.from)
    /\ \A x \in rules : x.from \in Bundle => x.slug = Owner(x.from)
    /\ \A s \in servers : s.from \in Bundle =>
           /\ s.owner = Tag(Owner(s.from))
           /\ \E n \in NamesOf(Owner(s.from)) : s.key = Key(Owner(s.from), n)
    /\ \A o \in ledger \union owned : o.name \in NamesOf(o.owner) /\ o.owner \in Ref

Ours(entries) == {e \in entries : e.from \in Bundle}

\* A copy holds what the file holds, but for what the user writes meanwhile.
Fresh ==
    copy # None =>
        /\ Ours(copy.hooks) = Ours(hooks)
        /\ Ours(copy.servers) = Ours(servers)
        /\ Ours(copy.rules) = Ours(rules)

Others(owners) == {o \in owners : o.owner # cmd.ref}

\* The tasks a command may have left.
Legit ==
    {t \in [do : Tasks, arg : File \union Name \union {None}] :
        /\ t.do \in {"writeScript", "mergeHooks", "setStatusLine", "upsertServer", "recordOwner",
                     "writeRule", "upsertBlock"} => cmd.bundle \in Bundle
        /\ t.do \in {"upsertServer", "recordOwner"} => t.arg \in NamesOf(cmd.ref)
        /\ t.do = "recordOwner" => agent = "codex"
        /\ t.do = "writeLedger" => cmd.bundle = None /\ Others(owned) = Others(ledger)
        /\ t.do = "readLedger" => cmd.bundle = None}

Underway ==
    Running =>
        /\ cmd.ref \in Ref
        /\ cmd.bundle \in Bundle => cmd.ref = Owner(cmd.bundle)
        /\ todo \in Seq(Legit)

IInv == agent \in Agent /\ Tagged /\ Fresh /\ Underway

USE DEF settings, disk, progress, world

\* Who installs and who removes are told apart.
LEMMA NoneIsNothing == None \notin Bundle /\ User \notin Bundle /\ None \notin Ref
BY SetupAssumption DEF SetupAssumption

LEMMA OwnerIsRef == ASSUME NEW b \in Bundle PROVE Owner(b) \in Ref
BY SetupAssumption DEF SetupAssumption, ContentType, Owner

\* The tasks of an argument each.
LEMMA EachSeq ==
    ASSUME NEW S, NEW A, NEW args \in Seq(A), NEW do, \A a \in A : Task(do, a) \in S \/ a \notin {args[i] : i \in DOMAIN args}
    PROVE  Each(do, args) \in Seq(S)
<1>1. /\ Len(args) \in Nat /\ DOMAIN args = 1 .. Len(args)
      /\ \A i \in 1 .. Len(args) : args[i] \in A
  BY LenProperties, ElementOfSeq
<1>2. Each(do, args) \in [1 .. Len(args) -> S]
  BY <1>1 DEF Each
<1> QED
  BY <1>1, <1>2, SeqDef

LEMMA IfSeq ==
    ASSUME NEW S, NEW cond \in BOOLEAN, NEW t, cond => t \in S
    PROVE  If(cond, <<t>>) \in Seq(S)
BY DEF If

LEMMA SubSeqs ==
    ASSUME NEW S, NEW U, S \subseteq U, NEW q \in Seq(S)
    PROVE  q \in Seq(U)
BY SeqDef

LEMMA NextTask ==
    ASSUME IInv, Running, todo # << >>
    PROVE  Head(todo) \in Legit /\ Tail(todo) \in Seq(Legit)
BY HeadTailProperties DEF IInv, Underway

\* The packages other than the one a command works for keep their entries.
Kept == \A r \in Ref : r # cmd.ref => EntriesOf(r)' = EntriesOf(r)

\* A task done leaves the rest, which is legitimate still.
LEMMA GoOnStep ==
    ASSUME IInv, Running, todo # << >>, Tagged', UNCHANGED <<ledger, owned>>,
           NEW tasks, tasks \in Seq(Legit), Goto(tasks)
    PROVE  IInv'
<1>1. /\ cmd' = cmd /\ agent' = agent /\ copy' = None /\ todo' = tasks
  BY DEF Goto
<1>2. Legit' = Legit
  BY <1>1 DEF Legit, Others
<1>3. Underway'
  BY <1>1, <1>2 DEF IInv, Underway, Running
<1>4. Fresh' /\ agent' \in Agent
  BY <1>1 DEF Fresh, IInv
<1> QED
  BY <1>3, <1>4 DEF IInv

\* The same keys are never those of two packages.
LEMMA KeysDiffer ==
    ASSUME NamesDiffer, agent \in Agent, NEW r \in Ref, NEW q \in Ref, r # q,
           NEW m \in NamesOf(r), NEW n \in NamesOf(q)
    PROVE  Key(r, m) # Key(q, n)
BY DEF NamesDiffer, Key

\* What a copy has of bundles is tagged as it is in the file.
LEMMA CopyTagged ==
    ASSUME IInv, copy # None
    PROVE  /\ \A h \in copy.hooks : h.from \in Bundle => h \in hooks /\ h.owner = Owner(h.from)
           /\ \A h \in hooks : h.from \in Bundle => h \in copy.hooks
           /\ \A x \in copy.rules : x.from \in Bundle => x \in rules /\ x.slug = Owner(x.from)
           /\ \A x \in rules : x.from \in Bundle => x \in copy.rules
           /\ \A x \in copy.servers : x.from \in Bundle => x \in servers
           /\ \A x \in servers : x.from \in Bundle => x \in copy.servers
<1>1. Ours(copy.hooks) = Ours(hooks) /\ Ours(copy.servers) = Ours(servers) /\ Ours(copy.rules) = Ours(rules)
  BY DEF IInv, Fresh
<1> QED
  BY <1>1 DEF IInv, Tagged, Ours

\* Scripts are written to and removed from the directory of their package.
LEMMA ScriptStep ==
    ASSUME IInv, WriteScript \/ RemoveScripts
    PROVE  IInv' /\ (Apart => Kept)
<1>1. /\ Running /\ todo # << >> /\ Head(todo) \in Legit /\ Tail(todo) \in Seq(Legit)
      /\ cmd.ref \in Ref /\ (cmd.bundle \in Bundle => cmd.ref = Owner(cmd.bundle))
  BY NextTask DEF WriteScript, RemoveScripts, Doing, IInv, Underway
<1>2. /\ UNCHANGED <<hooks, line, servers, ledger, rules, owned, agent, cmd>>
      /\ Goto(Tail(todo))
  BY DEF WriteScript, RemoveScripts, GoOn, Goto
<1>3. \/ /\ cmd.bundle \in Bundle
         /\ scripts' = WriteFile(scripts, cmd.ref, Head(todo).arg, cmd.bundle)
      \/ scripts' = {s \in scripts : s.dir \notin Inside[cmd.ref]}
  BY <1>1 DEF WriteScript, RemoveScripts, Doing, Legit
<1>4. \A s \in scripts' : s.from \in Bundle => s.dir = Owner(s.from)
  BY <1>1, <1>3 DEF WriteFile, IInv, Tagged
<1>5. Tagged'
  BY <1>2, <1>4 DEF IInv, Tagged, Tag, Key
<1>6. ASSUME Apart, NEW r \in Ref, r # cmd.ref
      PROVE  {s \in scripts' : s.from \in From(r)} = {s \in scripts : s.from \in From(r)}
  BY <1>1, <1>3, <1>6 DEF Apart, WriteFile, From, IInv, Tagged, Owner
<1>7. Apart => Kept
  BY <1>2, <1>6 DEF Kept, EntriesOf
<1> QED
  BY <1>1, <1>2, <1>5, <1>7, GoOnStep

\* The settings are written back with other owners' hooks as they were read.
LEMMA SettingsStep ==
    ASSUME IInv, MergeHooks \/ RemoveHooks \/ SetStatusLine \/ ClearStatusLine
    PROVE  IInv' /\ Kept
<1>1. /\ Running /\ todo # << >> /\ Head(todo) \in Legit /\ Tail(todo) \in Seq(Legit)
      /\ cmd.ref \in Ref /\ (cmd.bundle \in Bundle => cmd.ref = Owner(cmd.bundle)) /\ copy # None
  BY NextTask DEF MergeHooks, RemoveHooks, SetStatusLine, ClearStatusLine, Doing, IInv, Underway
<1>2. /\ UNCHANGED <<scripts, servers, ledger, rules, owned, agent, cmd>>
      /\ Goto(Tail(todo))
  BY DEF MergeHooks, RemoveHooks, SetStatusLine, ClearStatusLine, GoOn, Goto
<1>3. \/ cmd.bundle \in Bundle /\ hooks' = MergeOwnedHooks(copy.hooks, cmd.bundle)
      \/ hooks' = RemoveOwnedHooks(copy.hooks, cmd.ref)
      \/ hooks' = copy.hooks
      \/ hooks' = hooks
  BY <1>1 DEF MergeHooks, RemoveHooks, SetStatusLine, ClearStatusLine, Doing, Legit
<1>4. \A h \in hooks' : h.from \in Bundle => h.owner = Owner(h.from)
  BY <1>1, <1>3, CopyTagged DEF MergeOwnedHooks, RemoveOwnedHooks, Owner, IInv, Tagged
<1>5. Tagged'
  BY <1>2, <1>4 DEF IInv, Tagged, Tag, Key
<1>6. ASSUME NEW r \in Ref, r # cmd.ref
      PROVE  {h \in hooks' : h.from \in From(r)} = {h \in hooks : h.from \in From(r)}
  BY <1>1, <1>3, <1>6, CopyTagged DEF MergeOwnedHooks, RemoveOwnedHooks, From, Owner
<1>7. Kept
  BY <1>2, <1>6 DEF Kept, EntriesOf
<1> QED
  BY <1>1, <1>2, <1>5, <1>7, GoOnStep

\* Rules are replaced and removed by their slug.
LEMMA RuleStep ==
    ASSUME IInv, WriteRule \/ RemoveRule \/ UpsertBlock \/ StripBlock
    PROVE  IInv' /\ Kept
<1>1. /\ Running /\ todo # << >> /\ Head(todo) \in Legit /\ Tail(todo) \in Seq(Legit)
      /\ cmd.ref \in Ref /\ (cmd.bundle \in Bundle => cmd.ref = Owner(cmd.bundle))
      /\ UpsertBlock \/ StripBlock => copy # None
  BY NextTask DEF WriteRule, RemoveRule, UpsertBlock, StripBlock, Doing, IInv, Underway
<1>2. /\ UNCHANGED <<scripts, hooks, line, servers, ledger, owned, agent, cmd>>
      /\ Goto(Tail(todo))
  BY DEF WriteRule, RemoveRule, UpsertBlock, StripBlock, GoOn, Goto
<1>3. \/ cmd.bundle \in Bundle /\ rules' = PutRule(rules, cmd.bundle)
      \/ cmd.bundle \in Bundle /\ copy # None /\ rules' = PutRule(copy.rules, cmd.bundle)
      \/ rules' = StripRule(rules, cmd.ref)
      \/ copy # None /\ rules' = StripRule(copy.rules, cmd.ref)
      \/ rules' = rules
  BY <1>1 DEF WriteRule, RemoveRule, UpsertBlock, StripBlock, Doing, Legit
<1>4. \A x \in rules' : x.from \in Bundle => x.slug = Owner(x.from)
  BY <1>1, <1>3, CopyTagged DEF PutRule, StripRule, Owner, IInv, Tagged
<1>5. Tagged'
  BY <1>2, <1>4 DEF IInv, Tagged, Tag, Key
<1>6. ASSUME NEW r \in Ref, r # cmd.ref
      PROVE  {x \in rules' : x.from \in From(r)} = {x \in rules : x.from \in From(r)}
  BY <1>1, <1>3, <1>6, CopyTagged DEF PutRule, StripRule, From, Owner, IInv, Tagged
<1>7. Kept
  BY <1>2, <1>6 DEF Kept, EntriesOf
<1> QED
  BY <1>1, <1>2, <1>5, <1>7, GoOnStep

\* A server of another package has another key, and its own tag.
LEMMA AddServerStep ==
    ASSUME IInv, AddServer
    PROVE  IInv' /\ (NamesDiffer => Kept)
<1> DEFINE n == Head(todo).arg
           b == cmd.bundle
<1>1. /\ Running /\ todo # << >> /\ Head(todo) \in Legit /\ Tail(todo) \in Seq(Legit) /\ copy # None
      /\ cmd.ref \in Ref /\ b \in Bundle /\ cmd.ref = Owner(b) /\ n \in NamesOf(cmd.ref)
  BY NextTask DEF AddServer, Doing, IInv, Underway, Legit
<1>2. /\ servers' = UpsertServer(copy.servers, b, n)
      /\ UNCHANGED <<scripts, hooks, line, rules, ledger, owned, agent, cmd>>
      /\ Goto(If(agent = "codex", <<Task("recordOwner", n)>>) \o Tail(todo))
  BY DEF AddServer, Goto
<1>3. If(agent = "codex", <<Task("recordOwner", n)>>) \in Seq(Legit)
  <2>1. agent = "codex" => Task("recordOwner", n) \in Legit
    BY <1>1 DEF Task, Legit, Tasks, NamesOf
  <2> QED
    BY <2>1, IfSeq
<1>4. If(agent = "codex", <<Task("recordOwner", n)>>) \o Tail(todo) \in Seq(Legit)
  BY <1>1, <1>3, ConcatProperties
<1>5. ServerOf(b, n) = [key |-> Key(cmd.ref, n), owner |-> Tag(cmd.ref), from |-> b]
  BY <1>1 DEF ServerOf, Owner
<1>6. servers' = {x \in copy.servers : x.key # Key(cmd.ref, n)} \union {ServerOf(b, n)}
  BY <1>1, <1>2 DEF UpsertServer, Owner
<1>7. \A x \in servers' : x.from \in Bundle =>
          /\ x.owner = Tag(Owner(x.from))
          /\ \E m \in NamesOf(Owner(x.from)) : x.key = Key(Owner(x.from), m)
  BY <1>1, <1>5, <1>6, CopyTagged DEF IInv, Tagged
<1>8. Tagged'
  BY <1>2, <1>7 DEF IInv, Tagged, Tag, Key
<1>9. ASSUME NamesDiffer, NEW r \in Ref, r # cmd.ref
      PROVE  {x \in servers' : x.from \in From(r)} = {x \in servers : x.from \in From(r)}
  <2>1. b \notin From(r) /\ \A d \in From(r) : d \in Bundle /\ Owner(d) = r
    BY <1>1, <1>9 DEF From, Owner
  <2>2. ASSUME NEW x \in servers, x.from \in From(r) PROVE x.key # Key(cmd.ref, n)
    <3>1. PICK m \in NamesOf(r) : x.key = Key(r, m)
      BY <2>1, <2>2 DEF IInv, Tagged
    <3> QED
      BY <1>1, <1>9, <3>1, KeysDiffer DEF IInv
  <2> QED
    BY <1>1, <1>5, <1>6, <2>1, <2>2, CopyTagged
<1>10. NamesDiffer => Kept
  BY <1>2, <1>9 DEF Kept, EntriesOf
<1> QED
  BY <1>1, <1>2, <1>4, <1>8, <1>10, GoOnStep

\* A removal goes by tag, or by names that the ledger has for its package only.
LEMMA RemoveServersStep ==
    ASSUME IInv, RemoveServers
    PROVE  IInv' /\ (NamesDiffer => Kept)
<1>1. /\ Running /\ todo # << >> /\ Tail(todo) \in Seq(Legit) /\ copy # None /\ cmd.ref \in Ref
  BY NextTask DEF RemoveServers, Doing, IInv, Underway
<1>2. /\ servers' \in {RemoveOwnedServers(copy.servers, cmd.ref), servers}
      /\ UNCHANGED <<scripts, hooks, line, rules, ledger, owned, agent, cmd>>
      /\ Goto(Tail(todo))
  BY DEF RemoveServers, GoOn, Goto
<1>3. RemoveOwnedServers(copy.servers, cmd.ref) \subseteq copy.servers
  BY DEF RemoveOwnedServers
<1>4. \A x \in servers' : x.from \in Bundle => x \in servers
  BY <1>1, <1>2, <1>3, CopyTagged
<1>5. Tagged'
  BY <1>2, <1>4 DEF IInv, Tagged, Tag, Key
<1>6. ASSUME NamesDiffer, NEW r \in Ref, r # cmd.ref
      PROVE  {x \in servers' : x.from \in From(r)} = {x \in servers : x.from \in From(r)}
  <2>1. \A d \in From(r) : d \in Bundle /\ Owner(d) = r
    BY DEF From, Owner
  <2>2. ASSUME NEW x \in servers, x.from \in From(r)
        PROVE  x \in RemoveOwnedServers(copy.servers, cmd.ref)
    <3>1. x \in copy.servers
      BY <1>1, <2>1, <2>2, CopyTagged
    <3>2. CASE agent = "codex"
      <4>1. PICK m \in NamesOf(r) : x.key = <<None, m>>
        BY <2>1, <2>2, <3>2 DEF IInv, Tagged, Key
      <4>2. m \notin OwnedNames(cmd.ref)
        BY <1>1, <1>6, <3>2, <4>1 DEF IInv, Tagged, OwnedNames, NamesDiffer
      <4> QED
        BY <3>1, <3>2, <4>1, <4>2 DEF RemoveOwnedServers
    <3>3. CASE agent # "codex"
      <4>1. x.owner = r
        BY <2>1, <2>2, <3>3 DEF IInv, Tagged, Tag
      <4> QED
        BY <1>6, <3>1, <3>3, <4>1 DEF RemoveOwnedServers
    <3> QED
      BY <3>2, <3>3
  <2> QED
    BY <1>2, <1>4, <2>1, <2>2
<1>7. NamesDiffer => Kept
  BY <1>2, <1>6 DEF Kept, EntriesOf
<1> QED
  BY <1>1, <1>2, <1>5, <1>7, GoOnStep

\* The ledger is changed for the package of the command.
LEMMA LedgerStep ==
    ASSUME IInv, Record \/ WriteLedger
    PROVE  IInv' /\ (NamesDiffer => Kept)
<1>1. /\ Running /\ todo # << >> /\ Head(todo) \in Legit /\ Tail(todo) \in Seq(Legit) /\ cmd.ref \in Ref
  BY NextTask DEF Record, WriteLedger, Doing, IInv, Underway
<1>2. /\ UNCHANGED <<scripts, hooks, line, servers, rules, owned, agent, cmd>>
      /\ todo' = Tail(todo) /\ copy' = None
  BY DEF Record, WriteLedger, GoOn, Goto
<1>3. CASE Record
  <2>1. /\ ledger' = RecordOwner(ledger, Head(todo).arg, cmd.ref) /\ Head(todo).arg \in NamesOf(cmd.ref)
        /\ agent = "codex" /\ cmd.bundle \in Bundle
    BY <1>1, <1>3 DEF Record, Doing, Legit
  <2>2. Legit \subseteq Legit'
    BY <1>2, <2>1, NoneIsNothing DEF Legit
  <2>3. Tagged'
    BY <1>1, <1>2, <2>1 DEF IInv, Tagged, Tag, Key, RecordOwner, NamesOf, From
  <2>4. ASSUME NamesDiffer, NEW r \in Ref, r # cmd.ref
        PROVE  {o \in ledger' : o.owner = r} = {o \in ledger : o.owner = r}
    BY <1>1, <2>1, <2>4 DEF IInv, Tagged, RecordOwner, NamesDiffer
  <2> QED
    BY <1>1, <1>2, <2>2, <2>3, <2>4, SubSeqs DEF Kept, EntriesOf, IInv, Fresh, Underway, Running
<1>4. CASE WriteLedger
  <2>1. ledger' = Others(owned) /\ Others(owned) = Others(ledger)
    BY <1>1, <1>4 DEF WriteLedger, Doing, Legit, Others
  <2>2. Legit \subseteq Legit'
    BY <1>2, <2>1 DEF Legit, Others
  <2>3. Tagged'
    BY <1>2, <2>1 DEF IInv, Tagged, Tag, Key, Others
  <2>4. ASSUME NEW r \in Ref, r # cmd.ref
        PROVE  {o \in ledger' : o.owner = r} = {o \in ledger : o.owner = r}
    BY <2>1, <2>4 DEF Others
  <2> QED
    BY <1>1, <1>2, <2>2, <2>3, <2>4, SubSeqs DEF Kept, EntriesOf, IInv, Fresh, Underway, Running
<1> QED
  BY <1>3, <1>4

\* Looking up the statusLine's owner, or the ledger, changes no entry.
LEMMA LookStep ==
    ASSUME IInv, CheckStatusLine \/ ReadLedger
    PROVE  IInv' /\ Kept
<1>1. /\ Running /\ todo # << >> /\ Head(todo) \in Legit /\ Tail(todo) \in Seq(Legit) /\ cmd.ref \in Ref
  BY NextTask DEF CheckStatusLine, ReadLedger, Doing, IInv, Underway
<1>2. UNCHANGED <<scripts, hooks, line, servers, rules, ledger, agent, cmd>> /\ copy' = None
  BY DEF CheckStatusLine, ReadLedger, Goto
<1>3. Kept
  BY <1>2 DEF Kept, EntriesOf
<1>4. CASE CheckStatusLine
  <2>1. Task("clearStatusLine", None) \in Legit
    BY DEF Task, Legit, Tasks
  <2>2. If(OwnsLine(line, cmd.ref), <<Task("clearStatusLine", None)>>) \in Seq(Legit)
    BY <2>1, IfSeq DEF OwnsLine
  <2>3. If(OwnsLine(line, cmd.ref), <<Task("clearStatusLine", None)>>) \o Tail(todo) \in Seq(Legit)
    BY <1>1, <2>2, ConcatProperties
  <2>4. Tagged' /\ UNCHANGED <<ledger, owned>>
    BY <1>2, <1>4 DEF CheckStatusLine, IInv, Tagged, Tag, Key
  <2> QED
    BY <1>1, <1>3, <1>4, <2>3, <2>4, GoOnStep DEF CheckStatusLine
<1>5. CASE ReadLedger
  <2>1. /\ owned' = ledger /\ cmd.bundle = None
        /\ todo' = If(\E o \in ledger : o.owner = cmd.ref,
                      <<Task("removeServers", None), Task("writeLedger", None)>>) \o Tail(todo)
    BY <1>1, <1>5 DEF ReadLedger, Goto, Doing, Legit
  <2>2. Legit \subseteq Legit'
    BY <1>2, <2>1 DEF Legit
  <2>3. Task("removeServers", None) \in Legit' /\ Task("writeLedger", None) \in Legit'
    BY <1>2, <2>1 DEF Task, Legit, Tasks
  <2>4. If(\E o \in ledger : o.owner = cmd.ref,
           <<Task("removeServers", None), Task("writeLedger", None)>>) \in Seq(Legit')
    BY <2>3 DEF If
  <2>5. Tail(todo) \in Seq(Legit')
    BY <1>1, <2>2, SubSeqs
  <2>6. todo' \in Seq(Legit')
    BY <2>1, <2>4, <2>5, ConcatProperties
  <2>7. Tagged'
    BY <1>2, <2>1 DEF IInv, Tagged, Tag, Key
  <2> QED
    BY <1>1, <1>2, <1>3, <2>6, <2>7 DEF IInv, Fresh, Underway, Running
<1> QED
  BY <1>4, <1>5

\* A command starts with the tasks of its bundle, or of a removal.
LEMMA InstallStep ==
    ASSUME IInv, NEW b \in Bundle, InstallPackage(b)
    PROVE  IInv'
<1>1. /\ cmd' = [bundle |-> b, ref |-> Owner(b)] /\ todo' = InstallTasks(b)
      /\ UNCHANGED <<disk, copy, owned, agent>>
  BY DEF InstallPackage, Begin, Owner
<1>2. Owner(b) \in Ref /\ b \in From(Owner(b))
  BY OwnerIsRef DEF From, Owner
<1>3. \A do \in {"mergeHooks", "setStatusLine", "writeRule", "upsertBlock"} : Task(do, None) \in Legit'
  BY <1>1, <1>2 DEF Task, Legit, Tasks
<1>4. /\ Content[b].scripts \in Seq(File) /\ Content[b].mcps \in Seq(Name)
      /\ Content[b].line \in BOOLEAN
  BY SetupAssumption DEF SetupAssumption, ContentType
<1>5. Each("writeScript", Content[b].scripts) \in Seq(Legit')
  <2>1. \A f \in File : Task("writeScript", f) \in Legit'
    BY <1>1, <1>2 DEF Task, Legit, Tasks
  <2> QED
    BY <1>4, <2>1, EachSeq
<1>6. Each("upsertServer", Content[b].mcps) \in Seq(Legit')
  <2>1. \A n \in Name : n \in {Content[b].mcps[i] : i \in DOMAIN Content[b].mcps}
            => Task("upsertServer", n) \in Legit'
    BY <1>1, <1>2 DEF Task, Legit, Tasks, NamesOf
  <2> QED
    BY <1>4, <2>1, EachSeq
<1>7. If(Content[b].events # {}, <<Task("mergeHooks", None)>>) \in Seq(Legit')
      /\ If(Content[b].line /\ agent # "codex", <<Task("setStatusLine", None)>>) \in Seq(Legit')
  BY <1>3 DEF If
<1>8. SetupTasks(b) \in Seq(Legit')
  <2>1. Each("writeScript", Content[b].scripts) \o If(Content[b].events # {}, <<Task("mergeHooks", None)>>)
            \in Seq(Legit')
    BY <1>5, <1>7, ConcatProperties
  <2>2. Each("writeScript", Content[b].scripts) \o If(Content[b].events # {}, <<Task("mergeHooks", None)>>)
            \o If(Content[b].line /\ agent # "codex", <<Task("setStatusLine", None)>>) \in Seq(Legit')
    BY <1>7, <2>1, ConcatProperties
  <2> QED
    BY <1>6, <2>2, ConcatProperties DEF SetupTasks
<1>9. InstallTasks(b) \in Seq(Legit')
  BY <1>3, <1>8 DEF InstallTasks
<1>10. Underway'
  BY <1>1, <1>2, <1>9 DEF Underway
<1>11. Tagged' /\ Fresh' /\ agent' \in Agent
  BY <1>1 DEF IInv, Tagged, Tag, Key, Fresh, Ours
<1> QED
  BY <1>10, <1>11 DEF IInv

LEMMA RemoveStep ==
    ASSUME IInv, NEW r \in Ref, RemovePackage(r)
    PROVE  IInv'
<1>1. /\ cmd' = [bundle |-> None, ref |-> r] /\ todo' = RemoveTasks(r)
      /\ UNCHANGED <<disk, copy, owned, agent>>
  BY DEF RemovePackage, Begin
<1>2. \A do \in {"removeScripts", "removeHooks", "checkStatusLine", "readLedger", "removeServers",
                 "removeRule", "stripBlock"} : Task(do, None) \in Legit'
  BY <1>1 DEF Task, Legit, Tasks
<1>3. /\ <<Task("removeScripts", None), Task("removeHooks", None)>> \in Seq(Legit')
      /\ <<Task("readLedger", None)>> \in Seq(Legit')
      /\ <<Task("checkStatusLine", None), Task("removeServers", None)>> \in Seq(Legit')
  BY <1>2
<1>4. RemoveSetupTasks \in Seq(Legit')
  BY <1>3, ConcatProperties DEF RemoveSetupTasks
<1>5. RemoveTasks(r) \in Seq(Legit')
  BY <1>2, <1>4 DEF RemoveTasks
<1>6. Underway'
  BY <1>1, <1>5, NoneIsNothing DEF Underway
<1>7. Tagged' /\ Fresh' /\ agent' \in Agent
  BY <1>1 DEF IInv, Tagged, Tag, Key, Fresh, Ours
<1> QED
  BY <1>6, <1>7 DEF IInv

\* What the user writes belongs to no bundle.
LEMMA EditStep ==
    ASSUME IInv, UserEdits
    PROVE  IInv' /\ \A r \in Ref : EntriesOf(r)' = EntriesOf(r)
<1>1. UNCHANGED <<scripts, ledger, cmd, todo, copy, owned, agent>>
  BY DEF UserEdits, EditHook, EditLine, EditServer, EditAgentsMd, Edit
<1>2. /\ \A h \in hooks' : h \in hooks \/ h.from = User
      /\ \A x \in servers' : x \in servers \/ x.from = User
      /\ \A x \in rules' : x \in rules \/ x.from = User
      /\ hooks \subseteq hooks' /\ servers \subseteq servers' /\ rules \subseteq rules'
  <2>1. CASE \E e \in Event : EditHook(e)
    BY <2>1 DEF EditHook
  <2>2. CASE EditLine
    BY <2>2 DEF EditLine
  <2>3. CASE EditServer
    BY <2>3 DEF EditServer, UserServer
  <2>4. CASE EditAgentsMd
    BY <2>4 DEF EditAgentsMd
  <2> QED
    BY <2>1, <2>2, <2>3, <2>4 DEF UserEdits
<1>3. Ours(hooks') = Ours(hooks) /\ Ours(servers') = Ours(servers) /\ Ours(rules') = Ours(rules)
  BY <1>2, NoneIsNothing DEF Ours
<1>4. Tagged'
  BY <1>1, <1>2, NoneIsNothing DEF IInv, Tagged, Tag, Key
<1>5. Fresh'
  BY <1>1, <1>3 DEF IInv, Fresh, Ours
<1>6. Underway' /\ agent' \in Agent
  BY <1>1 DEF IInv, Underway, Running, Legit, Others
<1>7. ASSUME NEW r \in Ref PROVE EntriesOf(r)' = EntriesOf(r)
  BY <1>1, <1>2, NoneIsNothing DEF EntriesOf, From
<1> QED
  BY <1>4, <1>5, <1>6, <1>7 DEF IInv

LEMMA RestStep ==
    ASSUME IInv, ReadCopy \/ Finish \/ Die
    PROVE  IInv' /\ \A r \in Ref : EntriesOf(r)' = EntriesOf(r)
<1>1. UNCHANGED <<disk, agent>>
  BY DEF ReadCopy, Finish, Die
<1>2. \A r \in Ref : EntriesOf(r)' = EntriesOf(r)
  BY <1>1 DEF EntriesOf
<1>3. CASE ReadCopy
  BY <1>1, <1>2, <1>3 DEF ReadCopy, IInv, Tagged, Tag, Key, Fresh, Ours, Underway, Running, Legit, Others
<1>4. CASE Finish \/ Die
  <2>1. cmd' = None /\ copy' = None /\ owned' = {}
    BY <1>4 DEF Finish, Die, Stop
  <2> QED
    BY <1>1, <1>2, <2>1 DEF IInv, Tagged, Tag, Key, Fresh, Underway, Running
<1> QED
  BY <1>3, <1>4

\* Only the package a command works for changes in a step.
StepKept == \A r \in Ref : EntriesOf(r)' # EntriesOf(r) => Running /\ cmd.ref = r

LEMMA NextIInv ==
    ASSUME IInv, [Next]_vars
    PROVE  IInv' /\ (Apart /\ NamesDiffer => StepKept)
<1>1. CASE \E b \in Bundle : InstallPackage(b)
  BY <1>1, InstallStep DEF InstallPackage, Begin, StepKept, EntriesOf
<1>2. CASE \E r \in Ref : RemovePackage(r)
  BY <1>2, RemoveStep DEF RemovePackage, Begin, StepKept, EntriesOf
<1>3. CASE Install \/ Remove
  <2>1. Running
    BY <1>3 DEF Install, Remove, WriteScript, MergeHooks, SetStatusLine, AddServer, Record, WriteRule,
       UpsertBlock, RemoveScripts, RemoveHooks, CheckStatusLine, ClearStatusLine, ReadLedger,
       RemoveServers, WriteLedger, RemoveRule, StripBlock, Doing
  <2>2. IInv' /\ (Apart /\ NamesDiffer => Kept)
    BY <1>3, ScriptStep, SettingsStep, RuleStep, AddServerStep, RemoveServersStep, LedgerStep, LookStep
       DEF Install, Remove
  <2> QED
    BY <2>1, <2>2 DEF Kept, StepKept
<1>4. CASE UserEdits
  BY <1>4, EditStep DEF StepKept
<1>5. CASE ReadCopy \/ Finish \/ Die
  BY <1>5, RestStep DEF StepKept
<1>6. CASE UNCHANGED vars
  BY <1>6 DEF vars, IInv, Tagged, Tag, Key, Fresh, Ours, Underway, Running, Legit, Others, StepKept, EntriesOf
<1> QED
  BY <1>1, <1>2, <1>3, <1>4, <1>5, <1>6 DEF Next

LEMMA InitIInv == Init => IInv
BY NoneIsNothing DEF Init, IInv, Tagged, Fresh, Underway, Running

\* Whatever the commands do, die at and write back, only the package they work
\* for has entries added or taken away (AssetPlacement, the configs of the
\* agents), if no script directory lies in another and, on codex, no two
\* packages have a server of the same name.
THEOREM Ownership == Apart /\ NamesDiffer => (Spec => OnlyOwnEntries)
<1> SUFFICES ASSUME Apart, NamesDiffer PROVE Spec => OnlyOwnEntries
  OBVIOUS
<1>1. IInv /\ [Next]_vars => IInv'
  BY NextIInv
<1>2. IInv /\ [Next]_vars => [StepKept]_vars
  BY NextIInv
<1>3. Spec => [][StepKept]_vars
  BY <1>1, <1>2, InitIInv, PTL DEF Spec
<1> QED
  BY <1>3 DEF OnlyOwnEntries, StepKept

(***************************************************************************)
(* The user's entries.  A copy holds those kept as the files do, and no    *)
(* task that replaces or clears the statusLine, or, on codex, a server of  *)
(* the user's name, is left while the user's is kept.                      *)
(***************************************************************************)

LeftTasks == Range(todo)
Left(do) == \E t \in LeftTasks : t.do = do

UserHooks == {[event |-> e, owner |-> None, from |-> User] : e \in Event}
UserLine == [owner |-> None, from |-> User]
UserRule == [slug |-> None, from |-> User]

\* What is kept is found where the user has written it.
KeptIn(hs, l, ss, xs) ==
    /\ \A k \in UserHooks : k \in kept => k \in hs
    /\ UserLine \in kept => l = UserLine
    /\ UserServer \in kept => UserServer \in ss
    /\ UserRule \in kept => UserRule \in xs

\* While the user's server is kept, a codex command neither brings one of its name
\* nor removes it: the ledger has it for no package that is being removed.
Spared ==
    /\ ~Running => owned = {}
    /\ Running /\ agent = "codex" /\ UserServer \in kept =>
           /\ \A t \in LeftTasks : t.do = "upsertServer" => t.arg # UserName
           /\ cmd.bundle = None => \A o \in ledger : o.owner = cmd.ref => o.name # UserName
           /\ \A o \in owned : o.owner = cmd.ref => o.name # UserName

Polite ==
    /\ ~Running => copy = None /\ todo = << >>
    /\ Spared
    /\ kept \subseteq UserHooks \union {UserLine, UserServer, UserRule}
    /\ KeptIn(hooks, line, servers, rules)
    /\ copy # None => KeptIn(copy.hooks, copy.line, copy.servers, copy.rules)
    /\ \A t \in LeftTasks : t.do \in {"setStatusLine", "clearStatusLine"} => UserLine \notin kept

LEMMA RangeEmpty == Range(<< >>) = {}
BY DEF Range

LEMMA RangeOne == \A t : Range(<<t>>) = {t}
BY DEF Range

LEMMA RangeTwo == \A t, u : Range(<<t, u>>) = {t, u}
BY DEF Range

LEMMA RangeThree == \A t, u, v : Range(<<t, u, v>>) = {t, u, v}
BY DEF Range

LEMMA RangeFour == \A t, u, v, w : Range(<<t, u, v, w>>) = {t, u, v, w}
BY DEF Range

\* The first task and the others.
LEMMA HeadOfTail ==
    ASSUME NEW S, NEW q \in Seq(S), q # << >>
    PROVE  /\ Range(q) = {Head(q)} \union Range(Tail(q))
           /\ Head(q) \in Range(q) /\ Range(q) \subseteq S
<1>1. /\ Len(q) \in Nat /\ Len(q) # 0 /\ Tail(q) \in Seq(S) /\ Head(q) = q[1]
      /\ Len(Tail(q)) = Len(q) - 1
      /\ \A i \in 1 .. Len(Tail(q)) : Tail(q)[i] = q[i + 1]
  BY HeadTailProperties, LenProperties, EmptySeq
<1>2. Range(q) = {q[i] : i \in 1 .. Len(q)} /\ Range(Tail(q)) = {Tail(q)[i] : i \in 1 .. Len(Tail(q))}
  BY <1>1, RangeEquality
<1>3. \A i \in 2 .. Len(q) : i - 1 \in 1 .. Len(Tail(q)) /\ Tail(q)[i - 1] = q[i]
  BY <1>1
<1>4. \A i \in 1 .. Len(Tail(q)) : i + 1 \in 1 .. Len(q)
  BY <1>1
<1>5. \A i \in 1 .. Len(q) : i = 1 \/ i \in 2 .. Len(q)
  BY <1>1
<1>6. ASSUME NEW i \in 1 .. Len(q) PROVE q[i] \in {Head(q)} \union Range(Tail(q))
  <2>1. CASE i \in 2 .. Len(q)
    BY <1>2, <1>3, <2>1
  <2> QED
    BY <1>1, <1>5, <2>1
<1>7. {Head(q)} \union Range(Tail(q)) \subseteq Range(q)
  BY <1>1, <1>2, <1>4
<1>8. Range(q) \subseteq S
  BY RangeOfSeq
<1>9. Range(q) \subseteq {Head(q)} \union Range(Tail(q))
  BY <1>2, <1>6
<1> QED
  BY <1>1, <1>7, <1>8, <1>9

LEMMA RangeIf ==
    ASSUME NEW S, NEW q \in Seq(S), NEW cond \in BOOLEAN, NEW p
    PROVE  /\ cond => Range(If(cond, p) \o q) = Range(p \o q)
           /\ ~cond => Range(If(cond, p) \o q) = Range(q)
<1>1. << >> \o q = q
  BY ConcatEmptySeq
<1>2. cond => If(cond, p) = p
  BY DEF If
<1>3. ~cond => If(cond, p) = << >>
  BY DEF If
<1> QED
  BY <1>1, <1>2, <1>3

LEMMA RangeBefore ==
    ASSUME NEW S, NEW q \in Seq(S), NEW T, NEW p \in Seq(T)
    PROVE  Range(p \o q) = Range(p) \union Range(q)
<1>1. p \in Seq(S \union T) /\ q \in Seq(S \union T)
  BY SubSeqs
<1> QED
  BY <1>1, RangeConcatenation

LEMMA OneBefore ==
    ASSUME NEW S, NEW q \in Seq(S), NEW t
    PROVE  Range(<<t>> \o q) = {t} \union Range(q)
<1> DEFINE p == <<t>>
<1>1. p \in Seq({t})
  OBVIOUS
<1>2. Range(p) = {t}
  BY RangeOne
<1> HIDE DEF p
<1>3. Range(p \o q) = {t} \union Range(q)
  BY <1>1, <1>2, RangeBefore
<1> QED
  BY <1>3 DEF p

LEMMA TwoBefore ==
    ASSUME NEW S, NEW q \in Seq(S), NEW t, NEW u
    PROVE  Range(<<t, u>> \o q) = {t, u} \union Range(q)
<1> DEFINE p == <<t, u>>
<1>1. p \in Seq({t, u})
  OBVIOUS
<1>2. Range(p) = {t, u}
  BY RangeTwo
<1> HIDE DEF p
<1>3. Range(p \o q) = {t, u} \union Range(q)
  BY <1>1, <1>2, RangeBefore
<1> QED
  BY <1>3 DEF p

\* A task done leaves the others, and at times one or two that it finds to be done next.
LEMMA TaskDone ==
    ASSUME IInv, Install \/ Remove
    PROVE  /\ Running /\ todo # << >> /\ UNCHANGED <<cmd, world>> /\ copy' = None
           /\ Head(todo) \in LeftTasks /\ LeftTasks \subseteq Legit
           /\ LeftTasks = {Head(todo)} \union Range(Tail(todo))
           /\ Range(Tail(todo)) \subseteq LeftTasks'
           /\ \A t \in LeftTasks' \ Range(Tail(todo)) :
                  \/ AddServer /\ agent = "codex" /\ t = Task("recordOwner", Head(todo).arg)
                  \/ CheckStatusLine /\ OwnsLine(line, cmd.ref) /\ t = Task("clearStatusLine", None)
                  \/ ReadLedger /\ t \in {Task("removeServers", None), Task("writeLedger", None)}
<1>1. /\ Running /\ todo # << >> /\ UNCHANGED <<cmd, world>> /\ copy' = None
  BY DEF Install, Remove, WriteScript, MergeHooks, SetStatusLine, AddServer, Record, WriteRule,
     UpsertBlock, RemoveScripts, RemoveHooks, CheckStatusLine, ClearStatusLine, ReadLedger,
     RemoveServers, WriteLedger, RemoveRule, StripBlock, Doing, GoOn, Goto
<1>2. todo \in Seq(Legit) /\ Tail(todo) \in Seq(Legit) /\ Head(todo) \in Legit
  BY <1>1, NextTask DEF IInv, Underway
<1>3. /\ LeftTasks = {Head(todo)} \union Range(Tail(todo))
      /\ Head(todo) \in LeftTasks /\ LeftTasks \subseteq Legit
  BY <1>1, <1>2, HeadOfTail DEF LeftTasks
<1>4. CASE AddServer
  <2> DEFINE new == Task("recordOwner", Head(todo).arg)
  <2>1. todo' = If(agent = "codex", <<new>>) \o Tail(todo)
    BY <1>4 DEF AddServer, Goto
  <2>2. Range(<<new>> \o Tail(todo)) = {new} \union Range(Tail(todo))
    BY <1>2, OneBefore
  <2>3. IF agent = "codex" THEN Range(todo') = {new} \union Range(Tail(todo)) ELSE Range(todo') = Range(Tail(todo))
    BY <1>2, <2>1, <2>2, RangeIf
  <2> QED
    BY <1>1, <1>3, <1>4, <2>3 DEF LeftTasks
<1>5. CASE CheckStatusLine
  <2> DEFINE new == Task("clearStatusLine", None)
  <2>1. todo' = If(OwnsLine(line, cmd.ref), <<new>>) \o Tail(todo)
    BY <1>5 DEF CheckStatusLine, Goto
  <2>2. Range(<<new>> \o Tail(todo)) = {new} \union Range(Tail(todo))
    BY <1>2, OneBefore
  <2>3. OwnsLine(line, cmd.ref) \in BOOLEAN
    BY DEF OwnsLine
  <2>4. IF OwnsLine(line, cmd.ref) THEN Range(todo') = {new} \union Range(Tail(todo)) ELSE Range(todo') = Range(Tail(todo))
    BY <1>2, <2>1, <2>2, <2>3, RangeIf
  <2> QED
    BY <1>1, <1>3, <1>5, <2>4 DEF LeftTasks
<1>6. CASE ReadLedger
  <2> DEFINE new == <<Task("removeServers", None), Task("writeLedger", None)>>
             cond == \E o \in ledger : o.owner = cmd.ref
  <2>1. todo' = If(cond, new) \o Tail(todo)
    BY <1>6 DEF ReadLedger, Goto
  <2>2. Range(new \o Tail(todo)) = {Task("removeServers", None), Task("writeLedger", None)} \union Range(Tail(todo))
    BY <1>2, TwoBefore
  <2>3. IF cond THEN Range(todo') = {Task("removeServers", None), Task("writeLedger", None)} \union Range(Tail(todo))
                ELSE Range(todo') = Range(Tail(todo))
    BY <1>2, <2>1, <2>2, RangeIf
  <2> QED
    BY <1>1, <1>3, <1>6, <2>3 DEF LeftTasks
<1>7. CASE todo' = Tail(todo)
  BY <1>1, <1>3, <1>7 DEF LeftTasks
<1> QED
  BY <1>4, <1>5, <1>6, <1>7 DEF Install, Remove, WriteScript, MergeHooks, SetStatusLine, Record, WriteRule,
     UpsertBlock, RemoveScripts, RemoveHooks, ClearStatusLine,
     RemoveServers, WriteLedger, RemoveRule, StripBlock, GoOn, Goto

\* What an installation of a setup starts with.
LEMMA SetupTasksRange ==
    ASSUME NEW b \in Bundle
    PROVE  Range(SetupTasks(b)) =
               UNION {{Task("writeScript", Content[b].scripts[i]) : i \in DOMAIN Content[b].scripts},
                      IF Content[b].events # {} THEN {Task("mergeHooks", None)} ELSE {},
                      IF Content[b].line /\ agent # "codex" THEN {Task("setStatusLine", None)} ELSE {},
                      {Task("upsertServer", Content[b].mcps[i]) : i \in DOMAIN Content[b].mcps}}
<1> DEFINE c == Content[b]
           T == {Task(do, x) : do \in Tasks, x \in File \union Name \union {None}}
           q1 == Each("writeScript", c.scripts)
           q2 == If(c.events # {}, <<Task("mergeHooks", None)>>)
           q3 == If(c.line /\ agent # "codex", <<Task("setStatusLine", None)>>)
           q4 == Each("upsertServer", c.mcps)
<1>1. c.scripts \in Seq(File) /\ c.mcps \in Seq(Name)
  BY SetupAssumption DEF SetupAssumption, ContentType
<1>2. \A do \in Tasks, x \in File \union Name \union {None} : Task(do, x) \in T
  OBVIOUS
<1>3. q1 \in Seq(T) /\ q4 \in Seq(T)
  <2>1. \A f \in File : Task("writeScript", f) \in T
    BY <1>2 DEF Tasks
  <2>2. \A n \in Name : Task("upsertServer", n) \in T
    BY <1>2 DEF Tasks
  <2> HIDE DEF T
  <2> QED
    BY <1>1, <2>1, <2>2, EachSeq
<1>4. q2 \in Seq(T) /\ q3 \in Seq(T)
  <2>1. Task("mergeHooks", None) \in T /\ Task("setStatusLine", None) \in T
    BY <1>2 DEF Tasks
  <2> HIDE DEF T
  <2> QED
    BY <2>1 DEF If
<1>5. /\ Range(q1) = {Task("writeScript", c.scripts[i]) : i \in DOMAIN c.scripts}
      /\ Range(q4) = {Task("upsertServer", c.mcps[i]) : i \in DOMAIN c.mcps}
  BY DEF Range, Each
<1>6. /\ Range(q2) = IF c.events # {} THEN {Task("mergeHooks", None)} ELSE {}
      /\ Range(q3) = IF c.line /\ agent # "codex" THEN {Task("setStatusLine", None)} ELSE {}
  BY RangeOne, RangeEmpty DEF If
<1>7. SetupTasks(b) = q1 \o q2 \o q3 \o q4
  BY DEF SetupTasks
<1> HIDE DEF T, q1, q2, q3, q4
<1>8. q1 \o q2 \in Seq(T) /\ q1 \o q2 \o q3 \in Seq(T)
  BY <1>3, <1>4, ConcatProperties
<1>9. Range(q1 \o q2 \o q3 \o q4) = Range(q1) \union Range(q2) \union Range(q3) \union Range(q4)
  <2>1. Range(q1 \o q2) = Range(q1) \union Range(q2)
    BY <1>3, <1>4, RangeConcatenation
  <2>2. Range((q1 \o q2) \o q3) = Range(q1 \o q2) \union Range(q3)
    BY <1>4, <1>8, RangeConcatenation
  <2>3. Range((q1 \o q2 \o q3) \o q4) = Range(q1 \o q2 \o q3) \union Range(q4)
    BY <1>3, <1>8, RangeConcatenation
  <2> QED
    BY <2>1, <2>2, <2>3
<1> QED
  BY <1>5, <1>6, <1>7, <1>9

\* The user's entries are told apart from each other and from those of packages.
LEMMA UserApart ==
    /\ \A k \in UserHooks : k.owner = None /\ k.from = User
    /\ UserLine \in Lines /\ UserLine.owner = None
    /\ UserServer.key = <<None, UserName>> /\ UserServer.owner = None
    /\ UserRule.slug = None
    /\ UserLine \notin UserHooks /\ UserServer \notin UserHooks /\ UserRule \notin UserHooks
    /\ UserLine # UserServer /\ UserLine # UserRule /\ UserServer # UserRule
<1>1. /\ \A k \in UserHooks : k.owner = None /\ k.from = User
      /\ UserServer.key = <<None, UserName>> /\ UserServer.owner = None
      /\ UserRule.slug = None
  BY DEF UserHooks, UserServer, UserRule
<1>2. UserLine \in Lines /\ UserLine.owner = None
  BY DEF UserLine, Lines
<1>3. UserLine \notin UserHooks
  BY DEF UserHooks, UserLine
<1>4. UserServer \notin UserHooks
  BY DEF UserHooks, UserServer
<1>5. UserRule \notin UserHooks
  BY DEF UserHooks, UserRule
<1>6. UserLine # UserServer /\ UserLine # UserRule /\ UserServer # UserRule
  BY DEF UserLine, UserServer, UserRule
<1> QED
  BY <1>1, <1>2, <1>3, <1>4, <1>5, <1>6

\* The tasks that write settings, servers or rules put nothing in the place of the user's.
LEMMA PoliteTask ==
    ASSUME IInv, Polite, Install \/ Remove
    PROVE  Polite'
<1>1. /\ Running /\ todo # << >> /\ cmd' = cmd /\ kept' = kept /\ agent' = agent /\ copy' = None
      /\ Head(todo) \in Legit /\ Head(todo) \in LeftTasks
      /\ cmd.ref \in Ref /\ (cmd.bundle \in Bundle => cmd.ref = Owner(cmd.bundle))
  BY TaskDone, NextTask DEF IInv, Underway
<1>2. \A t \in LeftTasks' : t.do \in {"setStatusLine", "clearStatusLine"} => UserLine \notin kept
  <2>1. ASSUME NEW t \in LeftTasks', t.do \in {"setStatusLine", "clearStatusLine"}, t \notin LeftTasks
        PROVE  CheckStatusLine /\ OwnsLine(line, cmd.ref)
    BY <2>1, TaskDone DEF Task
  <2>2. OwnsLine(line, cmd.ref) => UserLine \notin kept
    BY <1>1, NoneIsNothing, UserApart DEF Polite, KeptIn, OwnsLine
  <2> QED
    BY <1>1, <2>1, <2>2 DEF Polite
<1>3. \A k \in UserHooks : k \in kept => k \in hooks'
  <2>1. CASE MergeHooks
    <3>1. cmd.bundle \in Bundle /\ copy # None /\ hooks' = MergeOwnedHooks(copy.hooks, cmd.bundle)
      BY <1>1, <2>1 DEF MergeHooks, Doing, Legit
    <3> QED
      BY <1>1, <3>1, NoneIsNothing, UserApart DEF Polite, KeptIn, MergeOwnedHooks, Owner
  <2>2. CASE RemoveHooks
    BY <1>1, <2>2, NoneIsNothing, UserApart DEF Polite, KeptIn, RemoveHooks, RemoveOwnedHooks
  <2>3. CASE SetStatusLine \/ ClearStatusLine
    BY <2>3 DEF Polite, KeptIn, SetStatusLine, ClearStatusLine
  <2>4. CASE hooks' = hooks
    BY <2>4 DEF Polite, KeptIn
  <2> QED
    BY <2>1, <2>2, <2>3, <2>4 DEF Install, Remove, WriteScript, AddServer, Record, WriteRule, UpsertBlock,
       RemoveScripts, CheckStatusLine, ReadLedger, RemoveServers, WriteLedger, RemoveRule, StripBlock
<1>4. UserLine \in kept => line' = UserLine
  <2>1. CASE MergeHooks \/ RemoveHooks
    BY <2>1 DEF Polite, KeptIn, MergeHooks, RemoveHooks
  <2>2. CASE SetStatusLine \/ ClearStatusLine
    BY <1>1, <2>2 DEF Polite, SetStatusLine, ClearStatusLine, Doing
  <2>3. CASE line' = line
    BY <2>3 DEF Polite, KeptIn
  <2> QED
    BY <2>1, <2>2, <2>3 DEF Install, Remove, WriteScript, AddServer, Record, WriteRule, UpsertBlock,
       RemoveScripts, CheckStatusLine, ReadLedger, RemoveServers, WriteLedger, RemoveRule, StripBlock
<1>5. UserServer \in kept => UserServer \in servers'
  <2>1. CASE AddServer
    <3>1. /\ cmd.bundle \in Bundle /\ Head(todo).arg \in Name /\ copy # None
          /\ servers' = UpsertServer(copy.servers, cmd.bundle, Head(todo).arg)
      BY <1>1, <2>1 DEF AddServer, Doing, Legit, NamesOf
    <3>2. UserServer \in kept => UserServer.key # Key(cmd.ref, Head(todo).arg)
      <4>1. agent = "codex" => Head(todo).arg # UserName \/ UserServer \notin kept
        BY <1>1, <2>1 DEF Polite, Spared, AddServer, Doing
      <4>2. agent # "codex" => Key(cmd.ref, Head(todo).arg) # <<None, UserName>>
        BY <1>1, NoneIsNothing DEF Key
      <4> QED
        BY <4>1, <4>2, UserApart DEF Key
    <3> QED
      BY <1>1, <3>1, <3>2 DEF Polite, KeptIn, UpsertServer, Owner
  <2>2. CASE RemoveServers
    <3>1. copy # None /\ servers' \in {RemoveOwnedServers(copy.servers, cmd.ref), servers}
      BY <2>2 DEF RemoveServers
    <3>2. agent = "codex" /\ UserServer \in kept => UserName \notin OwnedNames(cmd.ref)
      BY <1>1 DEF Polite, Spared, OwnedNames
    <3>3. UserServer \in kept /\ UserServer \in copy.servers
              => UserServer \in RemoveOwnedServers(copy.servers, cmd.ref)
      BY <1>1, <3>2, NoneIsNothing, UserApart DEF RemoveOwnedServers
    <3> QED
      BY <3>1, <3>3 DEF Polite, KeptIn
  <2>3. CASE servers' = servers
    BY <2>3 DEF Polite, KeptIn
  <2> QED
    BY <2>1, <2>2, <2>3 DEF Install, Remove, WriteScript, MergeHooks, SetStatusLine, Record, WriteRule, UpsertBlock,
       RemoveScripts, RemoveHooks, CheckStatusLine, ClearStatusLine, ReadLedger, WriteLedger, RemoveRule, StripBlock
<1>6. UserRule \in kept => UserRule \in rules'
  <2>1. CASE WriteRule \/ UpsertBlock
    <3>1. /\ cmd.bundle \in Bundle
          /\ \/ rules' = PutRule(rules, cmd.bundle)
             \/ copy # None /\ rules' = PutRule(copy.rules, cmd.bundle)
      BY <1>1, <2>1 DEF WriteRule, UpsertBlock, Doing, Legit
    <3> QED
      BY <1>1, <3>1, NoneIsNothing, UserApart DEF Polite, KeptIn, PutRule, Owner
  <2>2. CASE RemoveRule \/ StripBlock
    BY <1>1, <2>2, NoneIsNothing, UserApart DEF Polite, KeptIn, RemoveRule, StripBlock, StripRule
  <2>3. CASE rules' = rules
    BY <2>3 DEF Polite, KeptIn
  <2> QED
    BY <2>1, <2>2, <2>3 DEF Install, Remove, WriteScript, MergeHooks, SetStatusLine, AddServer, Record,
       RemoveScripts, RemoveHooks, CheckStatusLine, ClearStatusLine, ReadLedger, RemoveServers, WriteLedger
<1>7. KeptIn(hooks, line, servers, rules)'
  BY <1>1, <1>3, <1>4, <1>5, <1>6 DEF KeptIn, UserHooks, UserLine, UserServer, UserRule
<1>8. Spared'
  <2> SUFFICES ASSUME agent = "codex", UserServer \in kept
               PROVE  /\ \A t \in LeftTasks' : t.do = "upsertServer" => t.arg # UserName
                      /\ cmd.bundle = None => \A o \in ledger' : o.owner = cmd.ref => o.name # UserName
                      /\ \A o \in owned' : o.owner = cmd.ref => o.name # UserName
    BY <1>1 DEF Spared, Running, UserServer
  <2>1. /\ \A t \in LeftTasks : t.do = "upsertServer" => t.arg # UserName
        /\ cmd.bundle = None => \A o \in ledger : o.owner = cmd.ref => o.name # UserName
        /\ \A o \in owned : o.owner = cmd.ref => o.name # UserName
    BY <1>1 DEF Polite, Spared
  <2>2. \A t \in LeftTasks' : t.do = "upsertServer" => t \in LeftTasks
    BY TaskDone DEF Task
  <2>3. CASE Record
    <3>1. cmd.bundle \in Bundle /\ owned' = owned
      BY <1>1, <2>3 DEF Record, Doing, Legit
    <3> QED
      BY <2>1, <2>2, <3>1, NoneIsNothing
  <2>4. CASE ReadLedger
    <3>1. cmd.bundle = None /\ owned' = ledger /\ ledger' = ledger
      BY <1>1, <2>4 DEF ReadLedger, Doing, Legit
    <3> QED
      BY <2>1, <2>2, <3>1
  <2>5. CASE WriteLedger
    BY <2>1, <2>2, <2>5 DEF WriteLedger
  <2>6. CASE UNCHANGED <<ledger, owned>>
    BY <2>1, <2>2, <2>6
  <2> QED
    BY <2>3, <2>4, <2>5, <2>6 DEF Install, Remove, WriteScript, MergeHooks, SetStatusLine, AddServer, WriteRule, UpsertBlock,
       RemoveScripts, RemoveHooks, CheckStatusLine, ClearStatusLine, RemoveServers, RemoveRule, StripBlock
<1> QED
  BY <1>1, <1>2, <1>7, <1>8 DEF Polite, Running, UserHooks, UserLine, UserServer, UserRule

\* Removals are two tasks and one or two that depend on the agent.
LEMMA TwoAndOne == \A a, b, c : <<a, b>> \o <<c>> = <<a, b, c>>
<1> TAKE a, b, c
<1> DEFINE s == <<a, b>>
           t == <<c>>
           u == <<a, b, c>>
<1>1. s \in Seq({a, b, c}) /\ t \in Seq({a, b, c}) /\ u \in Seq({a, b, c})
  OBVIOUS
<1>2. Len(s) = 2 /\ Len(t) = 1 /\ Len(u) = 3 /\ s[1] = a /\ s[2] = b /\ t[1] = c /\ u[1] = a /\ u[2] = b /\ u[3] = c
  OBVIOUS
<1> HIDE DEF s, t, u
<1>3. /\ s \o t \in Seq({a, b, c}) /\ Len(s \o t) = 3
      /\ \A i \in 1 .. 3 : (s \o t)[i] = IF i <= 2 THEN s[i] ELSE t[i - 2]
  <2>1. /\ s \o t \in Seq({a, b, c}) /\ Len(s \o t) = Len(s) + Len(t)
        /\ \A i \in 1 .. Len(s) + Len(t) :
             (s \o t)[i] = IF i <= Len(s) THEN s[i] ELSE t[i - Len(s)]
    BY <1>1, ConcatProperties
  <2>2. Len(s) + Len(t) = 3 /\ Len(s) = 2
    BY <1>2
  <2> QED
    BY <2>1, <2>2
<1>4. \A i \in 1 .. 3 : (s \o t)[i] = u[i]
  BY <1>2, <1>3
<1>5. s \o t = u
  BY <1>1, <1>2, <1>3, <1>4, SeqEqual
<1> QED
  BY <1>5 DEF s, t, u

LEMMA TwoAndTwo == \A a, b, c, d : <<a, b>> \o <<c, d>> = <<a, b, c, d>>
<1> TAKE a, b, c, d
<1> DEFINE s == <<a, b>>
           t == <<c, d>>
           u == <<a, b, c, d>>
<1>1. s \in Seq({a, b, c, d}) /\ t \in Seq({a, b, c, d}) /\ u \in Seq({a, b, c, d})
  OBVIOUS
<1>2. /\ Len(s) = 2 /\ Len(t) = 2 /\ Len(u) = 4 /\ s[1] = a /\ s[2] = b /\ t[1] = c /\ t[2] = d
      /\ u[1] = a /\ u[2] = b /\ u[3] = c /\ u[4] = d
  OBVIOUS
<1> HIDE DEF s, t, u
<1>3. /\ s \o t \in Seq({a, b, c, d}) /\ Len(s \o t) = 4
      /\ \A i \in 1 .. 4 : (s \o t)[i] = IF i <= 2 THEN s[i] ELSE t[i - 2]
  <2>1. /\ s \o t \in Seq({a, b, c, d}) /\ Len(s \o t) = Len(s) + Len(t)
        /\ \A i \in 1 .. Len(s) + Len(t) : (s \o t)[i] = IF i <= Len(s) THEN s[i] ELSE t[i - Len(s)]
    BY <1>1, ConcatProperties
  <2>2. Len(s) + Len(t) = 4
    BY <1>2
  <2> QED
    BY <1>2, <2>1, <2>2
<1>4. \A i \in 1 .. 4 : (s \o t)[i] = u[i]
  BY <1>2, <1>3
<1>5. s \o t = u
  BY <1>1, <1>2, <1>3, <1>4, SeqEqual
<1> QED
  BY <1>5 DEF s, t, u

\* What a removal starts with.
LEMMA RemoveTasksAre ==
    ASSUME NEW r \in Ref
    PROVE  /\ r \in RuleRef => Range(RemoveTasks(r)) \in {{Task("stripBlock", None)}, {Task("removeRule", None)}}
           /\ r \notin RuleRef /\ agent = "codex" =>
                  /\ RemoveTasks(r) = <<Task("removeScripts", None), Task("removeHooks", None), Task("readLedger", None)>>
                  /\ Range(RemoveTasks(r)) =
                         {Task("removeScripts", None), Task("removeHooks", None), Task("readLedger", None)}
           /\ r \notin RuleRef /\ agent # "codex" =>
                  Range(RemoveTasks(r)) = {Task("removeScripts", None), Task("removeHooks", None),
                                           Task("checkStatusLine", None), Task("removeServers", None)}
<1>1. CASE r \in RuleRef
  BY <1>1, RangeOne DEF RemoveTasks
<1>2. CASE r \notin RuleRef /\ agent = "codex"
  <2>1. RemoveTasks(r) = <<Task("removeScripts", None), Task("removeHooks", None), Task("readLedger", None)>>
    BY <1>2, TwoAndOne DEF RemoveTasks, RemoveSetupTasks
  <2> QED
    BY <1>2, <2>1, RangeThree
<1>3. CASE r \notin RuleRef /\ agent # "codex"
  <2>1. RemoveTasks(r) = <<Task("removeScripts", None), Task("removeHooks", None),
                           Task("checkStatusLine", None), Task("removeServers", None)>>
    BY <1>3, TwoAndTwo DEF RemoveTasks, RemoveSetupTasks
  <2> QED
    BY <1>3, <2>1, RangeFour
<1> QED
  BY <1>1, <1>2, <1>3

\* A command that has begun runs.
LEMMA BegunRuns ==
    /\ \A b \in Bundle : [bundle |-> b, ref |-> Owner(b)] # None
    /\ \A r \in Ref : [bundle |-> None, ref |-> r] # None
BY NoneAssumption, OwnerIsRef DEF NoneAssumption, Commands

\* A line in the settings is told apart from none.
LEMMA LineIsThere ==
    /\ \A b \in Bundle, r \in Ref : [owner |-> r, from |-> b] # None
    /\ UserLine # None
BY NoneAssumption DEF NoneAssumption, Lines, UserLine

LEMMA PoliteStart ==
    ASSUME IInv, Polite,
           (\E b \in Bundle : InstallPackage(b)) \/ (\E r \in Ref : RemovePackage(r))
    PROVE  Polite'
<1>1. /\ UNCHANGED <<hooks, line, servers, rules, copy, ledger, owned, agent>> /\ copy = None
      /\ owned = {}
  BY DEF InstallPackage, RemovePackage, Begin, Polite, Spared
<1>2. ASSUME NEW b \in Bundle, InstallPackage(b) PROVE Polite'
  <2> cmd' = [bundle |-> b, ref |-> Owner(b)] /\ Running'
    BY <1>2, BegunRuns DEF InstallPackage, Running, Owner
  <2>1. kept' = (IF Content[b].line THEN kept \ Lines ELSE kept) \ GivenUp(NamesIn(b))
    BY <1>2 DEF InstallPackage
  <2>0. kept' \subseteq kept
    BY <2>1
  <2>2. KeptIn(hooks, line, servers, rules)'
    BY <1>1, <2>0 DEF Polite, KeptIn, UserHooks, UserLine, UserServer, UserRule
  <2>3. \A t \in Range(InstallTasks(b)) :
            /\ t.do # "clearStatusLine"
            /\ t.do = "setStatusLine" => Content[b].line
    <3>1. CASE Content[b].owner \in RuleRef
      BY <3>1, RangeOne DEF InstallTasks, Task
    <3>2. CASE Content[b].owner \notin RuleRef
      BY <3>2, SetupTasksRange DEF InstallTasks, Task
    <3> QED
      BY <3>1, <3>2
  <2>4. LeftTasks' = Range(InstallTasks(b))
    BY <1>2 DEF InstallPackage, LeftTasks
  <2>5. Content[b].line => UserLine \notin kept'
    BY <2>1, UserApart
  <2>6. \A t \in Range(InstallTasks(b)) : t.do = "upsertServer" => t.arg \in NamesIn(b)
    <3>1. CASE Content[b].owner \in RuleRef
      BY <3>1, RangeOne DEF InstallTasks, Task
    <3>2. CASE Content[b].owner \notin RuleRef
      BY <3>2, SetupTasksRange DEF InstallTasks, Task, NamesIn
    <3> QED
      BY <3>1, <3>2
  <2>7. Spared'
    <3>1. agent = "codex" /\ UserServer \in kept' => UserName \notin NamesIn(b)
      BY <2>1 DEF GivenUp
    <3> QED
      BY <1>1, <2>4, <2>6, <3>1, NoneIsNothing DEF Spared, UserServer
  <2>8. \A t \in LeftTasks' : t.do \in {"setStatusLine", "clearStatusLine"} => UserLine \notin kept'
    BY <2>3, <2>4, <2>5
  <2> QED
    BY <1>1, <2>0, <2>2, <2>7, <2>8 DEF Polite, UserHooks, UserLine, UserServer, UserRule
<1>3. ASSUME NEW r \in Ref, RemovePackage(r) PROVE Polite'
  <2> cmd' = [bundle |-> None, ref |-> r] /\ Running'
    BY <1>3, BegunRuns DEF RemovePackage, Running
  <2>1. /\ kept' = kept \ GivenUp({o.name : o \in {x \in ledger : x.owner = r}})
        /\ LeftTasks' = Range(RemoveTasks(r))
    BY <1>3 DEF RemovePackage, LeftTasks
  <2>0. kept' \subseteq kept
    BY <2>1
  <2>2. KeptIn(hooks, line, servers, rules)'
    BY <1>1, <2>0 DEF Polite, KeptIn, UserHooks, UserLine, UserServer, UserRule
  <2>3. \A t \in LeftTasks' : t.do \notin {"setStatusLine", "clearStatusLine", "upsertServer"}
    BY <2>1, RemoveTasksAre DEF Task
  <2>4. Spared'
    <3>1. ASSUME agent = "codex", UserServer \in kept' PROVE \A o \in ledger : o.owner = r => o.name # UserName
      BY <2>1, <3>1 DEF GivenUp
    <3> QED
      BY <1>1, <2>3, <3>1 DEF Spared, UserServer
  <2> QED
    BY <1>1, <2>0, <2>2, <2>3, <2>4 DEF Polite, UserHooks, UserLine, UserServer, UserRule
<1> QED
  BY <1>2, <1>3

LEMMA PoliteEdit ==
    ASSUME IInv, Polite, UserEdits
    PROVE  Polite'
<1>1. UNCHANGED <<cmd, todo, copy, ledger, owned, agent>>
  BY DEF UserEdits, EditHook, EditLine, EditServer, EditAgentsMd, Edit
<1>2. PICK mine :
          /\ kept' = IF Running THEN kept ELSE kept \union {mine}
          /\ \/ mine \in UserHooks /\ hooks' = hooks \union {mine} /\ UNCHANGED <<line, servers, rules>>
             \/ mine = UserLine /\ line' = mine /\ UNCHANGED <<hooks, servers, rules>>
             \/ mine = UserServer /\ servers' = servers \union {mine} /\ UNCHANGED <<hooks, line, rules>>
             \/ mine = UserRule /\ rules' = rules \union {mine} /\ UNCHANGED <<hooks, line, servers>>
  <2>1. CASE \E e \in Event : EditHook(e)
    BY <2>1 DEF EditHook, Edit, UserHooks
  <2>2. CASE EditLine
    BY <2>2 DEF EditLine, Edit, UserLine
  <2>3. CASE EditServer
    BY <2>3 DEF EditServer, Edit, UserServer
  <2>4. CASE EditAgentsMd
    BY <2>4 DEF EditAgentsMd, Edit, UserRule
  <2> QED
    BY <2>1, <2>2, <2>3, <2>4 DEF UserEdits
<1>3. KeptIn(hooks, line, servers, rules)'
  <2>1. /\ \A k \in UserHooks : k \in kept' => k \in hooks'
        /\ UserLine \in kept' => line' = UserLine
        /\ UserServer \in kept' => UserServer \in servers'
        /\ UserRule \in kept' => UserRule \in rules'
    BY <1>2, UserApart DEF Polite, KeptIn
  <2> QED
    BY <2>1 DEF KeptIn, UserHooks, UserLine, UserServer, UserRule
<1>4. kept' \subseteq UserHooks \union {UserLine, UserServer, UserRule}
  BY <1>2 DEF Polite
<1>5. CASE Running
  <2>1. kept' = kept
    BY <1>2, <1>5
  <2> QED
    BY <1>1, <1>3, <1>5, <2>1 DEF Polite, Spared, KeptIn, Running, LeftTasks, UserHooks, UserLine, UserServer, UserRule
<1>6. CASE ~Running
  BY <1>1, <1>3, <1>4, <1>6, RangeEmpty DEF Polite, Spared, KeptIn, Running, LeftTasks, UserHooks, UserLine, UserServer, UserRule
<1> QED
  BY <1>5, <1>6

LEMMA PoliteRest ==
    ASSUME IInv, Polite, ReadCopy \/ Finish \/ Die \/ UNCHANGED vars
    PROVE  Polite'
<1> USE DEF UserHooks, UserLine, UserServer, UserRule
<1>1. CASE ReadCopy
  <2>1. copy' = [hooks |-> hooks, line |-> line, servers |-> servers, rules |-> rules]
        /\ UNCHANGED <<hooks, line, servers, rules, ledger, owned, agent, cmd, todo, kept>> /\ Running
    BY <1>1 DEF ReadCopy
  <2> QED
    BY <2>1 DEF Polite, Spared, KeptIn, Running, LeftTasks
<1>2. CASE Finish \/ Die
  <2>1. /\ cmd' = None /\ todo' = << >> /\ copy' = None /\ owned' = {}
        /\ UNCHANGED <<hooks, line, servers, rules, kept>>
    BY <1>2 DEF Finish, Die, Stop
  <2> QED
    BY <2>1, RangeEmpty DEF Polite, Spared, KeptIn, Running, LeftTasks
<1>3. CASE UNCHANGED vars
  BY <1>3 DEF vars, Polite, Spared, KeptIn, Running, LeftTasks
<1> QED
  BY <1>1, <1>2, <1>3

LEMMA NextPolite == IInv /\ Polite /\ [Next]_vars => Polite'
BY PoliteStart, PoliteTask, PoliteEdit, PoliteRest DEF Next

LEMMA InitPolite == Init => Polite
BY RangeEmpty DEF Init, Polite, Spared, KeptIn, Running, LeftTasks

\* Nothing the user has written while no command ran is lost, whatever commands
\* are run then, wherever they die and whatever is edited in between, for every
\* catalog: what belongs to no package has no tag to be found by (hooks-format,
\* agents-md, the configs' servers).  What the files have room for once is kept
\* as long as no command is for it, too: the statusLine until a bundle with one
\* is installed, a server of codex until a bundle with one of that name is, or
\* the package that the ledger has for that name is removed.
THEOREM UserEntriesKept == Spec => []UserKept
<1>1. IInv /\ [Next]_vars => IInv'
  BY NextIInv
<1>2. Polite => UserKept
  BY DEF Polite, KeptIn, UserKept
<1> QED
  BY <1>1, <1>2, NextPolite, InitPolite, InitIInv, PTL DEF Spec

(***************************************************************************)
(* The statusLine.  A copy of it is the line itself or one that the user   *)
(* has since written over, and either fits what the commands have come to. *)
(***************************************************************************)

Installing == {"writeScript", "mergeHooks", "setStatusLine", "upsertServer", "recordOwner",
               "writeRule", "upsertBlock"}
OnRules == {"writeRule", "removeRule", "upsertBlock", "stripBlock"}

\* A package that is installed and has brought a line that it may claim.
HasLine(q) == status[q] \in Bundle /\ Content[status[q]].line /\ Claimed(q)

\* A command has its package in between and tasks of one sort.
Sorted ==
    /\ status \in [Ref -> Bundle \union {Gone, None}]
    /\ Running =>
           /\ status[cmd.ref] = None
           /\ cmd.bundle \in Bundle \union {None}
           /\ cmd.bundle \in Bundle /\ Content[cmd.bundle].line => claim \in {None, cmd.ref}
           /\ \A t \in LeftTasks :
                  /\ t.do \in Installing <=> cmd.bundle \in Bundle
                  /\ t.do \in OnRules <=> cmd.ref \in RuleRef
                  /\ t.do = "setStatusLine" => Content[cmd.bundle].line /\ agent # "codex"
                  /\ t.do = "clearStatusLine" => \A q \in Ref : ~HasLine(q)

SetBy(l, r) == OwnsLine(l, r) \/ l = UserLine

LineFits(l) ==
    /\ agent = "codex" => l = None
    /\ \A r \in Ref :
           /\ status[r] = Gone \/ r \in RuleRef => ~OwnsLine(l, r)
           /\ HasLine(r) => SetBy(l, r)

\* What the line is once the task is done that sets or clears it.
LineDone(l) ==
    Running =>
        /\ cmd.bundle \in Bundle /\ Content[cmd.bundle].line /\ agent # "codex" /\ ~Left("setStatusLine")
               => SetBy(l, cmd.ref)
        /\ cmd.bundle = None /\ ~Left("checkStatusLine") /\ ~Left("clearStatusLine")
               => ~OwnsLine(l, cmd.ref)

LineInv ==
    /\ LineFits(line) /\ LineDone(line)
    /\ copy # None => LineFits(copy.line) /\ LineDone(copy.line) /\ line \in {copy.line, UserLine}

\* The user's own line is in nobody's way.
LEMMA UserLineFits ==
    ASSUME agent # "codex", cmd.ref \in Ref \/ ~Running
    PROVE  LineFits(UserLine) /\ LineDone(UserLine)
BY UserApart, NoneIsNothing DEF LineFits, LineDone, SetBy, OwnsLine

\* A task stays left until it is the first.
LEMMA StillLeft ==
    ASSUME IInv, Install \/ Remove, NEW do, Left(do), Head(todo).do # do
    PROVE  Left(do)'
BY TaskDone DEF Left

\* A task that is left may be one that was, or one just found to be next.
LEMMA WasLeft ==
    ASSUME IInv, Install \/ Remove, NEW do, Left(do)', ~Left(do)
    PROVE  \/ AddServer /\ agent = "codex" /\ do = "recordOwner"
           \/ CheckStatusLine /\ do = "clearStatusLine"
           \/ ReadLedger /\ do \in {"removeServers", "writeLedger"}
BY TaskDone DEF Left, Task

LEMMA SortedTask ==
    ASSUME IInv, Sorted, LineInv, Install \/ Remove
    PROVE  Sorted'
<1>1. /\ Running /\ UNCHANGED <<cmd, agent, claim, status>> /\ Head(todo) \in LeftTasks
      /\ cmd.ref \in Ref
  BY TaskDone DEF IInv, Underway
<1>2. Running' /\ UNCHANGED <<status, claim, cmd>> /\ \A q \in Ref : HasLine(q)' <=> HasLine(q)
  BY <1>1 DEF Running, HasLine, Claimed
<1>3. ASSUME NEW t \in LeftTasks'
      PROVE  /\ t.do \in Installing <=> cmd.bundle \in Bundle
             /\ t.do \in OnRules <=> cmd.ref \in RuleRef
             /\ t.do = "setStatusLine" => Content[cmd.bundle].line /\ agent # "codex"
             /\ t.do = "clearStatusLine" => \A q \in Ref : ~HasLine(q)
  <2>1. CASE t \in LeftTasks
    BY <1>1, <2>1 DEF Sorted
  <2>2. CASE AddServer /\ t = Task("recordOwner", Head(todo).arg)
    <3>1. Head(todo).do = "upsertServer"
      BY <2>2 DEF AddServer, Doing
    <3> QED
      BY <1>1, <2>2, <3>1 DEF Sorted, Task, Installing, OnRules
  <2>3. CASE CheckStatusLine /\ OwnsLine(line, cmd.ref) /\ t = Task("clearStatusLine", None)
    <3>1. Head(todo).do = "checkStatusLine"
      BY <2>3 DEF CheckStatusLine, Doing
    <3>2. ASSUME NEW q \in Ref, HasLine(q) PROVE FALSE
      <4>1. status[cmd.ref] = None /\ SetBy(line, q)
        BY <1>1, <3>2 DEF Sorted, LineInv, LineFits
      <4>2. line.owner = cmd.ref
        BY <2>3 DEF OwnsLine
      <4>3. line # UserLine
        BY <1>1, <4>2, UserApart, NoneIsNothing
      <4>4. q = cmd.ref
        BY <4>1, <4>2, <4>3 DEF SetBy, OwnsLine
      <4> QED
        BY <3>2, <4>1, <4>4, NoneIsNothing DEF HasLine
    <3> QED
      BY <1>1, <2>3, <3>1, <3>2 DEF Sorted, Task, Installing, OnRules
  <2>4. CASE ReadLedger /\ t \in {Task("removeServers", None), Task("writeLedger", None)}
    <3>1. Head(todo).do = "readLedger"
      BY <2>4 DEF ReadLedger, Doing
    <3> QED
      BY <1>1, <2>4, <3>1 DEF Sorted, Task, Installing, OnRules
  <2> QED
    BY <2>1, <2>2, <2>3, <2>4, TaskDone
<1> QED
  BY <1>1, <1>2, <1>3 DEF Sorted

LEMMA LineTask ==
    ASSUME IInv, Sorted, LineInv, Install \/ Remove
    PROVE  LineInv'
<1>1. /\ Running /\ UNCHANGED <<cmd, agent, claim, status>> /\ Head(todo) \in LeftTasks /\ Head(todo) \in Legit
      /\ cmd.ref \in Ref /\ (cmd.bundle \in Bundle => cmd.ref = Owner(cmd.bundle)) /\ copy' = None
  BY TaskDone DEF IInv, Underway
<1>2. /\ LineFits(line)' <=> LineFits(line')
      /\ Running' /\ cmd' = cmd
  BY <1>1 DEF LineFits, HasLine, Claimed, SetBy, UserLine, OwnsLine, Running
<1>3. CASE line' \in {line, IF copy = None THEN line ELSE copy.line}
           /\ Head(todo).do \notin {"setStatusLine", "checkStatusLine", "clearStatusLine"}
  <2>1. LineFits(line') /\ LineDone(line')
    BY <1>3 DEF LineInv
  <2>2. /\ Left("setStatusLine") => Left("setStatusLine")'
        /\ Left("checkStatusLine") => Left("checkStatusLine")'
        /\ Left("clearStatusLine") => Left("clearStatusLine")'
    BY <1>3, StillLeft
  <2>3. LineDone(line)'
    BY <1>1, <1>2, <2>1, <2>2 DEF LineDone, SetBy, OwnsLine, UserLine
  <2> QED
    BY <1>1, <1>2, <2>1, <2>3 DEF LineInv
<1>4. CASE SetStatusLine
  <2>1. /\ cmd.bundle \in Bundle /\ Content[cmd.bundle].line /\ agent # "codex"
        /\ line' = [owner |-> cmd.ref, from |-> cmd.bundle]
        /\ status[cmd.ref] = None /\ claim \in {None, cmd.ref} /\ cmd.ref \notin RuleRef
    BY <1>1, <1>4 DEF SetStatusLine, Doing, Sorted, Installing, OnRules
  <2>2. line' # None /\ line'.owner = cmd.ref
    BY <1>1, <2>1, LineIsThere
  <2>3. LineFits(line')
    BY <1>1, <2>1, <2>2, NoneIsNothing, SetupAssumption DEF SetupAssumption, LineFits, HasLine, Claimed, OwnsLine
  <2>4. LineDone(line)'
    BY <1>1, <1>2, <2>1, <2>2, NoneIsNothing DEF LineDone, SetBy, OwnsLine
  <2> QED
    BY <1>1, <1>2, <2>3, <2>4 DEF LineInv
<1>5. CASE CheckStatusLine
  <2>1. /\ line' = line /\ cmd.bundle \notin Bundle
        /\ todo' = If(OwnsLine(line, cmd.ref), <<Task("clearStatusLine", None)>>) \o Tail(todo)
    BY <1>1, <1>5 DEF CheckStatusLine, Doing, Goto, Sorted, Installing
  <2>2. OwnsLine(line, cmd.ref) => Left("clearStatusLine")'
    <3>1. ASSUME OwnsLine(line, cmd.ref) PROVE Task("clearStatusLine", None) \in LeftTasks'
      <4>1. todo' = <<Task("clearStatusLine", None)>> \o Tail(todo)
        BY <2>1, <3>1 DEF If
      <4>2. Tail(todo) \in Seq(Legit)
        BY <1>1, TaskDone, NextTask
      <4> QED
        BY <4>1, <4>2, OneBefore DEF LeftTasks
    <3> QED
      BY <3>1 DEF Left, Task
  <2>3. LineFits(line')
    BY <2>1 DEF LineInv
  <2>4. LineDone(line)'
    BY <1>1, <1>2, <2>1, <2>2 DEF LineDone, OwnsLine
  <2> QED
    BY <1>1, <1>2, <2>3, <2>4 DEF LineInv
<1>6. CASE ClearStatusLine
  <2>1. /\ copy # None /\ line' = IF copy.line # None THEN None ELSE line
        /\ cmd.bundle \notin Bundle /\ \A q \in Ref : ~HasLine(q)
    BY <1>1, <1>6 DEF ClearStatusLine, Doing, Sorted, Installing
  <2>2. line' \in {None, UserLine} /\ (agent = "codex" => line' = None)
    BY <2>1 DEF LineInv, LineFits
  <2>3. \A r \in Ref : ~OwnsLine(line', r)
    BY <2>2, UserApart, NoneIsNothing DEF OwnsLine
  <2>4. LineFits(line')
    BY <2>1, <2>2, <2>3 DEF LineFits
  <2>5. LineDone(line)'
    BY <1>1, <1>2, <2>1, <2>3 DEF LineDone, OwnsLine
  <2> QED
    BY <1>1, <1>2, <2>4, <2>5 DEF LineInv
<1> QED
  BY <1>3, <1>4, <1>5, <1>6 DEF Install, Remove, WriteScript, MergeHooks, AddServer, Record, WriteRule,
     UpsertBlock, RemoveScripts, RemoveHooks, ReadLedger, RemoveServers, WriteLedger, RemoveRule, StripBlock, Doing

LEMMA LineStart ==
    ASSUME IInv, Polite, Sorted, LineInv,
           (\E b \in Bundle : InstallPackage(b)) \/ (\E r \in Ref : RemovePackage(r))
    PROVE  Sorted' /\ LineInv'
<1>1. /\ ~Running /\ copy = None /\ UNCHANGED <<line, copy, agent, claim>>
  BY DEF InstallPackage, RemovePackage, Begin, Polite
<1>2. ASSUME NEW r \in Ref, status' = [status EXCEPT ![r] = None]
      PROVE  /\ status' \in [Ref -> Bundle \union {Gone, None}]
             /\ status'[r] = None
             /\ LineFits(line)'
  <2>1. \A q \in Ref : status'[q] = IF q = r THEN None ELSE status[q]
    BY <1>2 DEF Sorted
  <2>2. \A q \in Ref : (HasLine(q)' => HasLine(q)) /\ (status'[q] = Gone => status[q] = Gone)
    BY <1>1, <2>1, NoneIsNothing, SetupAssumption DEF SetupAssumption, HasLine, Claimed
  <2>3. LineFits(line)'
    BY <1>1, <2>2 DEF LineInv, LineFits, SetBy, OwnsLine, UserLine
  <2> QED
    BY <1>2, <2>1, <2>3 DEF Sorted
<1>3. ASSUME NEW b \in Bundle, InstallPackage(b) PROVE Sorted' /\ LineInv'
  <2>1. /\ cmd' = [bundle |-> b, ref |-> Owner(b)] /\ status' = [status EXCEPT ![Owner(b)] = None]
        /\ LeftTasks' = Range(InstallTasks(b)) /\ Owner(b) \in Ref
        /\ Content[b].line => claim \in {None, Owner(b)}
    BY <1>3, OwnerIsRef DEF InstallPackage, Begin, Owner, LeftTasks
  <2>2. /\ status' \in [Ref -> Bundle \union {Gone, None}] /\ status'[Owner(b)] = None /\ LineFits(line)'
    BY <1>2, <2>1
  <2>3. ASSUME NEW t \in LeftTasks'
        PROVE  /\ t.do \in Installing
               /\ t.do \in OnRules <=> Owner(b) \in RuleRef
               /\ t.do = "setStatusLine" => Content[b].line /\ agent # "codex"
               /\ t.do # "clearStatusLine"
    <3>1. CASE Owner(b) \in RuleRef
      BY <2>1, <2>3, <3>1, RangeOne DEF InstallTasks, Task, Installing, OnRules, Owner
    <3>2. CASE Owner(b) \notin RuleRef
      BY <2>1, <2>3, <3>2, SetupTasksRange DEF InstallTasks, Task, Installing, OnRules, Owner
    <3> QED
      BY <3>1, <3>2
  <2>4. Sorted'
    BY <1>1, <2>1, <2>2, <2>3 DEF Sorted
  <2>5. Content[b].line /\ agent # "codex" => Left("setStatusLine")'
    <3>1. ASSUME Content[b].line, agent # "codex" PROVE Task("setStatusLine", None) \in LeftTasks'
      <4>1. Owner(b) \notin RuleRef
        BY <3>1, SetupAssumption DEF SetupAssumption, Owner
      <4> QED
        BY <2>1, <3>1, <4>1, SetupTasksRange DEF InstallTasks, Owner
    <3> QED
      BY <3>1 DEF Left, Task
  <2>6. LineDone(line)'
    BY <1>1, <2>1, <2>5, NoneIsNothing DEF LineDone
  <2> QED
    BY <1>1, <2>2, <2>4, <2>6 DEF LineInv
<1>4. ASSUME NEW r \in Ref, RemovePackage(r) PROVE Sorted' /\ LineInv'
  <2>1. /\ cmd' = [bundle |-> None, ref |-> r] /\ status' = [status EXCEPT ![r] = None]
        /\ LeftTasks' = Range(RemoveTasks(r)) /\ agent' = agent
    BY <1>4 DEF RemovePackage, Begin, LeftTasks
  <2>2. /\ status' \in [Ref -> Bundle \union {Gone, None}] /\ status'[r] = None /\ LineFits(line)'
    BY <1>2, <2>1
  <2>3. ASSUME NEW t \in LeftTasks'
        PROVE  /\ t.do \notin Installing
               /\ t.do \in OnRules <=> r \in RuleRef
               /\ t.do \notin {"setStatusLine", "clearStatusLine"}
    BY <2>1, RemoveTasksAre DEF Task, Installing, OnRules
  <2>4. Sorted'
    BY <1>1, <2>1, <2>2, <2>3, NoneIsNothing DEF Sorted
  <2>5. OwnsLine(line, r) => Left("checkStatusLine")'
    <3>1. ASSUME OwnsLine(line, r) PROVE r \notin RuleRef /\ agent # "codex"
      BY <3>1 DEF LineInv, LineFits, OwnsLine
    <3>2. OwnsLine(line, r) => Task("checkStatusLine", None) \in LeftTasks'
      BY <2>1, <3>1, RemoveTasksAre
    <3> QED
      BY <3>2 DEF Left, Task
  <2>6. LineDone(line)'
    BY <1>1, <2>1, <2>5, NoneIsNothing DEF LineDone, OwnsLine
  <2> QED
    BY <1>1, <2>2, <2>4, <2>6 DEF LineInv
<1> QED
  BY <1>3, <1>4

LEMMA LineEdit ==
    ASSUME IInv, Sorted, LineInv, UserEdits
    PROVE  Sorted' /\ LineInv'
<1>1. UNCHANGED <<cmd, todo, copy, agent, claim, status>>
  BY DEF UserEdits, EditHook, EditLine, EditServer, EditAgentsMd, Edit
<1>2. Sorted'
  BY <1>1 DEF Sorted, Running, LeftTasks, HasLine, Claimed
<1>3. line' = line \/ (agent # "codex" /\ line' = UserLine)
  BY DEF UserEdits, EditHook, EditLine, EditServer, EditAgentsMd, UserLine
<1>4. Running => cmd.ref \in Ref
  BY DEF IInv, Underway
<1>5. LineFits(line') /\ LineDone(line') /\ (copy # None => line' \in {copy.line, UserLine})
  BY <1>3, <1>4, UserLineFits DEF LineInv
<1> QED
  BY <1>1, <1>2, <1>5 DEF LineInv, LineFits, LineDone, HasLine, Claimed, SetBy, OwnsLine, UserLine, Left, LeftTasks, Running

LEMMA LineRest ==
    ASSUME IInv, Sorted, LineInv, ReadCopy \/ Finish \/ Die \/ UNCHANGED vars
    PROVE  Sorted' /\ LineInv'
<1>1. CASE ReadCopy
  <2>1. copy'.line = line /\ UNCHANGED <<cmd, todo, line, agent, claim, status>>
    BY <1>1 DEF ReadCopy
  <2> QED
    BY <2>1 DEF Sorted, LineInv, LineFits, LineDone, HasLine, Claimed, SetBy, OwnsLine, UserLine, Left, LeftTasks, Running
<1>2. CASE Die
  <2>1. cmd' = None /\ copy' = None /\ UNCHANGED <<line, agent, claim, status>>
    BY <1>2 DEF Die, Stop
  <2> QED
    BY <2>1 DEF Sorted, LineInv, LineFits, LineDone, HasLine, Claimed, SetBy, OwnsLine, UserLine, Running
<1>3. CASE Finish
  <2> DEFINE r == cmd.ref
             b == cmd.bundle
  <2>1. /\ Running /\ todo = << >> /\ cmd' = None /\ copy' = None /\ UNCHANGED <<line, agent>>
        /\ status' = [status EXCEPT ![r] = IF b = None THEN Gone ELSE b]
        /\ claim' = IF b = None THEN IF claim = r THEN None ELSE claim
                                ELSE IF Content[b].line THEN r ELSE claim
    BY <1>3 DEF Finish, Stop
  <2>2. r \in Ref /\ b \in Bundle \union {None} /\ (b \in Bundle => r = Owner(b)) /\ status[r] = None
    BY <2>1 DEF IInv, Underway, Sorted
  <2>3. /\ status' \in [Ref -> Bundle \union {Gone, None}]
        /\ \A q \in Ref : status'[q] = IF q = r THEN IF b = None THEN Gone ELSE b ELSE status[q]
    BY <2>1, <2>2 DEF Sorted
  <2>4. ~Left("setStatusLine") /\ ~Left("checkStatusLine") /\ ~Left("clearStatusLine")
    BY <2>1, RangeEmpty DEF Left, LeftTasks
  <2>5. /\ b \in Bundle /\ Content[b].line /\ agent # "codex" => SetBy(line, r)
        /\ b = None => ~OwnsLine(line, r)
    BY <2>1, <2>4 DEF LineInv, LineDone
  <2>6. ASSUME NEW q \in Ref
        PROVE  /\ status'[q] = Gone \/ q \in RuleRef => ~OwnsLine(line, q)
               /\ HasLine(q)' => SetBy(line, q)
    <3>1. CASE q = r
      BY <2>1, <2>2, <2>3, <2>5, <3>1, SetupAssumption, NoneIsNothing
         DEF SetupAssumption, HasLine, Claimed, LineInv, LineFits
    <3>2. CASE q # r
      <4>1. HasLine(q)' => HasLine(q)
        BY <2>1, <2>2, <2>3, <3>2, NoneIsNothing DEF HasLine, Claimed
      <4> QED
        BY <2>3, <3>2, <4>1 DEF LineInv, LineFits
    <3> QED
      BY <3>1, <3>2
  <2>7. LineFits(line)'
    BY <2>1, <2>6 DEF LineFits, LineInv, SetBy, OwnsLine, UserLine
  <2> QED
    BY <2>1, <2>3, <2>7 DEF Sorted, LineInv, LineDone, Running
<1>4. CASE UNCHANGED vars
  BY <1>4 DEF vars, Sorted, LineInv, LineFits, LineDone, HasLine, Claimed, SetBy, OwnsLine, UserLine, Left, LeftTasks, Running
<1> QED
  BY <1>1, <1>2, <1>3, <1>4

LEMMA NextLine == IInv /\ Polite /\ Sorted /\ LineInv /\ [Next]_vars => Sorted' /\ LineInv'
BY LineStart, SortedTask, LineTask, LineEdit, LineRest DEF Next

LEMMA InitLine == Init => Sorted /\ LineInv
BY NoneIsNothing, SetupAssumption DEF SetupAssumption, Init, Sorted, LineInv, LineFits, LineDone, HasLine, OwnsLine, Running

(***************************************************************************)
(* Installations.  What the bundle brings is in its place, or the task     *)
(* that puts it there is left.                                             *)
(***************************************************************************)

InPlace(r, b) ==
    /\ r \in RuleRef => [slug |-> r, from |-> b] \in rules
    /\ \A i \in DOMAIN Content[b].scripts : [dir |-> r, file |-> Content[b].scripts[i], from |-> b] \in scripts
    /\ \A e \in Content[b].events : [event |-> e, owner |-> r, from |-> b] \in hooks
    /\ \A i \in DOMAIN Content[b].mcps :
           /\ ServerOf(b, Content[b].mcps[i]) \in servers
           /\ agent = "codex" => [name |-> Content[b].mcps[i], owner |-> r] \in ledger

Installed == \A r \in Ref, b \in Bundle : status[r] = b => Owner(b) = r /\ InPlace(r, b)

WrittenOrLeft(r, b) ==
    /\ r \in RuleRef => Left("writeRule") \/ Left("upsertBlock") \/ [slug |-> r, from |-> b] \in rules
    /\ \A i \in DOMAIN Content[b].scripts :
           \/ Task("writeScript", Content[b].scripts[i]) \in LeftTasks
           \/ [dir |-> r, file |-> Content[b].scripts[i], from |-> b] \in scripts
    /\ Left("mergeHooks") \/ \A e \in Content[b].events : [event |-> e, owner |-> r, from |-> b] \in hooks
    /\ \A i \in DOMAIN Content[b].mcps :
           \/ Task("upsertServer", Content[b].mcps[i]) \in LeftTasks
           \/ /\ ServerOf(b, Content[b].mcps[i]) \in servers
              /\ agent = "codex" => \/ Task("recordOwner", Content[b].mcps[i]) \in LeftTasks
                                    \/ [name |-> Content[b].mcps[i], owner |-> r] \in ledger

Installs == Running /\ cmd.bundle \in Bundle => WrittenOrLeft(cmd.ref, cmd.bundle)

\* A step that leaves a package's entries alone leaves them in place.
LEMMA InPlaceKept ==
    ASSUME NEW r \in Ref, NEW b \in Bundle, Owner(b) = r, InPlace(r, b),
           EntriesOf(r)' = EntriesOf(r), agent' = agent
    PROVE  InPlace(r, b)'
<1>1. /\ {s \in scripts : s.from \in From(r)} = {s \in scripts' : s.from \in From(r)}
      /\ {h \in hooks : h.from \in From(r)} = {h \in hooks' : h.from \in From(r)}
      /\ {s \in servers : s.from \in From(r)} = {s \in servers' : s.from \in From(r)}
      /\ {o \in ledger : o.owner = r} = {o \in ledger' : o.owner = r}
      /\ {x \in rules : x.from \in From(r)} = {x \in rules' : x.from \in From(r)}
  BY DEF EntriesOf
<1>2. b \in From(r)
  BY DEF From, Owner
<1>3. \A n : ServerOf(b, n).from = b /\ ServerOf(b, n)' = ServerOf(b, n)
  BY DEF ServerOf, Key, Tag
<1>4. r \in RuleRef => [slug |-> r, from |-> b] \in rules'
  <2>1. [slug |-> r, from |-> b].from = b
    OBVIOUS
  <2> QED
    BY <1>1, <1>2, <2>1 DEF InPlace
<1>5. \A i \in DOMAIN Content[b].scripts : [dir |-> r, file |-> Content[b].scripts[i], from |-> b] \in scripts'
  BY <1>1, <1>2 DEF InPlace
<1>6. \A e \in Content[b].events : [event |-> e, owner |-> r, from |-> b] \in hooks'
  BY <1>1, <1>2 DEF InPlace
<1>7. ASSUME NEW i \in DOMAIN Content[b].mcps
      PROVE  /\ ServerOf(b, Content[b].mcps[i])' \in servers'
             /\ agent = "codex" => [name |-> Content[b].mcps[i], owner |-> r] \in ledger'
  <2>1. ServerOf(b, Content[b].mcps[i]) \in servers'
    BY <1>1, <1>2, <1>3 DEF InPlace
  <2>2. agent = "codex" => [name |-> Content[b].mcps[i], owner |-> r] \in ledger'
    BY <1>1 DEF InPlace
  <2> QED
    BY <1>3, <2>1, <2>2
<1> QED
  BY <1>4, <1>5, <1>6, <1>7 DEF InPlace

LEMMA InstallsTask ==
    ASSUME IInv, Sorted, Installs, Install \/ Remove
    PROVE  Installs'
<1> SUFFICES ASSUME NEW b \in Bundle, NEW r \in Ref, cmd.bundle = b, cmd.ref = r
             PROVE  WrittenOrLeft(r, b)'
  BY TaskDone DEF Installs, Running, IInv, Underway
<1> DEFINE c == Content[b]
<1>1. /\ Running /\ UNCHANGED <<cmd, agent>> /\ Head(todo) \in LeftTasks /\ Head(todo) \in Legit
      /\ r = Owner(b)
  BY TaskDone DEF IInv, Underway
<1>2. WrittenOrLeft(r, b) /\ Head(todo).do \in Installing /\ r = Owner(b)
  BY <1>1 DEF Installs, Sorted
<1>3. \A t \in LeftTasks : t = Head(todo) \/ t \in LeftTasks'
  BY TaskDone
<1>4. r \in RuleRef => Left("writeRule")' \/ Left("upsertBlock")' \/ [slug |-> r, from |-> b] \in rules'
  <2>1. CASE WriteRule \/ UpsertBlock
    BY <1>1, <1>2, <2>1 DEF WriteRule, UpsertBlock, PutRule, Owner
  <2>2. CASE ~(WriteRule \/ UpsertBlock)
    <3>1. Head(todo).do \notin {"writeRule", "upsertBlock"} /\ rules' = rules
      BY <1>2, <2>2 DEF Installing, Install, Remove, WriteScript, MergeHooks, SetStatusLine, AddServer, Record,
         RemoveScripts, RemoveHooks, CheckStatusLine, ClearStatusLine, ReadLedger, RemoveServers, WriteLedger,
         RemoveRule, StripBlock, Doing
    <3> QED
      BY <1>2, <3>1, StillLeft DEF WrittenOrLeft
  <2> QED
    BY <2>1, <2>2
<1>5. ASSUME NEW i \in DOMAIN c.scripts
      PROVE  \/ Task("writeScript", c.scripts[i]) \in LeftTasks'
             \/ [dir |-> r, file |-> c.scripts[i], from |-> b] \in scripts'
  <2>1. CASE WriteScript
    <3>1. scripts' = WriteFile(scripts, r, Head(todo).arg, b)
      BY <2>1 DEF WriteScript
    <3>2. CASE Task("writeScript", c.scripts[i]) = Head(todo)
      BY <3>1, <3>2 DEF WriteFile, Task
    <3>3. CASE [dir |-> r, file |-> c.scripts[i], from |-> b] \in scripts
      BY <3>1, <3>3 DEF WriteFile
    <3> QED
      BY <1>2, <1>3, <3>2, <3>3 DEF WrittenOrLeft
  <2>2. CASE ~WriteScript
    <3>1. Head(todo).do # "writeScript" /\ scripts' = scripts
      BY <1>2, <2>2 DEF Installing, Install, Remove, MergeHooks, SetStatusLine, AddServer, Record, WriteRule, UpsertBlock,
         RemoveScripts, RemoveHooks, CheckStatusLine, ClearStatusLine, ReadLedger, RemoveServers, WriteLedger,
         RemoveRule, StripBlock, Doing
    <3>2. Head(todo) # Task("writeScript", c.scripts[i])
      BY <3>1 DEF Task
    <3> QED
      BY <1>2, <1>3, <3>1, <3>2 DEF WrittenOrLeft
  <2> QED
    BY <2>1, <2>2
<1>6. Left("mergeHooks")' \/ \A e \in c.events : [event |-> e, owner |-> r, from |-> b] \in hooks'
  <2>1. CASE MergeHooks
    BY <1>2, <2>1 DEF MergeHooks, MergeOwnedHooks, Owner
  <2>2. CASE ~MergeHooks
    <3>1. Head(todo).do # "mergeHooks" /\ (hooks' = hooks \/ (copy # None /\ hooks' = copy.hooks))
      BY <1>2, <2>2 DEF Installing, Install, Remove, WriteScript, SetStatusLine, AddServer, Record, WriteRule, UpsertBlock,
         RemoveScripts, RemoveHooks, CheckStatusLine, ClearStatusLine, ReadLedger, RemoveServers, WriteLedger,
         RemoveRule, StripBlock, Doing
    <3>2. \A e : [event |-> e, owner |-> r, from |-> b] \in hooks => [event |-> e, owner |-> r, from |-> b] \in hooks'
      BY <3>1, CopyTagged
    <3> QED
      BY <1>2, <3>1, <3>2, StillLeft DEF WrittenOrLeft
  <2> QED
    BY <2>1, <2>2
<1>7. ASSUME NEW i \in DOMAIN c.mcps
      PROVE  \/ Task("upsertServer", c.mcps[i]) \in LeftTasks'
             \/ /\ ServerOf(b, c.mcps[i])' \in servers'
                /\ agent = "codex" => \/ Task("recordOwner", c.mcps[i]) \in LeftTasks'
                                      \/ [name |-> c.mcps[i], owner |-> r] \in ledger'
  <2> DEFINE n == c.mcps[i]
  <2>0. \A m : ServerOf(b, m)' = ServerOf(b, m)
    BY <1>1 DEF ServerOf, Key, Tag
  <2>1. CASE AddServer
    <3>1. /\ copy # None /\ servers' = UpsertServer(copy.servers, b, Head(todo).arg) /\ ledger' = ledger
          /\ Head(todo).do = "upsertServer"
          /\ todo' = If(agent = "codex", <<Task("recordOwner", Head(todo).arg)>>) \o Tail(todo)
      BY <2>1 DEF AddServer, Goto, Doing
    <3>2. ServerOf(b, n).key = Key(r, n) /\ ServerOf(b, n).from = b
      BY <1>2 DEF ServerOf, Owner
    <3>3. CASE n = Head(todo).arg
      <4>1. ServerOf(b, n) \in servers'
        BY <3>1, <3>3 DEF UpsertServer
      <4>2. ASSUME agent = "codex" PROVE Task("recordOwner", n) \in LeftTasks'
        <5>1. todo' = <<Task("recordOwner", n)>> \o Tail(todo)
          BY <3>1, <3>3, <4>2 DEF If
        <5>2. Tail(todo) \in Seq(Legit)
          BY <1>1, TaskDone, NextTask
        <5> QED
          BY <5>1, <5>2, OneBefore DEF LeftTasks
      <4> QED
        BY <2>0, <4>1, <4>2
    <3>4. CASE n # Head(todo).arg
      <4>1. Key(r, n) # Key(r, Head(todo).arg)
        BY <3>4 DEF Key
      <4>2. ServerOf(b, n) \in servers => ServerOf(b, n) \in servers'
        BY <1>2, <3>1, <3>2, <4>1, CopyTagged DEF UpsertServer, Owner
      <4>3. Head(todo) # Task("upsertServer", n) /\ Head(todo) # Task("recordOwner", n)
        BY <3>1, <3>4 DEF Task
      <4> QED
        BY <1>2, <1>3, <2>0, <3>1, <4>2, <4>3 DEF WrittenOrLeft
    <3> QED
      BY <3>3, <3>4
  <2>2. CASE Record
    <3>1. ledger' = RecordOwner(ledger, Head(todo).arg, r) /\ servers' = servers /\ Head(todo).do = "recordOwner"
      BY <2>2 DEF Record, Doing
    <3>2. Head(todo) # Task("upsertServer", n)
      BY <3>1 DEF Task
    <3>3. [name |-> n, owner |-> r] \in ledger \/ Head(todo) = Task("recordOwner", n)
              => [name |-> n, owner |-> r] \in ledger'
      BY <3>1 DEF RecordOwner, Task
    <3> QED
      BY <1>2, <1>3, <2>0, <3>1, <3>2, <3>3 DEF WrittenOrLeft
  <2>3. CASE ~AddServer /\ ~Record
    <3>1. Head(todo).do \notin {"upsertServer", "recordOwner"} /\ servers' = servers /\ ledger' = ledger
      BY <1>2, <2>3 DEF Installing, Install, Remove, WriteScript, MergeHooks, SetStatusLine, WriteRule, UpsertBlock,
         RemoveScripts, RemoveHooks, CheckStatusLine, ClearStatusLine, ReadLedger, RemoveServers, WriteLedger,
         RemoveRule, StripBlock, Doing
    <3>2. Head(todo) # Task("upsertServer", n) /\ Head(todo) # Task("recordOwner", n)
      BY <3>1 DEF Task
    <3> QED
      BY <1>2, <1>3, <2>0, <3>1, <3>2 DEF WrittenOrLeft
  <2> QED
    BY <2>1, <2>2, <2>3
<1> QED
  BY <1>1, <1>4, <1>5, <1>6, <1>7 DEF WrittenOrLeft

LEMMA InstallsStart ==
    ASSUME IInv, NEW b \in Bundle, InstallPackage(b)
    PROVE  Installs'
<1> DEFINE r == Owner(b)
           c == Content[b]
<1>1. cmd' = [bundle |-> b, ref |-> r] /\ LeftTasks' = Range(InstallTasks(b))
  BY DEF InstallPackage, Owner, LeftTasks
<1>2. CASE r \in RuleRef
  <2>1. /\ DOMAIN c.scripts = {} /\ c.events = {} /\ DOMAIN c.mcps = {}
    BY <1>2, SetupAssumption, EmptySeq DEF SetupAssumption, Owner
  <2>2. Task("upsertBlock", None) \in LeftTasks' \/ Task("writeRule", None) \in LeftTasks'
    BY <1>1, <1>2, RangeOne DEF InstallTasks, Owner
  <2>3. Left("writeRule")' \/ Left("upsertBlock")'
    BY <2>2 DEF Left, Task
  <2> QED
    BY <1>1, <2>1, <2>3 DEF Installs, WrittenOrLeft
<1>3. CASE r \notin RuleRef
  <2>1. LeftTasks' = Range(SetupTasks(b))
    BY <1>1, <1>3 DEF InstallTasks, Owner
  <2>2. /\ \A i \in DOMAIN c.scripts : Task("writeScript", c.scripts[i]) \in LeftTasks'
        /\ \A i \in DOMAIN c.mcps : Task("upsertServer", c.mcps[i]) \in LeftTasks'
        /\ c.events # {} => Task("mergeHooks", None) \in LeftTasks'
    BY <2>1, SetupTasksRange
  <2>3. Left("mergeHooks")' \/ c.events = {}
    BY <2>2 DEF Left, Task
  <2> QED
    BY <1>1, <1>3, <2>2, <2>3 DEF Installs, WrittenOrLeft
<1> QED
  BY <1>2, <1>3

LEMMA InstallsRest ==
    ASSUME IInv, Sorted, Installs, UserEdits \/ ReadCopy \/ Finish \/ Die \/ UNCHANGED vars
    PROVE  Installs'
<1>1. CASE Finish \/ Die
  BY <1>1 DEF Finish, Die, Stop, Installs, Running
<1>2. CASE ~(Finish \/ Die)
  <2>1. UNCHANGED <<scripts, ledger, cmd, todo, agent>>
    BY <1>2 DEF UserEdits, EditHook, EditLine, EditServer, EditAgentsMd, Edit, ReadCopy, vars
  <2>2. hooks \subseteq hooks' /\ servers \subseteq servers' /\ rules \subseteq rules'
    BY <1>2 DEF UserEdits, EditHook, EditLine, EditServer, EditAgentsMd, ReadCopy, vars
  <2>3. \A b, n : ServerOf(b, n)' = ServerOf(b, n)
    BY <2>1 DEF ServerOf, Key, Tag
  <2> SUFFICES ASSUME NEW b \in Bundle, NEW r, Running, cmd.bundle = b, cmd.ref = r PROVE WrittenOrLeft(r, b)'
    BY <2>1 DEF Installs, Running
  <2>4. WrittenOrLeft(r, b)
    BY DEF Installs
  <2>5. LeftTasks' = LeftTasks /\ \A do : Left(do)' <=> Left(do)
    BY <2>1 DEF LeftTasks, Left
  <2>6. \A i \in DOMAIN Content[b].mcps :
           \/ Task("upsertServer", Content[b].mcps[i]) \in LeftTasks'
           \/ /\ ServerOf(b, Content[b].mcps[i])' \in servers'
              /\ agent = "codex" => \/ Task("recordOwner", Content[b].mcps[i]) \in LeftTasks'
                                    \/ [name |-> Content[b].mcps[i], owner |-> r] \in ledger'
    BY <2>1, <2>2, <2>3, <2>4, <2>5 DEF WrittenOrLeft
  <2>7. Left("mergeHooks")' \/ \A e \in Content[b].events : [event |-> e, owner |-> r, from |-> b] \in hooks'
    BY <2>2, <2>4, <2>5 DEF WrittenOrLeft
  <2>8. r \in RuleRef => Left("writeRule")' \/ Left("upsertBlock")' \/ [slug |-> r, from |-> b] \in rules'
    BY <2>2, <2>4, <2>5 DEF WrittenOrLeft
  <2>9. \A i \in DOMAIN Content[b].scripts :
           \/ Task("writeScript", Content[b].scripts[i]) \in LeftTasks'
           \/ [dir |-> r, file |-> Content[b].scripts[i], from |-> b] \in scripts'
    BY <2>1, <2>4, <2>5 DEF WrittenOrLeft
  <2> QED
    BY <2>1, <2>6, <2>7, <2>8, <2>9 DEF WrittenOrLeft
<1> QED
  BY <1>1, <1>2

LEMMA NextInstalls == IInv /\ Sorted /\ Installs /\ [Next]_vars => Installs'
<1> SUFFICES ASSUME IInv, Sorted, Installs, [Next]_vars PROVE Installs'
  OBVIOUS
<1>1. CASE \E r \in Ref : RemovePackage(r)
  BY <1>1, NoneIsNothing DEF RemovePackage, Installs
<1> QED
  BY <1>1, InstallsStart, InstallsTask, InstallsRest DEF Next

\* A package is settled when its command has finished, and others leave it as it is.
LEMMA NextInstalled ==
    ASSUME Apart, NamesDiffer, IInv, Sorted, Installs, Installed, [Next]_vars
    PROVE  Installed'
<1>1. StepKept /\ agent' = agent
  <2>1. StepKept
    BY NextIInv
  <2>2. agent' = agent
    BY DEF Next, vars, InstallPackage, RemovePackage, Begin, ReadCopy, Finish, Die, UserEdits, EditHook, EditLine,
       EditServer, EditAgentsMd, Edit, Install, Remove, WriteScript, MergeHooks, SetStatusLine, AddServer, Record,
       WriteRule, UpsertBlock, RemoveScripts, RemoveHooks, CheckStatusLine, ClearStatusLine, ReadLedger, RemoveServers,
       WriteLedger, RemoveRule, StripBlock, GoOn, Goto
  <2> QED
    BY <2>1, <2>2
<1>2. ASSUME NEW r \in Ref, NEW b \in Bundle, status[r] = b
      PROVE  Owner(b) = r /\ InPlace(r, b)'
  <2>1. ~(Running /\ cmd.ref = r)
    BY <1>2, NoneIsNothing DEF Sorted
  <2>2. EntriesOf(r)' = EntriesOf(r)
    BY <1>1, <2>1 DEF StepKept
  <2>3. Owner(b) = r /\ InPlace(r, b)
    BY <1>2 DEF Installed
  <2> QED
    BY <1>1, <2>2, <2>3, InPlaceKept
<1>3. CASE Finish
  <2>1. /\ todo = << >> /\ Running /\ UNCHANGED disk
        /\ status' = [status EXCEPT ![cmd.ref] = IF cmd.bundle = None THEN Gone ELSE cmd.bundle]
    BY <1>3 DEF Finish
  <2>2. cmd.bundle \in Bundle => cmd.ref = Owner(cmd.bundle) /\ WrittenOrLeft(cmd.ref, cmd.bundle)
    BY <2>1 DEF Installs, IInv, Underway
  <2>3. LeftTasks = {} /\ \A do : ~Left(do)
    BY <2>1, RangeEmpty DEF LeftTasks, Left
  <2>4. ASSUME NEW b \in Bundle, cmd.bundle = b PROVE InPlace(cmd.ref, b)
    BY <2>2, <2>3, <2>4 DEF WrittenOrLeft, InPlace
  <2>5. ASSUME NEW r \in Ref, NEW b \in Bundle, cmd.bundle = b, cmd.ref = r PROVE InPlace(r, b)'
    <3>1. InPlace(r, b) /\ EntriesOf(r)' = EntriesOf(r)
      BY <2>1, <2>4, <2>5 DEF EntriesOf
    <3> QED
      BY <1>1, <2>2, <2>5, <3>1, InPlaceKept
  <2>6. ASSUME NEW r \in Ref, NEW b \in Bundle, status'[r] = b PROVE Owner(b) = r /\ InPlace(r, b)'
    <3>1. CASE r # cmd.ref
      <4>1. status[r] = b
        BY <2>1, <2>6, <3>1 DEF Sorted
      <4> QED
        BY <1>2, <4>1
    <3>2. CASE r = cmd.ref
      <4>1. cmd.bundle = b
        BY <2>1, <2>6, <3>2, NoneIsNothing, SetupAssumption DEF SetupAssumption, Sorted
      <4> QED
        BY <2>2, <2>5, <3>2, <4>1
    <3> QED
      BY <3>1, <3>2
  <2> QED
    BY <2>6 DEF Installed
<1>4. CASE ~Finish
  <2>1. \A r \in Ref : status'[r] = status[r] \/ status'[r] = None
    <3>1. CASE UNCHANGED status
      BY <3>1
    <3>2. CASE (\E b \in Bundle : InstallPackage(b)) \/ (\E r \in Ref : RemovePackage(r))
      BY <3>2 DEF InstallPackage, RemovePackage, Begin, Sorted
    <3> QED
      BY <1>4, <3>1, <3>2, TaskDone DEF Next, vars, ReadCopy, Die, UserEdits, EditHook, EditLine,
         EditServer, EditAgentsMd, Edit
  <2> QED
    BY <1>2, <2>1, NoneIsNothing DEF Installed
<1> QED
  BY <1>3, <1>4

LEMMA InitInstalled == Init => Installed /\ Installs
BY SetupAssumption DEF SetupAssumption, Init, Installed, Installs, Running

\* After the last command for a package was an installation, all that this
\* version brings is in place and stays there while other packages are installed
\* and removed, fail half-way or die, and the user edits the same files (the
\* configs of the agents write back whole files): but for the statusLine, which
\* the user may take over.  As in Ownership, script directories do not nest and
\* codex packages do not share the name of a server.
THEOREM InstalledStaysInPlace == Apart /\ NamesDiffer => (Spec => []InstalledStays)
<1> SUFFICES ASSUME Apart, NamesDiffer PROVE Spec => []InstalledStays
  OBVIOUS
<1>1. IInv /\ [Next]_vars => IInv'
  BY NextIInv
<1>2. IInv /\ Sorted /\ Installs /\ Installed /\ [Next]_vars => Installed'
  BY NextInstalled
<1>3. Installed /\ LineInv => InstalledStays
  BY DEF Installed, InPlace, LineInv, LineFits, SetBy, HasLine, InstalledStays, UserLine
<1> QED
  BY <1>1, <1>2, <1>3, NextPolite, NextLine, NextInstalls, InitPolite, InitIInv, InitLine, InitInstalled, PTL DEF Spec

(***************************************************************************)
(* Removals.  What the package has is gone, or the task that removes it is *)
(* left; on codex, the ledger has the owner of every server until then.    *)
(***************************************************************************)

\* No command dies between a codex server and the record of its owner.
OwnersRecorded == "codex" \in Agent => "recordOwner" \notin CrashPoints

Bare(r) ==
    /\ \A s \in scripts : s.from \notin From(r)
    /\ \A h \in hooks : h.from \notin From(r)
    /\ \A s \in servers : s.from \notin From(r)
    /\ \A o \in ledger : o.owner # r
Unruly(r) == \A x \in rules : x.from \notin From(r)

\* Rules bring nothing else, and nothing else brings a rule.
Kinds ==
    /\ \A r \in Ref : IF r \in RuleRef THEN Bare(r) ELSE Unruly(r)
    /\ agent # "codex" => ledger = {}

Removed == \A r \in Ref : status[r] = Gone => Bare(r) /\ Unruly(r)

CodexRemovals ==
    {<<Task("removeScripts", None), Task("removeHooks", None), Task("readLedger", None)>>,
     <<Task("removeHooks", None), Task("readLedger", None)>>, <<Task("readLedger", None)>>,
     <<Task("removeServers", None), Task("writeLedger", None)>>, <<Task("writeLedger", None)>>, << >>}

GoneOrLeft(r) ==
    /\ IF agent = "codex" THEN r \notin RuleRef => todo \in CodexRemovals
                          ELSE ~Left("readLedger") /\ ~Left("writeLedger")
    /\ agent = "codex" /\ Left("removeServers") => owned = ledger
    /\ Left("removeScripts") \/ \A s \in scripts : s.from \notin From(r)
    /\ Left("removeHooks") \/ \A h \in hooks : h.from \notin From(r)
    /\ Left("readLedger") \/ Left("removeServers") \/ \A s \in servers : s.from \notin From(r)
    /\ Left("readLedger") \/ Left("writeLedger") \/ \A o \in ledger : o.owner # r
    /\ Left("removeRule") \/ Left("stripBlock") \/ Unruly(r)

Removes == Running /\ cmd.bundle = None => GoneOrLeft(cmd.ref)

AboutToRecord(n, r) == Running /\ todo # << >> /\ Head(todo) = Task("recordOwner", n) /\ cmd.ref = r

OwnerKnown(s) ==
    \E n \in Name :
        /\ s.key = <<None, n>>
        /\ [name |-> n, owner |-> Owner(s.from)] \in ledger \/ AboutToRecord(n, Owner(s.from))

OwnersKnown == agent = "codex" => \A s \in servers : s.from \in Bundle => OwnerKnown(s)

RInv == Kinds /\ Removed /\ Removes /\ OwnersKnown

\* A step that leaves a package's entries alone adds none.
LEMMA NothingAdded ==
    ASSUME NEW r \in Ref, EntriesOf(r)' = EntriesOf(r)
    PROVE  (Bare(r) => Bare(r)') /\ (Unruly(r) => Unruly(r)')
<1>1. /\ {s \in scripts : s.from \in From(r)} = {s \in scripts' : s.from \in From(r)}
      /\ {h \in hooks : h.from \in From(r)} = {h \in hooks' : h.from \in From(r)}
      /\ {s \in servers : s.from \in From(r)} = {s \in servers' : s.from \in From(r)}
      /\ {o \in ledger : o.owner = r} = {o \in ledger' : o.owner = r}
      /\ {x \in rules : x.from \in From(r)} = {x \in rules' : x.from \in From(r)}
  BY DEF EntriesOf
<1> HIDE DEF settings, disk, progress, world
<1> QED
  BY <1>1 DEF Bare, Unruly

\* A task of a package of one kind writes nothing of the other.
LEMMA KindsTask ==
    ASSUME Apart, NamesDiffer, IInv, Sorted, Kinds, Install \/ Remove
    PROVE  Kinds'
<1>1. /\ Running /\ UNCHANGED <<cmd, agent>> /\ Head(todo) \in LeftTasks /\ Head(todo) \in Legit /\ cmd.ref \in Ref
      /\ Head(todo).do \in OnRules <=> cmd.ref \in RuleRef
  BY TaskDone DEF IInv, Underway, Sorted
<1>2. ASSUME NEW r \in Ref, r # cmd.ref PROVE IF r \in RuleRef THEN Bare(r)' ELSE Unruly(r)'
  <2>1. EntriesOf(r)' = EntriesOf(r)
    BY <1>2, NextIInv DEF StepKept, Next
  <2> QED
    BY <2>1, NothingAdded DEF Kinds
<1>3. CASE cmd.ref \in RuleRef
  <2>1. UNCHANGED <<scripts, hooks, servers, ledger>>
    BY <1>1, <1>3 DEF OnRules, Install, Remove, WriteScript, MergeHooks, SetStatusLine, AddServer, Record, WriteRule,
       UpsertBlock, RemoveScripts, RemoveHooks, CheckStatusLine, ClearStatusLine, ReadLedger, RemoveServers, WriteLedger,
       RemoveRule, StripBlock, Doing
  <2>2. Bare(cmd.ref) /\ \A r : Bare(r) => Bare(r)'
    BY <1>1, <1>3, <2>1 DEF Kinds, Bare
  <2>3. ASSUME NEW r \in Ref, r = cmd.ref PROVE Bare(r)'
    BY <2>2, <2>3
  <2> QED
    BY <1>1, <1>2, <1>3, <2>1, <2>3 DEF Kinds
<1>4. CASE cmd.ref \notin RuleRef
  <2>1. rules' = rules
    BY <1>1, <1>4 DEF OnRules, Install, Remove, WriteScript, MergeHooks, SetStatusLine, AddServer, Record, WriteRule,
       UpsertBlock, RemoveScripts, RemoveHooks, CheckStatusLine, ClearStatusLine, ReadLedger, RemoveServers, WriteLedger,
       RemoveRule, StripBlock, Doing
  <2>2. ASSUME NEW r \in Ref, r = cmd.ref PROVE Unruly(r)'
    BY <1>4, <2>1, <2>2 DEF Kinds, Unruly
  <2>3. agent # "codex" => ledger' = {}
    <3>1. CASE Record
      BY <1>1, <3>1 DEF Record, Doing, Legit
    <3>2. CASE WriteLedger
      BY <1>1, <3>2 DEF WriteLedger, Doing, Legit, Others, Kinds
    <3>3. CASE ledger' = ledger
      BY <3>3 DEF Kinds
    <3> QED
      BY <3>1, <3>2, <3>3 DEF Install, Remove, WriteScript, MergeHooks, SetStatusLine, AddServer, WriteRule,
         UpsertBlock, RemoveScripts, RemoveHooks, CheckStatusLine, ClearStatusLine, ReadLedger, RemoveServers,
         RemoveRule, StripBlock
  <2> QED
    BY <1>1, <1>2, <1>4, <2>2, <2>3 DEF Kinds
<1> QED
  BY <1>3, <1>4

\* A step of the user, and the others that write no file, change no package's entries.
LEMMA KindsRest ==
    ASSUME IInv, Kinds, (\E b \in Bundle : InstallPackage(b)) \/ (\E r \in Ref : RemovePackage(r))
                            \/ UserEdits \/ ReadCopy \/ Finish \/ Die \/ UNCHANGED vars
    PROVE  Kinds' /\ \A r \in Ref : EntriesOf(r)' = EntriesOf(r)
<1>1. \A r \in Ref : EntriesOf(r)' = EntriesOf(r)
  <2>1. CASE UserEdits
    BY <2>1, EditStep
  <2>2. CASE UNCHANGED disk
    BY <2>2 DEF EntriesOf
  <2> QED
    BY <2>1, <2>2 DEF InstallPackage, RemovePackage, Begin, ReadCopy, Finish, Die, vars
<1>2. UNCHANGED <<agent, ledger>>
  BY DEF InstallPackage, RemovePackage, Begin, ReadCopy, Finish, Die, vars, UserEdits, EditHook, EditLine,
     EditServer, EditAgentsMd, Edit
<1>3. \A r \in Ref : (Bare(r) => Bare(r)') /\ (Unruly(r) => Unruly(r)')
  BY <1>1, NothingAdded
<1> QED
  BY <1>1, <1>2, <1>3 DEF Kinds

LEMMA HeadOfOne ==
    ASSUME NEW S, NEW q \in Seq(S), NEW t
    PROVE  <<t>> \o q # << >> /\ Head(<<t>> \o q) = t
<1> DEFINE p == <<t>>
<1>1. p \in Seq(S \union {t}) /\ q \in Seq(S \union {t})
  BY SubSeqs
<1>2. Len(p) = 1 /\ p[1] = t
  OBVIOUS
<1> HIDE DEF p
<1>3. /\ p \o q \in Seq(S \union {t}) /\ Len(p \o q) = 1 + Len(q) /\ Len(q) \in Nat
      /\ (p \o q)[1] = t
  BY <1>1, <1>2, ConcatProperties, LenProperties
<1>4. p \o q # << >>
  BY <1>3, EmptySeq
<1>5. Head(p \o q) = t
  BY <1>3
<1> QED
  BY <1>4, <1>5 DEF p

\* When the ledger is written, that is all that is left of a removal.
LEMMA LedgerLast ==
    ASSUME IInv, Sorted, Removes, WriteLedger
    PROVE  /\ agent = "codex" /\ cmd.bundle = None /\ todo = <<Task("writeLedger", None)>>
           /\ ~Left("readLedger") /\ ~Left("removeServers")
<1>1. /\ Head(todo).do = "writeLedger" /\ Running /\ todo # << >> /\ Head(todo) \in LeftTasks /\ Head(todo) \in Legit
  BY TaskDone DEF WriteLedger, Doing, Remove
<1>2. cmd.bundle = None /\ GoneOrLeft(cmd.ref) /\ cmd.ref \notin RuleRef
  BY <1>1 DEF Removes, Sorted, OnRules, Legit
<1>3. agent = "codex" /\ todo \in CodexRemovals
  BY <1>1, <1>2 DEF GoneOrLeft, Left
<1>4. todo = <<Task("writeLedger", None)>>
  BY <1>1, <1>3 DEF CodexRemovals, Task
<1>5. Range(<<Task("writeLedger", None)>>) = {Task("writeLedger", None)}
  BY RangeOne
<1>6. \A t \in LeftTasks : t.do = "writeLedger"
  BY <1>4, <1>5 DEF LeftTasks, Task
<1> QED
  BY <1>2, <1>3, <1>4, <1>6 DEF Left

\* On codex a server has its owner in the ledger by the time a removal looks.
LEMMA OwnersTask ==
    ASSUME NamesDiffer, IInv, Sorted, Removes, OwnersKnown, Install \/ Remove
    PROVE  OwnersKnown'
<1>1. /\ Running /\ todo # << >> /\ UNCHANGED <<cmd, agent>> /\ Head(todo) \in LeftTasks /\ Head(todo) \in Legit
      /\ cmd.ref \in Ref /\ (cmd.bundle \in Bundle => cmd.ref = Owner(cmd.bundle))
  BY TaskDone DEF IInv, Underway
<1> SUFFICES ASSUME agent = "codex", NEW s \in servers', s.from \in Bundle
             PROVE  \E n \in Name :
                        /\ s.key = <<None, n>>
                        /\ \/ [name |-> n, owner |-> Owner(s.from)] \in ledger'
                           \/ /\ todo' # << >> /\ Head(todo') = Task("recordOwner", n)
                              /\ cmd.ref = Owner(s.from)
  BY <1>1 DEF OwnersKnown, OwnerKnown, AboutToRecord, Running, Owner
<1>2. CASE AddServer
  <2> DEFINE n == Head(todo).arg
             b == cmd.bundle
  <2>1. /\ b \in Bundle /\ n \in Name /\ copy # None /\ servers' = UpsertServer(copy.servers, b, n)
        /\ ledger' = ledger /\ Head(todo).do = "upsertServer"
        /\ todo' = If(agent = "codex", <<Task("recordOwner", n)>>) \o Tail(todo)
    BY <1>1, <1>2 DEF AddServer, Doing, Legit, Goto, NamesOf
  <2>2. s = ServerOf(b, n) \/ s \in servers
    BY <2>1, CopyTagged DEF UpsertServer
  <2>3. CASE s = ServerOf(b, n)
    <3>1. s.key = <<None, n>> /\ s.from = b
      BY <2>3 DEF ServerOf, Key
    <3>2. todo' = <<Task("recordOwner", n)>> \o Tail(todo) /\ Tail(todo) \in Seq(Legit)
      BY <1>1, <2>1, NextTask DEF If
    <3>3. todo' # << >> /\ Head(todo') = Task("recordOwner", n)
      BY <3>2, HeadOfOne
    <3> QED
      BY <1>1, <2>1, <3>1, <3>3
  <2>4. CASE s \in servers
    <3>1. \A m : ~AboutToRecord(m, Owner(s.from))
      BY <2>1 DEF AboutToRecord, Task
    <3> QED
      BY <2>1, <2>4, <3>1 DEF OwnersKnown, OwnerKnown
  <2> QED
    BY <2>2, <2>3, <2>4
<1>3. CASE Record
  <2> DEFINE n == Head(todo).arg
  <2>1. servers' = servers /\ ledger' = RecordOwner(ledger, n, cmd.ref) /\ n \in NamesOf(cmd.ref)
    BY <1>1, <1>3 DEF Record, Doing, Legit
  <2>2. PICK m \in Name : /\ s.key = <<None, m>>
                          /\ [name |-> m, owner |-> Owner(s.from)] \in ledger \/ AboutToRecord(m, Owner(s.from))
    BY <2>1 DEF OwnersKnown, OwnerKnown
  <2>3. CASE AboutToRecord(m, Owner(s.from))
    BY <2>1, <2>2, <2>3 DEF AboutToRecord, RecordOwner, Task
  <2>4. CASE [name |-> m, owner |-> Owner(s.from)] \in ledger /\ m # n
    BY <2>1, <2>2, <2>4 DEF RecordOwner
  <2>5. CASE [name |-> m, owner |-> Owner(s.from)] \in ledger /\ m = n
    <3>1. m \in NamesOf(Owner(s.from)) /\ Owner(s.from) \in Ref
      BY <2>5 DEF IInv, Tagged
    <3>2. Owner(s.from) = cmd.ref
      BY <1>1, <2>1, <2>5, <3>1 DEF NamesDiffer, IInv
    <3> QED
      BY <2>1, <2>2, <2>5, <3>2 DEF RecordOwner
  <2> QED
    BY <2>2, <2>3, <2>4, <2>5
<1>4. CASE WriteLedger
  <2>1. /\ servers' = servers /\ ledger' = Others(owned) /\ Others(owned) = Others(ledger) /\ cmd.bundle = None
        /\ Head(todo).do = "writeLedger"
    BY <1>1, <1>4 DEF WriteLedger, Doing, Legit, Others
  <2>5. Owner(s.from) # cmd.ref
    BY <1>1, <1>4, <2>1, LedgerLast DEF Removes, GoneOrLeft, From, Owner
  <2>6. \A m : ~AboutToRecord(m, Owner(s.from))
    BY <2>5 DEF AboutToRecord
  <2>7. PICK m \in Name : s.key = <<None, m>> /\ [name |-> m, owner |-> Owner(s.from)] \in ledger
    BY <2>1, <2>6 DEF OwnersKnown, OwnerKnown
  <2>8. [name |-> m, owner |-> Owner(s.from)] \in Others(ledger)
    BY <2>5, <2>7 DEF Others
  <2> QED
    BY <2>1, <2>7, <2>8
<1>5. CASE ~(AddServer \/ Record \/ WriteLedger)
  <2>1. /\ Head(todo).do # "recordOwner" /\ ledger' = ledger
        /\ \/ servers' = servers
           \/ copy # None /\ servers' = RemoveOwnedServers(copy.servers, cmd.ref)
    BY <1>5 DEF Install, Remove, WriteScript, MergeHooks, SetStatusLine, AddServer, Record, WriteRule,
       UpsertBlock, RemoveScripts, RemoveHooks, CheckStatusLine, ClearStatusLine, ReadLedger, RemoveServers, WriteLedger,
       RemoveRule, StripBlock, Doing
  <2>2. s \in servers
    BY <2>1, CopyTagged DEF RemoveOwnedServers
  <2>3. \A m : ~AboutToRecord(m, Owner(s.from))
    BY <2>1 DEF AboutToRecord, Task
  <2> QED
    BY <2>1, <2>2, <2>3 DEF OwnersKnown, OwnerKnown
<1> QED
  BY <1>2, <1>3, <1>4, <1>5

LEMMA RemovesTask ==
    ASSUME IInv, Sorted, Kinds, Removes, OwnersKnown, Install \/ Remove
    PROVE  Removes'
<1> SUFFICES ASSUME cmd.bundle = None, NEW r \in Ref, cmd.ref = r
             PROVE  GoneOrLeft(r)'
  BY TaskDone DEF Removes, Running, IInv, Underway
<1>1. /\ Running /\ todo # << >> /\ UNCHANGED <<cmd, agent>> /\ Head(todo) \in LeftTasks /\ Head(todo) \in Legit
      /\ Head(todo).do \notin Installing /\ (Head(todo).do \in OnRules <=> r \in RuleRef)
      /\ Left(Head(todo).do)
  BY TaskDone, NoneIsNothing DEF IInv, Underway, Sorted, Left
<1>2. GoneOrLeft(r)
  BY <1>1 DEF Removes
<1>3. Remove
  BY <1>1 DEF Installing, Install, WriteScript, MergeHooks, SetStatusLine, AddServer, Record, WriteRule, UpsertBlock, Doing
<1>4. Left("removeScripts")' \/ \A s \in scripts' : s.from \notin From(r)
  <2>1. CASE RemoveScripts
    BY <2>1, SetupAssumption DEF SetupAssumption, RemoveScripts, IInv, Tagged, From, Owner
  <2>2. CASE ~RemoveScripts
    <3>1. Head(todo).do # "removeScripts" /\ scripts' = scripts
      BY <1>3, <2>2 DEF Remove, RemoveHooks, CheckStatusLine, ClearStatusLine, ReadLedger, RemoveServers, WriteLedger,
         RemoveRule, StripBlock, Doing
    <3> QED
      BY <1>2, <3>1, StillLeft DEF GoneOrLeft
  <2> QED
    BY <2>1, <2>2
<1>5. Left("removeHooks")' \/ \A h \in hooks' : h.from \notin From(r)
  <2>1. CASE RemoveHooks
    <3>1. /\ copy # None
          /\ \/ hooks' = RemoveOwnedHooks(copy.hooks, r)
             \/ RemoveOwnedHooks(copy.hooks, r) = copy.hooks /\ hooks' = hooks
      BY <2>1 DEF RemoveHooks
    <3>2. \A h \in RemoveOwnedHooks(copy.hooks, r) : h.from \notin From(r)
      BY <3>1, CopyTagged DEF RemoveOwnedHooks, From, Owner
    <3> QED
      BY <3>1, <3>2, CopyTagged DEF From
  <2>2. CASE ~RemoveHooks
    <3>1. Head(todo).do # "removeHooks" /\ (hooks' = hooks \/ (copy # None /\ hooks' = copy.hooks))
      BY <1>3, <2>2 DEF Remove, RemoveScripts, CheckStatusLine, ClearStatusLine, ReadLedger, RemoveServers, WriteLedger,
         RemoveRule, StripBlock, Doing
    <3>2. \A h \in hooks' : h.from \in Bundle => h \in hooks
      BY <3>1, CopyTagged
    <3> QED
      BY <1>2, <3>1, <3>2, StillLeft DEF GoneOrLeft, From
  <2> QED
    BY <2>1, <2>2
<1>6. /\ Head(todo).do = "removeServers" => RemoveServers
      /\ Head(todo).do = "readLedger" => ReadLedger
      /\ Head(todo).do = "writeLedger" => WriteLedger
      /\ Head(todo).do # "recordOwner"
  BY <1>1, <1>3 DEF Installing, Remove, RemoveScripts, RemoveHooks, CheckStatusLine, ClearStatusLine, ReadLedger,
     RemoveServers, WriteLedger, RemoveRule, StripBlock, Doing
\* What the ledger's owners say of the servers.
<1>7. ASSUME agent = "codex", \A o \in ledger : o.owner # r, NEW s \in servers PROVE s.from \notin From(r)
  <2>1. \A n : ~AboutToRecord(n, Owner(s.from))
    BY <1>6 DEF AboutToRecord, Task
  <2>2. s.from \in Bundle => \E n \in Name : [name |-> n, owner |-> Owner(s.from)] \in ledger
    BY <1>7, <2>1 DEF OwnersKnown, OwnerKnown
  <2> QED
    BY <1>7, <2>2 DEF From, Owner
<1>8. CASE ReadLedger
  <2> DEFINE new == <<Task("removeServers", None), Task("writeLedger", None)>>
             cond == \E o \in ledger : o.owner = r
  <2>1. /\ todo' = If(cond, new) \o Tail(todo) /\ owned' = ledger /\ UNCHANGED disk
        /\ Head(todo).do = "readLedger" /\ Left("readLedger")
    BY <1>1, <1>8 DEF ReadLedger, Goto, Doing
  <2>2. agent = "codex" /\ r \notin RuleRef
    BY <1>1, <1>2, <2>1 DEF GoneOrLeft, OnRules
  <2>3. todo = <<Task("readLedger", None)>>
    <3>1. todo \in CodexRemovals
      BY <1>2, <2>2 DEF GoneOrLeft
    <3> QED
      BY <1>1, <2>1, <3>1 DEF CodexRemovals, Task
  <2>4. todo' = IF cond THEN new ELSE << >>
    <3>1. Tail(todo) = << >>
      BY <2>3
    <3>2. new \o << >> = new /\ << >> \o << >> = << >>
      BY ConcatEmptySeq
    <3> QED
      BY <2>1, <3>1, <3>2 DEF If
  <2>5. todo' \in CodexRemovals
    BY <2>4 DEF CodexRemovals
  <2>6. cond => Left("removeServers")' /\ Left("writeLedger")'
    <3>1. cond => Task("removeServers", None) \in LeftTasks' /\ Task("writeLedger", None) \in LeftTasks'
      BY <2>4, RangeTwo DEF LeftTasks
    <3> QED
      BY <3>1 DEF Left, Task
  <2>7. ~cond => \A s \in servers' : s.from \notin From(r)
    BY <1>7, <2>1, <2>2
  <2>8. Left("removeRule")' \/ Left("stripBlock")' \/ Unruly(r)'
    BY <2>1, <2>2 DEF Kinds, Unruly
  <2>9. Left("writeLedger")' \/ \A o \in ledger' : o.owner # r
    BY <2>1, <2>6
  <2> QED
    BY <1>1, <1>4, <1>5, <2>1, <2>2, <2>5, <2>6, <2>7, <2>8, <2>9 DEF GoneOrLeft
<1>9. CASE ~ReadLedger
  <2>1. /\ owned' = owned /\ Head(todo).do # "readLedger"
        /\ todo' = Tail(todo) \/ Head(todo).do = "checkStatusLine"
    BY <1>3, <1>9 DEF Remove, RemoveScripts, RemoveHooks, CheckStatusLine, ClearStatusLine, ReadLedger,
       RemoveServers, WriteLedger, RemoveRule, StripBlock, Doing, GoOn, Goto
  <2>2. \A do \in {"readLedger", "writeLedger", "removeServers"} : Left(do)' => Left(do)
    BY <1>1, <1>6, <1>9, WasLeft DEF AddServer, Doing, Installing
  <2>3. agent = "codex" /\ r \notin RuleRef => todo' \in CodexRemovals
    <3> SUFFICES ASSUME agent = "codex", r \notin RuleRef PROVE todo' \in CodexRemovals
      OBVIOUS
    <3>1. todo \in CodexRemovals
      BY <1>2 DEF GoneOrLeft
    <3>2. Head(todo).do # "checkStatusLine"
      BY <1>1, <3>1 DEF CodexRemovals, Task
    <3>3. todo' = Tail(todo)
      BY <2>1, <3>2
    <3>4. \A a, b, c : Tail(<<a, b, c>>) = <<b, c>> /\ Tail(<<a, b>>) = <<b>> /\ Tail(<<a>>) = << >>
      OBVIOUS
    <3>5. Tail(todo) \in CodexRemovals
      <4> DEFINE a == Task("removeScripts", None)
                 b == Task("removeHooks", None)
                 c == Task("readLedger", None)
                 d == Task("removeServers", None)
                 e == Task("writeLedger", None)
      <4>1. /\ todo \in {<<a, b, c>>, <<b, c>>, <<c>>, <<d, e>>, <<e>>}
            /\ {<<b, c>>, <<c>>, <<e>>, << >>} \subseteq CodexRemovals
        BY <1>1, <3>1 DEF CodexRemovals
      <4> HIDE DEF a, b, c, d, e
      <4>2. todo = <<a, b, c>> => Tail(todo) = <<b, c>>
        BY <3>4
      <4>3. todo = <<b, c>> => Tail(todo) = <<c>>
        BY <3>4
      <4>4. todo = <<d, e>> => Tail(todo) = <<e>>
        BY <3>4
      <4>5. todo \in {<<c>>, <<e>>} => Tail(todo) = << >>
        BY <3>4
      <4> QED
        BY <4>1, <4>2, <4>3, <4>4, <4>5
    <3> QED
      BY <3>3, <3>5
  <2>4. Left("readLedger")' \/ Left("removeServers")' \/ \A s \in servers' : s.from \notin From(r)
    <3>1. CASE RemoveServers
      <4>1. /\ copy # None /\ servers' \subseteq copy.servers \union servers /\ Left("removeServers")
            /\ Head(todo).do = "removeServers"
            /\ servers' = RemoveOwnedServers(copy.servers, r)
                   \/ (agent # "codex" /\ servers' = servers /\ RemoveOwnedServers(copy.servers, r) = copy.servers)
        BY <1>1, <3>1 DEF RemoveServers, RemoveOwnedServers, Doing
      <4> SUFFICES ASSUME NEW s \in servers', s.from \in From(r) PROVE FALSE
        OBVIOUS
      <4>2. s \in servers /\ s \in copy.servers /\ s.from \in Bundle /\ Owner(s.from) = r
        BY <4>1, CopyTagged DEF From, Owner, Fresh, IInv, Ours
      <4>3. s.owner = Tag(r) /\ s \in RemoveOwnedServers(copy.servers, r)
        BY <4>1, <4>2 DEF IInv, Tagged
      <4>4. CASE agent # "codex"
        BY <4>3, <4>4 DEF Tag, RemoveOwnedServers
      <4>5. CASE agent = "codex"
        <5>1. owned = ledger
          BY <1>2, <4>1, <4>5 DEF GoneOrLeft
        <5>2. \A n : ~AboutToRecord(n, r)
          BY <1>6 DEF AboutToRecord, Task
        <5>3. PICK n \in Name : s.key = <<None, n>> /\ [name |-> n, owner |-> r] \in ledger
          BY <4>2, <4>5, <5>2 DEF OwnersKnown, OwnerKnown
        <5>4. n \in OwnedNames(r)
          BY <5>1, <5>3 DEF OwnedNames
        <5> QED
          BY <4>3, <4>5, <5>3, <5>4 DEF RemoveOwnedServers
      <4> QED
        BY <4>4, <4>5
    <3>2. CASE ~RemoveServers
      <4>1. Head(todo).do # "removeServers" /\ servers' = servers
        BY <1>1, <1>3, <1>6, <3>2 DEF Remove, RemoveScripts, RemoveHooks, CheckStatusLine, ClearStatusLine, ReadLedger,
           WriteLedger, RemoveRule, StripBlock
      <4> QED
        BY <1>2, <2>1, <4>1, StillLeft DEF GoneOrLeft
    <3> QED
      BY <3>1, <3>2
  <2>5. Left("readLedger")' \/ Left("writeLedger")' \/ \A o \in ledger' : o.owner # r
    <3>1. CASE WriteLedger
      BY <3>1 DEF WriteLedger
    <3>2. CASE ~WriteLedger
      <4>1. Head(todo).do # "writeLedger" /\ ledger' = ledger
        BY <1>1, <1>3, <1>6, <3>2 DEF Remove, RemoveScripts, RemoveHooks, CheckStatusLine, ClearStatusLine, ReadLedger,
           RemoveServers, RemoveRule, StripBlock
      <4> QED
        BY <1>2, <2>1, <4>1, StillLeft DEF GoneOrLeft
    <3> QED
      BY <3>1, <3>2
  <2>6. Left("removeRule")' \/ Left("stripBlock")' \/ Unruly(r)'
    <3>1. CASE RemoveRule \/ StripBlock
      <4>1. \E xs \in {rules, copy.rules} :
                /\ \A x \in xs : x.from \in Bundle => x \in rules
                /\ rules' = StripRule(xs, r) \/ (rules' = rules /\ StripRule(xs, r) = xs /\ xs = copy.rules /\ copy # None)
        BY <3>1, CopyTagged DEF RemoveRule, StripBlock
      <4> QED
        BY <4>1, CopyTagged DEF StripRule, Unruly, IInv, Tagged, From, Owner
    <3>2. CASE ~(RemoveRule \/ StripBlock)
      <4>1. Head(todo).do \notin {"removeRule", "stripBlock"} /\ rules' = rules
        BY <1>1, <1>3, <3>2 DEF Remove, RemoveScripts, RemoveHooks, CheckStatusLine, ClearStatusLine, ReadLedger,
           RemoveServers, WriteLedger, Doing
      <4> QED
        BY <1>2, <4>1, StillLeft DEF GoneOrLeft, Unruly
    <3> QED
      BY <3>1, <3>2
  <2>7. agent = "codex" /\ Left("removeServers")' => owned' = ledger'
    <3>1. CASE WriteLedger
      BY <2>2, <3>1, LedgerLast
    <3>2. CASE ~WriteLedger
      <4>1. ledger' = ledger
        BY <1>3, <3>2 DEF Remove, RemoveScripts, RemoveHooks, CheckStatusLine, ClearStatusLine, ReadLedger,
           RemoveServers, RemoveRule, StripBlock
      <4> QED
        BY <1>2, <2>1, <2>2, <4>1 DEF GoneOrLeft
    <3> QED
      BY <3>1, <3>2
  <2> QED
    BY <1>1, <1>2, <1>4, <1>5, <2>2, <2>3, <2>4, <2>5, <2>6, <2>7 DEF GoneOrLeft
<1> QED
  BY <1>8, <1>9

\* A removal starts with all that it has to do; what it has none of stays so.
LEMMA RemovesStart ==
    ASSUME IInv, Kinds, NEW r \in Ref, RemovePackage(r)
    PROVE  Removes'
<1>1. /\ cmd' = [bundle |-> None, ref |-> r] /\ UNCHANGED <<disk, agent>>
      /\ todo' = RemoveTasks(r) /\ LeftTasks' = Range(RemoveTasks(r))
  BY DEF RemovePackage, Begin, LeftTasks
<1>2. (Bare(r) => Bare(r)') /\ (Unruly(r) => Unruly(r)')
  BY <1>1 DEF Bare, Unruly
<1>3. CASE r \in RuleRef
  <2>1. Task("stripBlock", None) \in LeftTasks' \/ Task("removeRule", None) \in LeftTasks'
    BY <1>1, <1>3, RangeOne DEF RemoveTasks
  <2>2. Left("removeRule")' \/ Left("stripBlock")'
    BY <2>1 DEF Left, Task
  <2>3. \A t \in LeftTasks' : t.do \in OnRules
    BY <1>1, <1>3, RangeOne DEF RemoveTasks, OnRules, Task
  <2>4. ~Left("readLedger")' /\ ~Left("writeLedger")' /\ ~Left("removeServers")'
    BY <2>3 DEF Left, OnRules
  <2>5. Bare(r)'
    BY <1>2, <1>3 DEF Kinds
  <2>6. GoneOrLeft(r)'
    BY <1>3, <2>2, <2>4, <2>5 DEF GoneOrLeft, Bare
  <2> QED
    BY <1>1, <2>6 DEF Removes
<1>4. CASE r \notin RuleRef /\ agent = "codex"
  <2>1. todo' = <<Task("removeScripts", None), Task("removeHooks", None), Task("readLedger", None)>>
    BY <1>1, <1>4, RemoveTasksAre DEF RemoveTasks
  <2>2. LeftTasks' = {Task("removeScripts", None), Task("removeHooks", None), Task("readLedger", None)}
    BY <2>1, RangeThree DEF LeftTasks
  <2>3. Left("removeScripts")' /\ Left("removeHooks")' /\ Left("readLedger")' /\ ~Left("removeServers")'
    BY <2>2 DEF Left, Task
  <2>4. todo' \in CodexRemovals /\ Unruly(r)'
    BY <1>2, <1>4, <2>1 DEF CodexRemovals, Kinds
  <2>5. GoneOrLeft(r)'
    BY <1>1, <1>4, <2>3, <2>4 DEF GoneOrLeft
  <2> QED
    BY <1>1, <2>5 DEF Removes
<1>5. CASE r \notin RuleRef /\ agent # "codex"
  <2>1. LeftTasks' = {Task("removeScripts", None), Task("removeHooks", None),
                      Task("checkStatusLine", None), Task("removeServers", None)}
    BY <1>1, <1>5, RemoveTasksAre
  <2>2. /\ Left("removeScripts")' /\ Left("removeHooks")' /\ Left("removeServers")'
        /\ ~Left("readLedger")' /\ ~Left("writeLedger")'
    BY <2>1 DEF Left, Task
  <2>3. ledger' = {} /\ Unruly(r)'
    BY <1>1, <1>2, <1>5 DEF Kinds
  <2>4. GoneOrLeft(r)'
    BY <1>1, <1>5, <2>2, <2>3 DEF GoneOrLeft
  <2> QED
    BY <1>1, <2>4 DEF Removes
<1> QED
  BY <1>3, <1>4, <1>5

\* The user's entries are no package's, and a command that ends or dies removes nothing more.
LEMMA RemovesRest ==
    ASSUME IInv, Kinds, Removes, UserEdits \/ ReadCopy \/ Finish \/ Die \/ UNCHANGED vars
    PROVE  Removes'
<1>1. CASE Finish \/ Die
  BY <1>1 DEF Finish, Die, Stop, Removes, Running
<1>2. CASE ~(Finish \/ Die)
  <2>1. UNCHANGED <<scripts, ledger, cmd, todo, agent, owned>>
    BY <1>2 DEF UserEdits, EditHook, EditLine, EditServer, EditAgentsMd, Edit, ReadCopy, vars
  <2> SUFFICES ASSUME NEW r \in Ref, Running, cmd.bundle = None, cmd.ref = r PROVE GoneOrLeft(r)'
    BY <2>1 DEF Removes, Running, IInv, Underway
  <2>2. EntriesOf(r)' = EntriesOf(r)
    BY <1>2, KindsRest
  <2>3. /\ (\A s \in servers : s.from \notin From(r)) => \A s \in servers' : s.from \notin From(r)
        /\ (\A h \in hooks : h.from \notin From(r)) => \A h \in hooks' : h.from \notin From(r)
        /\ Unruly(r) => Unruly(r)'
    <3>1. /\ {h \in hooks : h.from \in From(r)} = {h \in hooks' : h.from \in From(r)}
          /\ {s \in servers : s.from \in From(r)} = {s \in servers' : s.from \in From(r)}
      BY <2>2 DEF EntriesOf
    <3> QED
      BY <2>2, <3>1, NothingAdded
  <2>4. GoneOrLeft(r)
    BY DEF Removes
  <2>5. LeftTasks' = LeftTasks /\ \A do : Left(do)' <=> Left(do)
    BY <2>1 DEF LeftTasks, Left
  <2> QED
    BY <2>1, <2>3, <2>4, <2>5 DEF GoneOrLeft
<1> QED
  BY <1>1, <1>2

\* A codex server's owner is recorded before its command ends.
LEMMA OwnersRest ==
    ASSUME OwnersRecorded, IInv, Kinds, OwnersKnown,
           (\E b \in Bundle : InstallPackage(b)) \/ (\E r \in Ref : RemovePackage(r))
               \/ UserEdits \/ ReadCopy \/ Finish \/ Die \/ UNCHANGED vars
    PROVE  OwnersKnown'
<1>1. /\ UNCHANGED <<agent, ledger>>
      /\ \A s \in servers' : s.from \in Bundle => s \in servers
  <2>1. UNCHANGED <<agent, ledger>>
    BY DEF InstallPackage, RemovePackage, Begin, ReadCopy, Finish, Die, vars, UserEdits, EditHook, EditLine,
       EditServer, EditAgentsMd, Edit
  <2>2. CASE servers' = servers
    BY <2>1, <2>2
  <2>3. CASE EditServer
    BY <2>1, <2>3, NoneIsNothing DEF EditServer, UserServer
  <2> QED
    BY <2>1, <2>2, <2>3 DEF InstallPackage, RemovePackage, Begin, ReadCopy, Finish, Die, vars, UserEdits, EditHook, EditLine,
       EditAgentsMd
<1>2. ASSUME agent = "codex", NEW n, NEW r, AboutToRecord(n, r) PROVE AboutToRecord(n, r)'
  <2>1. Running /\ todo # << >> /\ Head(todo).do = "recordOwner"
    BY <1>2 DEF AboutToRecord, Task
  <2>2. "recordOwner" \notin CrashPoints
    BY <1>2 DEF OwnersRecorded, IInv
  <2>3. UNCHANGED <<cmd, todo>>
    BY <2>1, <2>2 DEF InstallPackage, RemovePackage, Begin, ReadCopy, Finish, Die, vars, UserEdits, EditHook, EditLine,
       EditServer, EditAgentsMd, Edit
  <2> QED
    BY <1>2, <2>3 DEF AboutToRecord, Running
<1> QED
  BY <1>1, <1>2 DEF OwnersKnown, OwnerKnown, Owner

LEMMA NextRInv ==
    ASSUME Apart, NamesDiffer, OwnersRecorded, IInv, Sorted, RInv, [Next]_vars
    PROVE  RInv'
<1>1. Kinds'
  BY KindsTask, KindsRest DEF RInv, Next
<1>2. Removes'
  <2>1. CASE \E b \in Bundle : InstallPackage(b)
    BY <2>1, NoneIsNothing DEF InstallPackage, Removes
  <2> QED
    BY <2>1, RemovesStart, RemovesTask, RemovesRest DEF RInv, Next
<1>3. OwnersKnown'
  BY OwnersTask, OwnersRest DEF RInv, Next
<1>4. ASSUME NEW r \in Ref, status[r] = Gone PROVE Bare(r)' /\ Unruly(r)'
  <2>1. ~(Running /\ cmd.ref = r)
    BY <1>4, SetupAssumption DEF SetupAssumption, Sorted
  <2>2. EntriesOf(r)' = EntriesOf(r)
    BY <2>1, NextIInv DEF StepKept
  <2> QED
    BY <1>4, <2>2, NothingAdded DEF RInv, Removed
<1>5. CASE Finish
  <2>1. /\ todo = << >> /\ Running /\ UNCHANGED disk
        /\ status' = [status EXCEPT ![cmd.ref] = IF cmd.bundle = None THEN Gone ELSE cmd.bundle]
    BY <1>5 DEF Finish
  <2>2. LeftTasks = {} /\ \A do : ~Left(do)
    BY <2>1, RangeEmpty DEF LeftTasks, Left
  <2>3. ASSUME NEW r \in Ref, cmd.ref = r, cmd.bundle = None PROVE Bare(r)' /\ Unruly(r)'
    <3>1. GoneOrLeft(r)
      BY <2>1, <2>3 DEF RInv, Removes
    <3>2. Bare(r) /\ Unruly(r)
      BY <2>2, <3>1 DEF GoneOrLeft, Bare
    <3> QED
      BY <2>1, <3>2 DEF Bare, Unruly
  <2>4. ASSUME NEW r \in Ref, status'[r] = Gone PROVE Bare(r)' /\ Unruly(r)'
    <3>1. status[r] = Gone \/ (cmd.ref = r /\ cmd.bundle = None)
      BY <2>1, <2>4, NoneIsNothing, SetupAssumption DEF SetupAssumption, Sorted
    <3> QED
      BY <1>4, <2>3, <3>1
  <2> QED
    BY <1>1, <1>2, <1>3, <2>4 DEF RInv, Removed
<1>6. CASE ~Finish
  <2>1. \A r \in Ref : status'[r] = status[r] \/ status'[r] = None
    <3>1. CASE UNCHANGED status
      BY <3>1
    <3>2. CASE (\E b \in Bundle : InstallPackage(b)) \/ (\E r \in Ref : RemovePackage(r))
      BY <3>2 DEF InstallPackage, RemovePackage, Begin, Sorted
    <3> QED
      BY <1>6, <3>1, <3>2, TaskDone DEF Next, vars, ReadCopy, Die, UserEdits, EditHook, EditLine,
         EditServer, EditAgentsMd, Edit
  <2>2. \A r \in Ref : status'[r] = Gone => Bare(r)' /\ Unruly(r)'
    BY <1>4, <2>1, SetupAssumption DEF SetupAssumption
  <2> QED
    BY <1>1, <1>2, <1>3, <2>2 DEF RInv, Removed
<1> QED
  BY <1>5, <1>6

LEMMA InitRInv == Init => RInv
BY DEF Init, RInv, Kinds, Removed, Removes, OwnersKnown, Bare, Unruly, Running

\* After the last command for a package was a removal, nothing of any version of
\* it is left in any file, its claim on the statusLine included, whatever
\* commands died before (removeSetup goes by owner, on codex by the ledger of
\* owners).  That takes that no codex install dies between the server and the
\* record of its owner: such a server is nobody's, and no removal finds it.
THEOREM RemovedLeavesNothing ==
    Apart /\ NamesDiffer /\ OwnersRecorded => (Spec => []RemovedIsGone)
<1> SUFFICES ASSUME Apart, NamesDiffer, OwnersRecorded PROVE Spec => []RemovedIsGone
  OBVIOUS
<1>1. IInv /\ [Next]_vars => IInv'
  BY NextIInv
<1>2. IInv /\ Sorted /\ RInv /\ [Next]_vars => RInv'
  BY NextRInv
<1>3. RInv /\ LineInv => RemovedIsGone
  <2> SUFFICES ASSUME RInv, LineInv, NEW r \in Ref, status[r] = Gone
               PROVE  EntriesOf(r) = << {}, {}, {}, {}, {} >> /\ ~OwnsLine(line, r)
    BY DEF RemovedIsGone
  <2>1. Bare(r) /\ Unruly(r) /\ ~OwnsLine(line, r)
    BY DEF RInv, Removed, LineInv, LineFits
  <2>2. /\ {s \in scripts : s.from \in From(r)} = {} /\ {h \in hooks : h.from \in From(r)} = {}
        /\ {s \in servers : s.from \in From(r)} = {} /\ {o \in ledger : o.owner = r} = {}
        /\ {x \in rules : x.from \in From(r)} = {}
    BY <2>1 DEF Bare, Unruly
  <2> QED
    BY <2>1, <2>2 DEF EntriesOf
<1> QED
  BY <1>1, <1>2, <1>3, NextPolite, NextLine, InitPolite, InitIInv, InitLine, InitRInv, PTL DEF Spec
=============================================================================
