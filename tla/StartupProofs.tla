--------------------------- MODULE StartupProofs ---------------------------
(***************************************************************************)
(* How a transport is put together and how a pvelab command starts, for    *)
(* every list of endpoints, every retry policy, and any sequence of        *)
(* configurations with any node names.                                     *)
(***************************************************************************)
EXTENDS Startup, FiniteSetTheorems, SequenceTheorems, WellFoundedInduction, TLAPS

-----------------------------------------------------------------------------
(***************************************************************************)
(* The inductive invariant.                                                *)
(***************************************************************************)
EndpointEntry == [addr : Addresses, priority : Priorities]

OptionsTypes ==
    /\ primary \in Addresses
    /\ extras \in Seq(EndpointEntry)
    /\ policy \in Policies \cup {DefaultRetryPolicy}

\* A running up works with a configuration that was valid when it was loaded,
\* and its VMs carry the names of its own nodes.
UpInv ==
    stage = "up" =>
        /\ loaded \in Config /\ ValidateNodes(loaded)
        /\ server = loaded.nodes
        /\ baked # NoURL /\ CheckAnswerURLLocal(loaded.answerURL)
        /\ \A n \in Nodes(loaded) :
              n.vmid \in DOMAIN vm => vm[n.vmid].serial = n.name

\* A running template build makes the template and nothing else.
TemplateInv ==
    stage \in {"checking", "template"} =>
        \A n \in Nodes(loaded) : n.vmid \in templateRange

VMFields == \A v \in DOMAIN vm :
    DOMAIN vm[v] = {"serial", "installed", "converted", "maker"}

StartupInv ==
    /\ OptionsTypes
    /\ cfg \in Config
    /\ stage \in {"idle", "up", "checking", "template"}
    /\ VMFields
    /\ UpInv
    /\ TemplateInv
    /\ TemplateRangeKept

-----------------------------------------------------------------------------
(***************************************************************************)
(* Every step keeps it.  The options first: they leave the lab alone.      *)
(***************************************************************************)
LEMMA OptionsKept ==
    ASSUME StartupInv, OptionsNext, UNCHANGED labVars
    PROVE  StartupInv'
<1> USE DEF StartupInv
<1>1. UNCHANGED <<cfg, loaded, baked, server, vm, stage, edits>>
  BY DEF labVars
<1>2. OptionsTypes'
  <2>1. CASE \E a \in Addresses, q \in Priorities :
                WithClusterEndpoint([addr |-> a, priority |-> q])
    <3>1. PICK e \in EndpointEntry : WithClusterEndpoint(e)
      BY <2>1 DEF EndpointEntry
    <3> QED
      BY <3>1 DEF OptionsTypes, WithClusterEndpoint
  <2>2. CASE \E q \in Policies : WithRetryPolicy(q)
    BY <2>2 DEF OptionsTypes, WithRetryPolicy
  <2> QED
    BY <2>1, <2>2 DEF OptionsNext
<1>3. VMFields' /\ TemplateInv' /\ TemplateRangeKept'
  BY <1>1 DEF VMFields, TemplateInv, TemplateRangeKept, Nodes
<1>4. UpInv'
  BY <1>1 DEF UpInv
<1> QED
  BY <1>1, <1>2, <1>3, <1>4

\* What is unchanged of the options by a command's step.
LEMMA OptionsStill ==
    ASSUME StartupInv, UNCHANGED optionVars
    PROVE  OptionsTypes'
BY DEF StartupInv, OptionsTypes, optionVars

\* A command that is not running has nothing to keep.
LEMMA IdleKept ==
    ASSUME stage' = "idle"
    PROVE  UpInv' /\ TemplateInv'
BY DEF UpInv, TemplateInv

\* Between commands: an edit, the ISO, and the teardown, which only removes VMs.
LEMMA BetweenKept ==
    ASSUME StartupInv, UNCHANGED optionVars, Edit \/ PrepareISO \/ Down
    PROVE  StartupInv'
<1> USE DEF StartupInv
<1>1. CASE Edit
  <2>1. UNCHANGED <<loaded, baked, server, vm, stage>> /\ cfg' \in Config
    BY <1>1, ConfigAssumption DEF Edit
  <2>2. VMFields' /\ TemplateInv' /\ TemplateRangeKept'
    BY <2>1 DEF VMFields, TemplateInv, TemplateRangeKept, Nodes
  <2>3. UpInv'
    BY <2>1 DEF UpInv
  <2> QED
    BY <2>1, <2>2, <2>3, OptionsStill
<1>2. CASE PrepareISO
  <2>1. UNCHANGED <<cfg, vm, stage>> /\ stage' = "idle"
    BY <1>2 DEF PrepareISO, Begins
  <2>2. VMFields' /\ TemplateRangeKept'
    BY <2>1 DEF VMFields, TemplateRangeKept
  <2> QED
    BY <2>1, <2>2, OptionsStill, IdleKept
<1>3. CASE Down
  <2>1. PICK S : vm' = [v \in DOMAIN vm \ S |-> vm[v]]
    BY <1>3 DEF Down
  <2>2. UNCHANGED <<cfg, stage>> /\ stage' = "idle"
    BY <1>3 DEF Down, Begins
  <2>3. VMFields' /\ TemplateRangeKept'
    BY <2>1 DEF VMFields, TemplateRangeKept
  <2> QED
    BY <2>2, <2>3, OptionsStill, IdleKept
<1> QED
  BY <1>1, <1>2, <1>3

\* A command starts: up with its configuration's nodes, none of which exists,
\* a build with the template as its only node, which stays so once the build
\* has found its slot free.
LEMMA StartKept ==
    ASSUME StartupInv, UNCHANGED optionVars, Up \/ TemplateBuild \/ TemplateSlot
    PROVE  StartupInv'
<1> USE DEF StartupInv
<1>1. CASE Up
  <2>1. /\ stage' = "up" /\ loaded' = cfg /\ server' = cfg.nodes
        /\ UNCHANGED <<cfg, baked, vm>>
        /\ \A n \in Nodes(cfg) : n.vmid \notin DOMAIN vm
        /\ baked # NoURL /\ CheckAnswerURLLocal(cfg.answerURL)
        /\ ValidateNodes(cfg)
    BY <1>1 DEF Up, Begins, Validate
  <2>2. VMFields' /\ TemplateRangeKept' /\ TemplateInv'
    BY <2>1 DEF VMFields, TemplateRangeKept, TemplateInv
  <2>3. UpInv'
    BY <2>1 DEF UpInv
  <2> QED
    BY <2>1, <2>2, <2>3, OptionsStill
<1>2. CASE TemplateBuild
  <2>1. /\ stage' = "checking" /\ loaded' = TemplateConfig(cfg)
        /\ UNCHANGED <<cfg, vm>>
        /\ cfg.template.vmid \in templateRange
    BY <1>2 DEF TemplateBuild, Begins, Validate, ValidateTemplate
  <2>2. VMFields' /\ TemplateRangeKept' /\ UpInv'
    BY <2>1 DEF VMFields, TemplateRangeKept, UpInv
  <2>3. TemplateConfig(cfg).nodes = <<[name |-> TemplateName, vmid |-> cfg.template.vmid,
                                      cidr |-> cfg.template.cidr]>>
    BY DEF TemplateConfig, Config
  <2>4. \A n \in Nodes(loaded') : n.vmid = cfg.template.vmid
    BY <2>1, <2>3 DEF Nodes
  <2>5. TemplateInv'
    BY <2>1, <2>4 DEF TemplateInv, Nodes
  <2> QED
    BY <2>1, <2>2, <2>5, OptionsStill
<1>3. CASE TemplateSlot
  <2>1. stage = "checking" /\ stage' = "template" /\ UNCHANGED <<cfg, loaded, vm>>
    BY <1>3 DEF TemplateSlot
  <2>2. VMFields' /\ TemplateRangeKept' /\ UpInv'
    BY <2>1 DEF VMFields, TemplateRangeKept, UpInv
  <2>3. TemplateInv'
    BY <2>1 DEF TemplateInv, Nodes
  <2> QED
    BY <2>1, <2>2, <2>3, OptionsStill
<1> QED
  BY <1>1, <1>2, <1>3

\* A running command makes a VM of one of its nodes.  The VMIDs of a valid
\* configuration differ, so it is no other node's; and up's are outside the
\* template sub-range while a build's is inside.
LEMMA CreateKept ==
    ASSUME StartupInv, UNCHANGED optionVars, NEW n \in Nodes(loaded), Create(n)
    PROVE  StartupInv'
<1> USE DEF StartupInv
<1> DEFINE new == [serial |-> n.name, installed |-> NoName,
                   converted |-> FALSE, maker |-> stage]
<1>1. /\ stage \in {"up", "template"} /\ n.vmid \notin DOMAIN vm
      /\ vm' = [v \in DOMAIN vm \cup {n.vmid} |-> IF v # n.vmid THEN vm[v] ELSE new]
      /\ UNCHANGED <<cfg, loaded, baked, server, stage>>
  BY DEF Create
<1>2. /\ DOMAIN vm' = DOMAIN vm \cup {n.vmid}
      /\ vm'[n.vmid] = new
      /\ \A v \in DOMAIN vm : vm'[v] = vm[v] /\ v # n.vmid
  BY <1>1
<1>3. DOMAIN new = {"serial", "installed", "converted", "maker"}
      /\ new.serial = n.name /\ new.maker = stage
  OBVIOUS
<1> HIDE DEF new
<1>4. VMFields'
  BY <1>2, <1>3 DEF VMFields
<1>5. TemplateInv'
  BY <1>1 DEF TemplateInv, Nodes
<1>6. n.vmid \in templateRange <=> stage = "template"
  BY <1>1 DEF UpInv, TemplateInv, ValidateNodes
<1>7. TemplateRangeKept'
  BY <1>2, <1>3, <1>6 DEF TemplateRangeKept
<1>8. CASE stage = "up"
  <2>1. \A m \in Nodes(loaded) : m.vmid = n.vmid => m = n
    <3> SUFFICES ASSUME NEW m \in Nodes(loaded), m.vmid = n.vmid
                 PROVE  m = n
      OBVIOUS
    <3>1. PICK i \in DOMAIN loaded.nodes : m = loaded.nodes[i]
      BY DEF Nodes
    <3>2. PICK j \in DOMAIN loaded.nodes : n = loaded.nodes[j]
      BY DEF Nodes
    <3>3. i = j
      <4>1. SUFFICES ASSUME i # j PROVE FALSE
        OBVIOUS
      <4>2. \A f \in {"name", "vmid", "cidr"} :
               loaded.nodes[i][f] # loaded.nodes[j][f]
        BY <1>8, <4>1 DEF UpInv, ValidateNodes
      <4>3. loaded.nodes[i]["vmid"] # loaded.nodes[j]["vmid"]
        BY <4>2
      <4> QED
        BY <3>1, <3>2, <4>3
    <3> QED
      BY <3>1, <3>2, <3>3
  <2>2. \A m \in Nodes(loaded) : m.vmid \in DOMAIN vm' => vm'[m.vmid].serial = m.name
    BY <1>2, <1>3, <1>8, <2>1 DEF UpInv
  <2>3. UpInv'
    BY <1>1, <1>8, <2>2 DEF UpInv
  <2> QED
    BY <1>1, <1>4, <1>5, <1>7, <2>3, OptionsStill
<1>9. CASE stage # "up"
  BY <1>1, <1>4, <1>5, <1>7, <1>9, OptionsStill DEF UpInv
<1> QED
  BY <1>8, <1>9

\* Whatever a step writes into VMs that exist, their serials and makers stay.
LEMMA SameVMs ==
    ASSUME StartupInv, NEW v \in DOMAIN vm, NEW x,
           \/ vm' = [vm EXCEPT ![v].installed = x]
           \/ vm' = [vm EXCEPT ![v].converted = x]
    PROVE  /\ DOMAIN vm' = DOMAIN vm
           /\ \A u \in DOMAIN vm : /\ vm'[u].serial = vm[u].serial
                                   /\ vm'[u].maker = vm[u].maker
           /\ VMFields' /\ TemplateRangeKept'
<1> USE DEF StartupInv
<1>1. /\ DOMAIN vm' = DOMAIN vm
      /\ \A u \in DOMAIN vm : DOMAIN vm'[u] = DOMAIN vm[u]
  OBVIOUS
<1>2. \A u \in DOMAIN vm : /\ vm'[u].serial = vm[u].serial
                           /\ vm'[u].maker = vm[u].maker
  BY DEF VMFields
<1> QED
  BY <1>1, <1>2 DEF VMFields, TemplateRangeKept

\* An installer is answered, and a command returns.
LEMMA RunKept ==
    ASSUME StartupInv, UNCHANGED optionVars,
           Return \/ \E v \in DOMAIN vm : ServeHTTP(v)
    PROVE  StartupInv'
<1> USE DEF StartupInv
<1>1. CASE Return
  <2>1. stage' = "idle" /\ UNCHANGED cfg
    BY <1>1 DEF Return
  <2>2. VMFields' /\ TemplateRangeKept'
    <3>1. CASE vm' = vm
      BY <3>1 DEF VMFields, TemplateRangeKept
    <3>2. CASE \E n \in Nodes(loaded) :
                  /\ n.vmid \in DOMAIN vm
                  /\ vm' = [vm EXCEPT ![n.vmid].converted = TRUE]
      BY <3>2, SameVMs
    <3> QED
      BY <1>1, <3>1, <3>2 DEF Return
  <2> QED
    BY <2>1, <2>2, OptionsStill, IdleKept
<1>2. CASE \E v \in DOMAIN vm : ServeHTTP(v)
  <2>1. PICK v \in DOMAIN vm : ServeHTTP(v)
    BY <1>2
  <2>2. UNCHANGED <<cfg, loaded, baked, server, stage>>
    BY <2>1 DEF ServeHTTP
  <2>3. PICK x : vm' = [vm EXCEPT ![v].installed = x]
    BY <2>1 DEF ServeHTTP
  <2>4. /\ DOMAIN vm' = DOMAIN vm
        /\ \A u \in DOMAIN vm : vm'[u].serial = vm[u].serial
        /\ VMFields' /\ TemplateRangeKept'
    BY <2>3, SameVMs
  <2>5. TemplateInv'
    BY <2>2 DEF TemplateInv, Nodes
  <2>6. UpInv'
    BY <2>2, <2>4 DEF UpInv
  <2> QED
    BY <2>2, <2>4, <2>5, <2>6, OptionsStill
<1> QED
  BY <1>1, <1>2

\* Through every sequence of edits and commands, and every list of options,
\* the configuration is well-formed, a running up works with a valid one, and
\* VMs of the lab and templates keep to their own VMIDs.
THEOREM StartupInvariant == Spec => []StartupInv
<1>1. Init => StartupInv
  <2> SUFFICES ASSUME Init PROVE StartupInv
    OBVIOUS
  <2>1. OptionsTypes
    BY DEF Init, OptionsInit, OptionsTypes
  <2>2. DOMAIN vm = {}
    BY DEF Init
  <2> QED
    BY <2>1, <2>2, ConfigAssumption
    DEF Init, StartupInv, VMFields, UpInv, TemplateInv, TemplateRangeKept
<1>2. StartupInv /\ [Next]_vars => StartupInv'
  <2> SUFFICES ASSUME StartupInv, [Next]_vars PROVE StartupInv'
    OBVIOUS
  <2>1. CASE OptionsNext /\ UNCHANGED labVars
    BY <2>1, OptionsKept
  <2>2. CASE LabNext /\ UNCHANGED optionVars
    BY <2>2, BetweenKept, StartKept, CreateKept, RunKept DEF LabNext
  <2>3. CASE UNCHANGED vars
    <3>1. UNCHANGED <<cfg, loaded, baked, server, vm, stage>> /\ UNCHANGED optionVars
      BY <2>3 DEF vars, labVars
    <3>2. VMFields' /\ TemplateInv' /\ TemplateRangeKept'
      BY <3>1 DEF StartupInv, VMFields, TemplateInv, TemplateRangeKept, Nodes
    <3>3. UpInv'
      BY <3>1 DEF StartupInv, UpInv
    <3> QED
      BY <3>1, <3>2, <3>3, OptionsStill DEF StartupInv
  <2> QED
    BY <2>1, <2>2, <2>3 DEF Next
<1> QED
  BY <1>1, <1>2, PTL DEF Spec

\* No up leaves a node's VM where a template build of another configuration
\* would need the VMID, and no template lies outside the sub-range
\* (validateNodes, validateTemplate).
THEOREM TemplateRangeCorrect == Spec => []TemplateRangeKept
BY StartupInvariant, PTL DEF StartupInv

\* The two parsers agree on every address in which what follows the host is not
\* mistaken for part of it: with a scheme or a port, or with nothing after it.
LEMMA OneHost ==
    ASSUME NEW a, a.scheme = NoPart /\ a.port = NoPart => a.rest = NoPart
    PROVE  OuterHost(a) = <<NormaliseAddress(a).host, NoPart>>
<1>1. NormaliseAddress(a).host = a.host
  BY DEF NormaliseAddress
<1> QED
  BY <1>1 DEF OuterHost

\* Whichever documented form outer.endpoint has, SSH and the API reach the same
\* host (OuterHost, normaliseAddress).
THEOREM OuterHostCorrect == Spec => []SameOuterHost
<1>1. \A a \in Addresses : a.scheme = NoPart /\ a.port = NoPart => a.rest = NoPart
  <2>1. \A s, h, p, r : /\ Addr(s, h, p, r).scheme = s /\ Addr(s, h, p, r).port = p
                        /\ Addr(s, h, p, r).rest = r
    BY DEF Addr
  <2>2. NoPart # "https" /\ NoPart # "http" /\ NoPart # "8006" /\ NoPart # "443"
    BY Zenon DEF NoPart
  <2> QED
    BY <2>1, <2>2 DEF Addresses
<1>2. StartupInv => SameOuterHost
  BY <1>1, OneHost DEF StartupInv, OptionsTypes, SameOuterHost
<1> QED
  BY <1>2, StartupInvariant, PTL

-----------------------------------------------------------------------------
(***************************************************************************)
(* The ring.  Among the endpoints that are kept, Before is a strict total  *)
(* order, so their ranks are the numbers below their count, each once.     *)
(***************************************************************************)
Declared(lst) ==
    /\ Len(lst) \in Nat /\ DOMAIN lst = 1..Len(lst)
    /\ \A i \in DOMAIN lst : lst[i].priority \in Int

\* A non-empty set of numbers has a least one.
LEMMA LeastNumber ==
    ASSUME NEW T \in SUBSET Nat, T # {}
    PROVE  \E x \in T : \A y \in T : x <= y
<1>1. PICK x \in T : \A y \in T : ~ (<<y, x>> \in OpToRel(<, Nat))
  BY NatLessThanWellFounded, WFMin
<1>2. \A y \in T : ~ (y < x)
  BY <1>1 DEF OpToRel
<1> QED
  BY <1>2

\* What is kept is finite, and the first of every base URL is kept.
LEMMA KeptFacts ==
    ASSUME NEW lst, Declared(lst)
    PROVE  /\ Kept(lst) \subseteq 1..Len(lst)
           /\ IsFiniteSet(Kept(lst)) /\ Cardinality(Kept(lst)) \in Nat
           /\ \A i, j \in Kept(lst) :
                NormaliseAddress(lst[i].addr) = NormaliseAddress(lst[j].addr) => i = j
           /\ \A i \in Kept(lst), j \in DOMAIN lst :
                NormaliseAddress(lst[i].addr) = NormaliseAddress(lst[j].addr) => i <= j
           /\ \A j \in DOMAIN lst : \E i \in Kept(lst) :
                NormaliseAddress(lst[i].addr) = NormaliseAddress(lst[j].addr)
<1> DEFINE base(i) == NormaliseAddress(lst[i].addr)
<1>1. Kept(lst) = {i \in 1..Len(lst) : \A j \in 1..(i - 1) : base(j) # base(i)}
  BY DEF Kept, Declared
<1> HIDE DEF base
<1>2. Kept(lst) \in SUBSET (1..Len(lst))
  BY <1>1
<1>3. IsFiniteSet(Kept(lst)) /\ Cardinality(Kept(lst)) \in Nat
  <2>1. IsFiniteSet(1..Len(lst))
    BY FS_Interval DEF Declared
  <2>2. IsFiniteSet(Kept(lst))
    BY <1>2, <2>1, FS_Subset
  <2> QED
    BY <2>2, FS_CardinalityType
<1>4. \A i \in Kept(lst), j \in DOMAIN lst : base(i) = base(j) => i <= j
  BY <1>1 DEF Declared
<1>5. \A i, j \in Kept(lst) : base(i) = base(j) => i = j
  BY <1>2, <1>4 DEF Declared
<1>6. ASSUME NEW j \in DOMAIN lst
      PROVE  \E i \in Kept(lst) : base(i) = base(j)
  <2> DEFINE T == {i \in 1..Len(lst) : base(i) = base(j)}
  <2>1. T \in SUBSET Nat /\ T # {}
    BY DEF Declared
  <2>2. PICK i \in T : \A k \in T : i <= k
    BY <2>1, LeastNumber
  <2>3. \A k \in 1..(i - 1) : base(k) # base(i)
    BY <2>2 DEF Declared
  <2> QED
    BY <1>1, <2>2, <2>3
<1> QED
  BY <1>2, <1>3, <1>4, <1>5, <1>6 DEF base

\* Before orders the kept endpoints.
LEMMA BeforeOrders ==
    ASSUME NEW lst, Declared(lst)
    PROVE  /\ \A i \in DOMAIN lst : ~ Before(lst, i, i)
           /\ \A i, j \in DOMAIN lst : i # j => Before(lst, i, j) \/ Before(lst, j, i)
           /\ \A i, j, k \in DOMAIN lst :
                Before(lst, i, j) /\ Before(lst, j, k) => Before(lst, i, k)
BY DEF Declared, Before

\* The rank of an endpoint is smaller than the rank of what goes after it, and
\* than the number of endpoints.
LEMMA RankOrders ==
    ASSUME NEW lst, Declared(lst)
    PROVE  /\ \A i \in Kept(lst) : Rank(lst, i) \in 0..(Cardinality(Kept(lst)) - 1)
           /\ \A i, j \in Kept(lst) : Before(lst, i, j) => Rank(lst, i) < Rank(lst, j)
<1> DEFINE K == Kept(lst)
           B(i) == {j \in K : Before(lst, j, i)}
<1>1. /\ K \subseteq DOMAIN lst /\ IsFiniteSet(K) /\ Cardinality(K) \in Nat
      /\ \A i : Rank(lst, i) = Cardinality(B(i))
  BY KeptFacts DEF Rank, Declared
<1> HIDE DEF K
<1>2. ASSUME NEW S, IsFiniteSet(S), NEW T \in SUBSET S, T # S
      PROVE  Cardinality(T) \in Nat /\ Cardinality(T) < Cardinality(S)
  BY <1>2, FS_Subset, FS_CardinalityType
<1>3. ASSUME NEW i \in K
      PROVE  Rank(lst, i) \in 0..(Cardinality(K) - 1)
  <2>1. B(i) \in SUBSET K /\ B(i) # K
    BY <1>1, BeforeOrders
  <2>2. Cardinality(B(i)) \in Nat /\ Cardinality(B(i)) < Cardinality(K)
    BY <1>1, <1>2, <2>1
  <2>3. Rank(lst, i) = Cardinality(B(i))
    BY <1>1
  <2> HIDE DEF B
  <2> QED
    BY <1>1, <2>2, <2>3
<1>4. ASSUME NEW i \in K, NEW j \in K, Before(lst, i, j)
      PROVE  Rank(lst, i) < Rank(lst, j)
  <2>1. B(i) \in SUBSET B(j) /\ B(i) # B(j)
    <3>1. i \in B(j) /\ i \notin B(i)
      BY <1>1, <1>4, BeforeOrders
    <3>2. \A k \in B(i) : k \in B(j)
      BY <1>1, <1>4, BeforeOrders
    <3> QED
      BY <3>1, <3>2
  <2>2. B(j) \in SUBSET K
    OBVIOUS
  <2>3. IsFiniteSet(B(j))
    BY <1>1, <2>2, FS_Subset
  <2> QED
    BY <1>1, <1>2, <2>1, <2>3
<1> QED
  BY <1>3, <1>4 DEF K

\* Every rank is taken, by one endpoint.
LEMMA RankBijects ==
    ASSUME NEW lst, Declared(lst)
    PROVE  /\ \A i, j \in Kept(lst) : Rank(lst, i) = Rank(lst, j) => i = j
           /\ \A r \in 0..(Cardinality(Kept(lst)) - 1) :
                \E i \in Kept(lst) : Rank(lst, i) = r
<1> DEFINE K == Kept(lst)
           R == [i \in K |-> Rank(lst, i)]
           T == {R[i] : i \in K}
           N == 0..(Cardinality(K) - 1)
<1>1. IsFiniteSet(K) /\ Cardinality(K) \in Nat /\ K \subseteq DOMAIN lst
  BY KeptFacts DEF Declared
<1>2. \A i, j \in K : Rank(lst, i) = Rank(lst, j) => i = j
  <2> SUFFICES ASSUME NEW i \in K, NEW j \in K, i # j
               PROVE  Rank(lst, i) # Rank(lst, j)
    OBVIOUS
  <2>1. Before(lst, i, j) \/ Before(lst, j, i)
    BY <1>1, BeforeOrders
  <2>2. Rank(lst, i) \in Int /\ Rank(lst, j) \in Int
    BY RankOrders
  <2> QED
    BY <2>1, <2>2, RankOrders
<1>3. R \in Bijection(K, T)
  BY <1>2 DEF Bijection, Injection, Surjection, IsInjective
<1>4. Cardinality(T) = Cardinality(K)
  BY <1>1, <1>3, FS_Bijection DEF ExistsBijection
<1>5. T \in SUBSET N
  BY RankOrders
<1>6. IsFiniteSet(N) /\ Cardinality(N) = Cardinality(K)
  BY <1>1, FS_Interval
<1>7. T = N
  <2> HIDE DEF T, N
  <2> QED
    BY <1>4, <1>5, <1>6, FS_Subset
<1> QED
  BY <1>2, <1>7

\* The k-th endpoint of the ring is the kept one with k - 1 before it.
LEMMA RingPlaces ==
    ASSUME NEW lst, Declared(lst)
    PROVE  LET rg == NewConnection(lst)
           IN  /\ DOMAIN rg = 1..Cardinality(Kept(lst))
               /\ \A k \in DOMAIN rg :
                    /\ rg[k].declared \in Kept(lst)
                    /\ Rank(lst, rg[k].declared) = k - 1
                    /\ rg[k].base = NormaliseAddress(lst[rg[k].declared].addr)
                    /\ rg[k].priority = lst[rg[k].declared].priority
<1> DEFINE N == Cardinality(Kept(lst))
           rg == NewConnection(lst)
           at(k) == CHOOSE i \in Kept(lst) : Rank(lst, i) = k - 1
<1>1. N \in Nat
  BY KeptFacts
<1>2. \A k \in 1..N : at(k) \in Kept(lst) /\ Rank(lst, at(k)) = k - 1
  <2> SUFFICES ASSUME NEW k \in 1..N
               PROVE  \E i \in Kept(lst) : Rank(lst, i) = k - 1
    OBVIOUS
  <2>1. k - 1 \in 0..(N - 1)
    BY <1>1
  <2> QED
    BY <2>1, RankBijects
<1>3. rg = [k \in 1..N |-> [base     |-> NormaliseAddress(lst[at(k)].addr),
                            priority |-> lst[at(k)].priority,
                            declared |-> at(k)]]
  BY DEF NewConnection
<1> HIDE DEF at, N
<1>4. /\ DOMAIN rg = 1..N
      /\ \A k \in 1..N : /\ rg[k].declared = at(k)
                         /\ rg[k].base = NormaliseAddress(lst[at(k)].addr)
                         /\ rg[k].priority = lst[at(k)].priority
  BY <1>3
<1> HIDE DEF rg
<1>5. \A k \in DOMAIN rg :
         /\ rg[k].declared \in Kept(lst)
         /\ Rank(lst, rg[k].declared) = k - 1
         /\ rg[k].base = NormaliseAddress(lst[rg[k].declared].addr)
         /\ rg[k].priority = lst[rg[k].declared].priority
  BY <1>2, <1>4
<1> QED
  BY <1>4, <1>5 DEF rg, N

\* newConnection, for any list of endpoints: every base URL once, through its
\* first declaration, in order of priority and then of declaration.
LEMMA RingOrdered ==
    ASSUME NEW lst, Declared(lst)
    PROVE  LET rg == NewConnection(lst)
           IN  /\ {rg[k].base : k \in DOMAIN rg} =
                     {NormaliseAddress(lst[i].addr) : i \in DOMAIN lst}
               /\ \A k, l \in DOMAIN rg : rg[k].base = rg[l].base => k = l
               /\ \A k \in DOMAIN rg, i \in DOMAIN lst :
                     NormaliseAddress(lst[i].addr) = rg[k].base
                     => rg[k].declared <= i
               /\ \A k, l \in DOMAIN rg : k < l =>
                     \/ rg[k].priority < rg[l].priority
                     \/ /\ rg[k].priority = rg[l].priority
                        /\ rg[k].declared < rg[l].declared
<1> DEFINE rg == NewConnection(lst)
           base(i) == NormaliseAddress(lst[i].addr)
           K == Kept(lst)
<1>1. /\ DOMAIN rg = 1..Cardinality(K)
      /\ \A k \in DOMAIN rg : /\ rg[k].declared \in K
                              /\ Rank(lst, rg[k].declared) = k - 1
                              /\ rg[k].base = base(rg[k].declared)
                              /\ rg[k].priority = lst[rg[k].declared].priority
  BY RingPlaces
<1>2. /\ K \subseteq DOMAIN lst /\ Cardinality(K) \in Nat
      /\ \A i, j \in K : base(i) = base(j) => i = j
      /\ \A i \in K, j \in DOMAIN lst : base(i) = base(j) => i <= j
      /\ \A j \in DOMAIN lst : \E i \in K : base(i) = base(j)
  BY KeptFacts DEF Declared
<1>3. \A i \in K : \E k \in DOMAIN rg : rg[k].declared = i
  <2> SUFFICES ASSUME NEW i \in K PROVE \E k \in DOMAIN rg : rg[k].declared = i
    OBVIOUS
  <2>1. Rank(lst, i) \in 0..(Cardinality(K) - 1)
    BY RankOrders
  <2> DEFINE k == Rank(lst, i) + 1
  <2>2. k \in 1..Cardinality(K) /\ k - 1 = Rank(lst, i)
    BY <1>2, <2>1
  <2> HIDE DEF k
  <2>3. rg[k].declared \in K /\ Rank(lst, rg[k].declared) = Rank(lst, i)
    BY <1>1, <2>2
  <2> QED
    BY <1>1, <2>2, <2>3, RankBijects
<1> HIDE DEF rg, base, K
<1>4. {rg[k].base : k \in DOMAIN rg} = {base(i) : i \in DOMAIN lst}
  <2>1. \A k \in DOMAIN rg : \E i \in DOMAIN lst : rg[k].base = base(i)
    BY <1>1, <1>2
  <2>2. \A i \in DOMAIN lst : \E k \in DOMAIN rg : rg[k].base = base(i)
    <3> SUFFICES ASSUME NEW j \in DOMAIN lst
                 PROVE  \E k \in DOMAIN rg : rg[k].base = base(j)
      OBVIOUS
    <3>1. PICK i \in K : base(i) = base(j)
      BY <1>2
    <3>2. PICK k \in DOMAIN rg : rg[k].declared = i
      BY <1>3
    <3> QED
      BY <1>1, <3>1, <3>2
  <2> QED
    BY <2>1, <2>2
<1>5. \A k, l \in DOMAIN rg : rg[k].base = rg[l].base => k = l
  <2> SUFFICES ASSUME NEW k \in DOMAIN rg, NEW l \in DOMAIN rg, rg[k].base = rg[l].base
               PROVE  k = l
    OBVIOUS
  <2>1. rg[k].declared = rg[l].declared
    BY <1>1, <1>2
  <2>2. k - 1 = l - 1 /\ k \in Int /\ l \in Int
    BY <1>1, <1>2, <2>1
  <2> QED
    BY <2>2
<1>6. \A k \in DOMAIN rg, i \in DOMAIN lst : base(i) = rg[k].base => rg[k].declared <= i
  BY <1>1, <1>2
<1>7. ASSUME NEW k \in DOMAIN rg, NEW l \in DOMAIN rg, k < l
      PROVE  Before(lst, rg[k].declared, rg[l].declared)
  <2>1. k \in Int /\ l \in Int
    BY <1>1, <1>2
  <2>2. Rank(lst, rg[k].declared) < Rank(lst, rg[l].declared)
    BY <1>1, <1>7, <2>1
  <2>3. rg[k].declared # rg[l].declared
    BY <1>1, <1>7, <2>1
  <2>4. ~ Before(lst, rg[l].declared, rg[k].declared)
    <3>1. SUFFICES ASSUME Before(lst, rg[l].declared, rg[k].declared) PROVE FALSE
      OBVIOUS
    <3>2. Rank(lst, rg[l].declared) < Rank(lst, rg[k].declared)
      BY <1>1, <3>1, RankOrders DEF K
    <3> QED
      BY <1>1, <2>1, <2>2, <3>2
  <2>5. rg[k].declared \in DOMAIN lst /\ rg[l].declared \in DOMAIN lst
    BY <1>1, <1>2
  <2> QED
    BY <2>3, <2>4, <2>5, BeforeOrders
<1>8. \A k, l \in DOMAIN rg : k < l =>
         \/ rg[k].priority < rg[l].priority
         \/ rg[k].priority = rg[l].priority /\ rg[k].declared < rg[l].declared
  BY <1>1, <1>7 DEF Before
<1> QED
  BY <1>4, <1>5, <1>6, <1>8 DEF rg, base

\* Unless some endpoint has a negative priority, the first one is the first.
LEMMA PrimaryFirst ==
    ASSUME NEW lst, Declared(lst), Len(lst) > 0,
           lst[1].priority = 0, \A i \in DOMAIN lst : lst[i].priority >= 0
    PROVE  NewConnection(lst)[1].base = NormaliseAddress(lst[1].addr)
<1> DEFINE rg == NewConnection(lst)
<1>1. 1 \in Kept(lst)
  BY DEF Kept, Declared
<1>2. {j \in Kept(lst) : Before(lst, j, 1)} = {}
  <2> SUFFICES ASSUME NEW j \in Kept(lst), Before(lst, j, 1) PROVE FALSE
    OBVIOUS
  <2>1. j \in 1..Len(lst) /\ DOMAIN lst = 1..Len(lst)
    BY KeptFacts DEF Declared
  <2>2. lst[j].priority \in Int /\ lst[j].priority >= 0 /\ j >= 1 /\ j \in Int
    BY <2>1 DEF Declared
  <2> QED
    BY <2>2 DEF Before
<1>3. Rank(lst, 1) = 0
  BY <1>2, FS_EmptySet DEF Rank
<1>4. 1 \in DOMAIN rg
  <2>1. Rank(lst, 1) \in 0..(Cardinality(Kept(lst)) - 1) /\ Cardinality(Kept(lst)) \in Nat
    BY <1>1, RankOrders, KeptFacts
  <2>2. DOMAIN rg = 1..Cardinality(Kept(lst))
    BY RingPlaces
  <2> QED
    BY <1>3, <2>1, <2>2
<1>5. /\ rg[1].declared \in Kept(lst) /\ Rank(lst, rg[1].declared) = 1 - 1
      /\ rg[1].base = NormaliseAddress(lst[rg[1].declared].addr)
  BY <1>4, RingPlaces
<1>6. rg[1].declared = 1
  BY <1>1, <1>3, <1>5, RankBijects
<1> QED
  BY <1>5, <1>6

\* However the addresses are spelt, duplicated and prioritised, the ring is
\* duplicate-free, complete and in the documented order (newConnection).
THEOREM RingCorrect == Spec => []RingRight
<1>1. StartupInv => RingRight
  <2> SUFFICES ASSUME StartupInv PROVE RingRight
    OBVIOUS
  <2> DEFINE e == [addr |-> primary, priority |-> 0]
  <2>1. extras \in Seq(EndpointEntry) /\ e \in EndpointEntry
    BY DEF StartupInv, OptionsTypes, EndpointEntry, Priorities
  <2>2. all = <<e>> \o extras
    BY DEF all, AllEndpoints
  <2> HIDE DEF e
  <2>3. /\ all \in Seq(EndpointEntry) /\ Len(all) > 0 /\ all[1] = e
    BY <2>1, <2>2
  <2>4. Declared(all)
    <3>1. \A x \in EndpointEntry : x.priority \in Int
      BY DEF EndpointEntry, Priorities
    <3>2. Len(all) \in Nat /\ DOMAIN all = 1..Len(all)
      BY <2>3
    <3>3. \A i \in 1..Len(all) : all[i] \in EndpointEntry
      BY <2>3
    <3> QED
      BY <3>1, <3>2, <3>3 DEF Declared
  <2>5. all[1].priority = 0 /\ all[1].addr = primary
    BY <2>3 DEF e
  <2>6. (\A i \in DOMAIN all : all[i].priority >= 0)
           => ring[1].base = NormaliseAddress(primary)
    BY <2>3, <2>4, <2>5, PrimaryFirst DEF ring
  <2> HIDE DEF all
  <2> QED
    BY <2>4, <2>6, RingOrdered DEF RingRight, ring
<1> QED
  BY <1>1, StartupInvariant, PTL

-----------------------------------------------------------------------------
(***************************************************************************)
(* The delays.  Both the loop and the growth it is compared with are       *)
(* sequences in which each element is made from the one before.            *)
(***************************************************************************)
Policy == [InitialDelay : Nat, MaxDelay : Nat, num : Nat \ {0}, den : Nat \ {0},
           Jitter : BOOLEAN]

Iterates(n, b, s, d) == d = [i \in 1..n |-> IF i = 1 THEN b ELSE s[d[i - 1]]]

\* Such a sequence exists, whatever is iterated.
LEMMA Iteration ==
    ASSUME NEW V, NEW b \in V, NEW s \in [V -> V]
    PROVE  \A n \in Nat : \E d \in [1..n -> V] : Iterates(n, b, s, d)
<1> USE DEF Iterates
<1> DEFINE Runs(n, d) == d = [i \in 1..n |-> IF i = 1 THEN b ELSE s[d[i - 1]]]
           T == {n \in Nat : ~ \E d \in [1..n -> V] : Runs(n, d)}
<1> SUFFICES ASSUME T # {} PROVE FALSE
  OBVIOUS
<1>1. T \in SUBSET Nat
  OBVIOUS
<1>2. PICK x \in T : \A y \in T : x <= y
  BY <1>1, LeastNumber
<1>3. x # 0
  <2> DEFINE none == [i \in 1..0 |-> b]
  <2>1. 1..0 = {}
    BY SMT
  <2>2. none \in [1..0 -> V]
    OBVIOUS
  <2>3. none = [i \in 1..0 |-> IF i = 1 THEN b ELSE s[none[i - 1]]]
    <3> HIDE DEF none
    <3>1. none = [i \in 1..0 |-> b]
      BY DEF none
    <3> QED
      BY <2>1, <3>1
  <2>4. Runs(0, none)
    BY <2>3
  <2> HIDE DEF none, Runs
  <2>5. 0 \notin T
    BY <2>2, <2>4
  <2> HIDE DEF T
  <2> QED
    BY <1>2, <2>5
<1>4. x \in Nat /\ x - 1 \in Nat /\ x - 1 \notin T
  <2> HIDE DEF T
  <2> QED
    BY <1>1, <1>2, <1>3
<1>5. PICK e \in [1..(x - 1) -> V] : Runs(x - 1, e)
  BY <1>4
<1> DEFINE last == IF x = 1 THEN b ELSE s[e[x - 1]]
           d == [i \in 1..x |-> IF i = x THEN last ELSE e[i]]
<1>6. last \in V
  BY <1>4
<1>7. \A i \in 1..x : i # x => i \in 1..(x - 1)
  BY <1>4
<1>8. d \in [1..x -> V]
  BY <1>4, <1>6, <1>7
<1>9. ASSUME NEW i \in 1..x
      PROVE  d[i] = IF i = 1 THEN b ELSE s[d[i - 1]]
  <2>1. CASE i = x
    <3>1. d[i] = last
      BY <2>1
    <3>2. x # 1 => x - 1 \in 1..x /\ x - 1 # x /\ d[x - 1] = e[x - 1]
      BY <1>4
    <3> QED
      BY <2>1, <3>1, <3>2
  <2>2. CASE i # x
    <3>1. i \in 1..(x - 1) /\ d[i] = e[i]
      BY <1>7, <2>2
    <3>2. e[i] = IF i = 1 THEN b ELSE s[e[i - 1]]
      BY <1>5, <3>1
    <3>3. i # 1 => i - 1 \in 1..x /\ i - 1 # x /\ d[i - 1] = e[i - 1]
      BY <1>4, <3>1
    <3> QED
      BY <3>1, <3>2, <3>3
  <2> QED
    BY <2>1, <2>2
<1>10. Runs(x, d)
  <2> HIDE DEF last
  <2> QED
    BY <1>9
<1> HIDE DEF d
<1> QED
  BY <1>2, <1>8, <1>10

\* One step of the growth, and that it does not shrink.
LEMMA ScaleFacts ==
    ASSUME NEW p \in Policy, NEW d \in Nat
    PROVE  /\ Scale(p, d) \in Nat
           /\ p.num >= p.den => Scale(p, d) >= d
<1>1. p.num \in Nat /\ p.den \in Nat /\ p.den > 0
  BY DEF Policy
<1> DEFINE a == p.num  b == p.den
<1>2. a \in Nat /\ b \in Nat /\ b > 0
  BY <1>1
<1>3. Scale(p, d) = (d * a) \div b
  BY DEF Scale
<1> HIDE DEF a, b
<1>4. (d * a) \div b \in Nat
  BY <1>2
<1>5. a >= b => (d * a) \div b >= d
  BY <1>2
<1> QED
  BY <1>3, <1>4, <1>5 DEF a, b

Growing(p, n, e) ==
    e = [i \in 1..n |-> IF i = 1 THEN p.InitialDelay ELSE Scale(p, e[i - 1])]

\* The growth before the cap, as a sequence.
LEMMA GrowthRuns ==
    ASSUME NEW p \in Policy, NEW n \in Nat \ {0}
    PROVE  \E e \in [1..n -> Nat] :
              /\ Growing(p, n, e)
              /\ CappedGrowth(p, n) = IF n > 1 /\ e[n] >= p.MaxDelay
                                      THEN p.MaxDelay ELSE e[n]
<1> DEFINE s == [d \in Nat |-> Scale(p, d)]
           g == CHOOSE e : e = [i \in 1..n |-> IF i = 1 THEN p.InitialDelay
                                               ELSE Scale(p, e[i - 1])]
<1>1. s \in [Nat -> Nat] /\ p.InitialDelay \in Nat
  BY ScaleFacts DEF Policy
<1> HIDE DEF s
<1>2. PICK e \in [1..n -> Nat] : Iterates(n, p.InitialDelay, s, e)
  BY <1>1, Iteration
<1>3. \A i \in 1..n : i # 1 => e[i - 1] \in Nat /\ s[e[i - 1]] = Scale(p, e[i - 1])
  <2> SUFFICES ASSUME NEW i \in 1..n, i # 1
               PROVE  e[i - 1] \in Nat /\ s[e[i - 1]] = Scale(p, e[i - 1])
    OBVIOUS
  <2>1. i - 1 \in 1..n
    OBVIOUS
  <2> QED
    BY <2>1 DEF s
<1>4. Growing(p, n, e)
  BY <1>2, <1>3 DEF Growing, Iterates
<1>5. Growing(p, n, g)
  BY <1>4 DEF Growing
<1>6. CappedGrowth(p, n) = IF n > 1 /\ g[n] >= p.MaxDelay THEN p.MaxDelay ELSE g[n]
  BY DEF CappedGrowth
<1> HIDE DEF g
<1>7. DOMAIN g = 1..n /\ g = [i \in 1..n |-> g[i]]
  BY <1>5 DEF Growing
<1>8. \A i \in 1..n : g[i] = e[i]
  <2> DEFINE T == {i \in 1..n : g[i] # e[i]}
  <2> SUFFICES ASSUME T # {} PROVE FALSE
    OBVIOUS
  <2>1. T \in SUBSET Nat
    OBVIOUS
  <2>2. PICK x \in T : \A y \in T : x <= y
    BY <2>1, LeastNumber
  <2>3. x \in 1..n /\ g[x] # e[x]
    BY <2>2
  <2>4. x # 1 => x - 1 \in 1..n /\ g[x - 1] = e[x - 1]
    BY <2>2, <2>3
  <2> QED
    BY <1>4, <1>5, <2>3, <2>4 DEF Growing
<1>9. g = e
  BY <1>7, <1>8
<1> QED
  BY <1>4, <1>6, <1>9

Turn(p, d) == IF d.stop THEN d
              ELSE IF Scale(p, d.v) >= p.MaxDelay THEN [v |-> p.MaxDelay, stop |-> TRUE]
                                                  ELSE [v |-> Scale(p, d.v), stop |-> FALSE]

Looping(p, n, d) ==
    d = [i \in 1..n |-> IF i = 1 THEN [v |-> p.InitialDelay, stop |-> FALSE]
                        ELSE Turn(p, d[i - 1])]

\* The loop of delay, as a sequence.
LEMMA LoopRuns ==
    ASSUME NEW p \in Policy, NEW n \in Nat \ {0}
    PROVE  \E d \in [1..n -> [v : Nat, stop : BOOLEAN]] :
              Looping(p, n, d) /\ Grown(p, n) = d[n].v
<1> DEFINE V == [v : Nat, stop : BOOLEAN]
           b == [v |-> p.InitialDelay, stop |-> FALSE]
           s == [d \in V |-> Turn(p, d)]
           g == CHOOSE d : d = [i \in 1..n |-> IF i = 1 THEN b ELSE Turn(p, d[i - 1])]
<1>1. b \in V /\ s \in [V -> V]
  <2>1. b \in V
    BY DEF Policy
  <2>2. \A d \in V : Turn(p, d) \in V
    <3> SUFFICES ASSUME NEW d \in V PROVE Turn(p, d) \in V
      OBVIOUS
    <3>1. Scale(p, d.v) \in Nat /\ p.MaxDelay \in Nat
      BY ScaleFacts DEF Policy
    <3> QED
      BY <3>1 DEF Turn
  <2> QED
    BY <2>1, <2>2
<1>2. \A d \in V : s[d] = Turn(p, d)
  OBVIOUS
<1> HIDE DEF s, V, b
<1>3. PICK e \in [1..n -> V] : Iterates(n, b, s, e)
  BY <1>1, Iteration
<1>4. \A i \in 1..n : i # 1 => s[e[i - 1]] = Turn(p, e[i - 1])
  <2> SUFFICES ASSUME NEW i \in 1..n, i # 1
               PROVE  s[e[i - 1]] = Turn(p, e[i - 1])
    OBVIOUS
  <2>1. i - 1 \in 1..n
    OBVIOUS
  <2> QED
    BY <1>2, <2>1
<1>5. Looping(p, n, e)
  BY <1>3, <1>4 DEF Looping, Iterates, b
<1>6. Looping(p, n, g)
  BY <1>5 DEF Looping, b
<1>7. Grown(p, n) = g[n].v
  BY DEF Grown, Turn, b
<1> HIDE DEF g
<1>8. DOMAIN g = 1..n /\ g = [i \in 1..n |-> g[i]]
  BY <1>6 DEF Looping
<1>9. \A i \in 1..n : g[i] = e[i]
  <2> DEFINE T == {i \in 1..n : g[i] # e[i]}
  <2> SUFFICES ASSUME T # {} PROVE FALSE
    OBVIOUS
  <2>1. T \in SUBSET Nat
    OBVIOUS
  <2>2. PICK x \in T : \A y \in T : x <= y
    BY <2>1, LeastNumber
  <2>3. x \in 1..n /\ g[x] # e[x]
    BY <2>2
  <2>4. x # 1 => x - 1 \in 1..n /\ g[x - 1] = e[x - 1]
    BY <2>2, <2>3
  <2> QED
    BY <1>5, <1>6, <2>3, <2>4 DEF Looping
<1>10. g = e
  BY <1>8, <1>9
<1> QED
  BY <1>5, <1>7, <1>10 DEF V

\* As long as it has not stopped, the loop has the growth and has not reached
\* the cap; once it has, the growth has reached it as well.
LEMMA LoopAgrees ==
    ASSUME NEW p \in Policy, p.num >= p.den, NEW n \in Nat \ {0},
           NEW e \in [1..n -> Nat], Growing(p, n, e),
           NEW d \in [1..n -> [v : Nat, stop : BOOLEAN]], Looping(p, n, d)
    PROVE  \A i \in 1..n :
              /\ d[i].stop => i > 1 /\ d[i].v = p.MaxDelay /\ e[i] >= p.MaxDelay
              /\ ~ d[i].stop => d[i].v = e[i] /\ (i > 1 => e[i] < p.MaxDelay)
<1> DEFINE P(i) == /\ d[i].stop => i > 1 /\ d[i].v = p.MaxDelay /\ e[i] >= p.MaxDelay
                   /\ ~ d[i].stop => d[i].v = e[i] /\ (i > 1 => e[i] < p.MaxDelay)
           T == {i \in 1..n : ~ P(i)}
<1> SUFFICES ASSUME T # {} PROVE FALSE
  OBVIOUS
<1>1. T \in SUBSET Nat
  OBVIOUS
<1>2. PICK x \in T : \A y \in T : x <= y
  BY <1>1, LeastNumber
<1>3. x \in 1..n /\ ~ P(x)
  BY <1>2
<1>4. p.MaxDelay \in Nat
  BY DEF Policy
<1>5. CASE x = 1
  <2>1. d[1] = [v |-> p.InitialDelay, stop |-> FALSE] /\ e[1] = p.InitialDelay
    BY <1>3, <1>5 DEF Looping, Growing
  <2> QED
    BY <1>3, <1>5, <2>1
<1>6. CASE x # 1
  <2>1. x - 1 \in 1..n /\ x - 1 \notin T
    <3> HIDE DEF T
    <3> QED
      BY <1>1, <1>2, <1>3, <1>6
  <2>2. P(x - 1)
    BY <2>1
  <2>3. d[x] = Turn(p, d[x - 1]) /\ e[x] = Scale(p, e[x - 1])
    BY <1>3, <1>6 DEF Looping, Growing
  <2>4. /\ e[x - 1] \in Nat /\ e[x] \in Nat /\ e[x] >= e[x - 1]
    BY <2>1, <2>3, ScaleFacts
  <2>5. CASE d[x - 1].stop
    <3>1. d[x] = d[x - 1]
      BY <2>3, <2>5 DEF Turn
    <3> QED
      BY <1>3, <1>4, <1>6, <2>2, <2>4, <2>5, <3>1
  <2>6. CASE ~ d[x - 1].stop
    <3>1. d[x - 1].v = e[x - 1]
      BY <2>2, <2>6
    <3>2. d[x] = IF e[x] >= p.MaxDelay THEN [v |-> p.MaxDelay, stop |-> TRUE]
                                       ELSE [v |-> e[x], stop |-> FALSE]
      BY <2>3, <2>6, <3>1 DEF Turn
    <3> QED
      BY <1>3, <1>4, <1>6, <2>4, <3>2
  <2> QED
    BY <2>5, <2>6
<1> QED
  BY <1>5, <1>6

\* Leaving the loop at the cap loses nothing.
LEMMA GrownIsCapped ==
    ASSUME NEW p \in Policy, p.num >= p.den, NEW n \in Nat \ {0}
    PROVE  Grown(p, n) = CappedGrowth(p, n) /\ Grown(p, n) \in Nat
<1>1. PICK e \in [1..n -> Nat] :
         /\ Growing(p, n, e)
         /\ CappedGrowth(p, n) = IF n > 1 /\ e[n] >= p.MaxDelay THEN p.MaxDelay ELSE e[n]
  BY GrowthRuns
<1>2. PICK d \in [1..n -> [v : Nat, stop : BOOLEAN]] :
         Looping(p, n, d) /\ Grown(p, n) = d[n].v
  BY LoopRuns
<1>3. n \in 1..n
  OBVIOUS
<1>4. /\ d[n].stop => n > 1 /\ d[n].v = p.MaxDelay /\ e[n] >= p.MaxDelay
      /\ ~ d[n].stop => d[n].v = e[n] /\ (n > 1 => e[n] < p.MaxDelay)
  BY <1>1, <1>2, <1>3, LoopAgrees
<1>5. e[n] \in Nat /\ d[n].v \in Nat /\ p.MaxDelay \in Nat /\ d[n].stop \in BOOLEAN
  BY <1>3 DEF Policy
<1> QED
  BY <1>1, <1>2, <1>4, <1>5

\* Under every policy that does not shrink, the wait before a retry is the
\* growth cut off at MaxDelay and the jitter adds at most half
\* (RetryPolicy.delay).
THEOREM DelayCorrect == Spec => []DelayIsCappedGrowth
<1>1. StartupInv => DelayIsCappedGrowth
  <2> SUFFICES ASSUME StartupInv, policy.num >= policy.den,
                      NEW n \in 1..MaxAttempts, NEW d \in Delays(policy, n)
               PROVE  CappedGrowth(policy, n) <= d
                      /\ 2 * (d - CappedGrowth(policy, n)) <= CappedGrowth(policy, n)
    BY DEF DelayIsCappedGrowth
  <2>1. policy \in Policy
    <3>1. DefaultRetryPolicy \in Policy
      BY DEF DefaultRetryPolicy, Policy
    <3>2. \A m \in Nat : 0..m \subseteq Nat /\ 1..m \subseteq Nat \ {0}
      OBVIOUS
    <3>3. MaxDuration \in Nat /\ MaxFactor \in Nat
      BY OptionsAssumption
    <3>4. 0..MaxDuration \subseteq Nat /\ 1..MaxFactor \subseteq Nat \ {0}
      BY <3>2, <3>3
    <3>5. Policies \subseteq Policy
      BY <3>4, Zenon DEF Policies, Policy
    <3> QED
      BY <3>1, <3>5 DEF StartupInv, OptionsTypes
  <2>2. n \in Nat \ {0}
    BY OptionsAssumption
  <2> DEFINE g == CappedGrowth(policy, n)
  <2>3. g \in Nat /\ d \in Jittered(policy, g)
    BY <2>1, <2>2, GrownIsCapped DEF Delays
  <2> HIDE DEF g
  <2>4. g <= d /\ 2 * (d - g) <= g
    BY <2>3 DEF Jittered
  <2> QED
    BY <2>4 DEF g
<1> QED
  BY <1>1, StartupInvariant, PTL

-----------------------------------------------------------------------------
(***************************************************************************)
(* The answers.  A name is found in a body between its quotes and nowhere  *)
(* else that is as long.                                                   *)
(***************************************************************************)
Mark == <<"quote">>
Sign == Letter \cup {"quote", "base64"}
Word == Seq(Sign)

\* The quote is a word.
LEMMA MarkFacts == Mark \in Word /\ Len(Mark) = 1 /\ Mark[1] = "quote"
<1>1. "quote" \in Sign
  BY DEF Sign
<1>2. ASSUME NEW S, NEW x \in S
      PROVE  <<x>> \in Seq(S) /\ Len(<<x>>) = 1 /\ <<x>>[1] = x
  OBVIOUS
<1> QED
  BY <1>1, <1>2, Zenon DEF Mark, Word

\* A body is its name in quotes.
LEMMA QuotedFacts ==
    ASSUME NEW t \in Seq(Word)
    PROVE  /\ Quoted(t) \in Seq(Word) /\ Len(Quoted(t)) = Len(t) + 2
           /\ Quoted(t)[1] = Mark /\ Quoted(t)[Len(t) + 2] = Mark
           /\ \A k \in 1..Len(t) : Quoted(t)[k + 1] = t[k]
<1> DEFINE u == <<Mark>> \o t
           w == u \o <<Mark>>
<1>1. <<Mark>> \in Seq(Word) /\ Len(<<Mark>>) = 1 /\ <<Mark>>[1] = Mark /\ Len(t) \in Nat
  BY MarkFacts
<1>2. /\ u \in Seq(Word) /\ Len(u) = Len(t) + 1 /\ u[1] = Mark
      /\ \A k \in 1..Len(t) : u[k + 1] = t[k]
  BY <1>1
<1> HIDE DEF u
<1>3. /\ w \in Seq(Word) /\ Len(w) = Len(t) + 2 /\ w[Len(t) + 2] = Mark
      /\ \A i \in 1..(Len(t) + 1) : w[i] = u[i]
  BY <1>1, <1>2
<1>4. Quoted(t) = w
  BY DEF Quoted, Mark, u
<1> HIDE DEF w
<1>5. w[1] = Mark /\ \A k \in 1..Len(t) : w[k + 1] = t[k]
  BY <1>1, <1>2, <1>3
<1> QED
  BY <1>3, <1>4, <1>5

\* Where a sequence occurs, the body has its elements.
LEMMA OccursAt ==
    ASSUME NEW s \in Seq(Word), NEW body \in Seq(Word), Occurs(s, body)
    PROVE  \E i \in Nat : /\ i + Len(s) <= Len(body)
                          /\ \A k \in 1..Len(s) : body[i + k] = s[k]
<1>1. PICK i \in 0..(Len(body) - Len(s)) : SubSeq(body, i + 1, i + Len(s)) = s
  BY DEF Occurs
<1>2. Len(s) \in Nat /\ Len(body) \in Nat /\ i \in Nat /\ i + Len(s) <= Len(body)
  OBVIOUS
<1>3. ASSUME NEW k \in 1..Len(s)
      PROVE  body[i + k] = s[k]
  <2>1. \A j \in (i + 1)..(i + Len(s)) : body[j] \in Word
    BY <1>2
  <2>2. \A j \in 1..(i + Len(s) - (i + 1) + 1) :
           SubSeq(body, i + 1, i + Len(s))[j] = body[i + 1 + j - 1]
    BY <1>2, <2>1, SubSeqProperties
  <2>3. k \in 1..(i + Len(s) - (i + 1) + 1) /\ i + 1 + k - 1 = i + k
    BY <1>2
  <2> QED
    BY <1>1, <2>2, <2>3
<1> QED
  BY <1>2, <1>3

\* The first element of what occurs in a quoted name is a quote or the name's,
\* and so is the last.
LEMMA QuotedAt ==
    ASSUME NEW s \in Seq(Word), NEW t \in Seq(Word), Len(s) > 0, Occurs(s, Quoted(t)),
           s[1] # Mark, s[Len(s)] # Mark
    PROVE  \E i \in 1..Len(t) : /\ i + Len(s) <= Len(t) + 1
                                /\ \A k \in 1..Len(s) : t[i + k - 1] = s[k]
<1>1. /\ Quoted(t) \in Seq(Word) /\ Len(Quoted(t)) = Len(t) + 2
      /\ Quoted(t)[1] = Mark /\ Quoted(t)[Len(t) + 2] = Mark
      /\ \A k \in 1..Len(t) : Quoted(t)[k + 1] = t[k]
  BY QuotedFacts
<1>2. PICK i \in Nat : /\ i + Len(s) <= Len(t) + 2
                       /\ \A k \in 1..Len(s) : Quoted(t)[i + k] = s[k]
  BY <1>1, OccursAt
<1>3. Len(s) \in Nat /\ Len(t) \in Nat /\ 1 \in 1..Len(s) /\ Len(s) \in 1..Len(s)
  OBVIOUS
<1>4. Quoted(t)[i + 1] = s[1] /\ Quoted(t)[i + Len(s)] = s[Len(s)]
  BY <1>2, <1>3
<1>5. i + 1 # 1 /\ i + Len(s) # Len(t) + 2
  BY <1>1, <1>4
<1>6. i \in 1..Len(t) /\ i + Len(s) <= Len(t) + 1
  BY <1>2, <1>3, <1>5
<1>7. ASSUME NEW k \in 1..Len(s)
      PROVE  t[i + k - 1] = s[k]
  <2>1. i + k - 1 \in 1..Len(t) /\ i + k - 1 + 1 = i + k
    BY <1>3, <1>6
  <2> QED
    BY <1>1, <1>2, <2>1
<1> QED
  BY <1>6, <1>7

\* What has no quote in it and is at least as long occurs only as the whole.
LEMMA QuotedOnce ==
    ASSUME NEW s \in Seq(Word), NEW t \in Seq(Word),
           Len(s) > 0, Len(s) >= Len(t), \A k \in 1..Len(s) : s[k] # Mark,
           Occurs(s, Quoted(t))
    PROVE  s = t
<1>1. Len(s) \in Nat /\ Len(t) \in Nat /\ 1 \in 1..Len(s) /\ Len(s) \in 1..Len(s)
  OBVIOUS
<1>2. PICK i \in 1..Len(t) : /\ i + Len(s) <= Len(t) + 1
                             /\ \A k \in 1..Len(s) : t[i + k - 1] = s[k]
  BY <1>1, QuotedAt
<1>3. i = 1 /\ Len(s) = Len(t)
  BY <1>1, <1>2
<1>4. \A k \in 1..Len(s) : i + k - 1 = k
  BY <1>1, <1>3
<1>5. \A k \in 1..Len(s) : s[k] = t[k]
  BY <1>2, <1>4
<1> QED
  BY <1>3, <1>5, SeqEqual

\* The whole does occur.
LEMMA QuotedOccurs ==
    ASSUME NEW t \in Seq(Word)
    PROVE  Occurs(t, Quoted(t))
<1>1. /\ Quoted(t) \in Seq(Word) /\ Len(Quoted(t)) = Len(t) + 2
      /\ \A k \in 1..Len(t) : Quoted(t)[k + 1] = t[k]
  BY QuotedFacts
<1> DEFINE w == SubSeq(Quoted(t), 1 + 1, 1 + Len(t))
<1>2. Len(t) \in Nat
  OBVIOUS
<1>3. w \in Seq(Word) /\ Len(w) = Len(t)
      /\ \A k \in 1..Len(t) : w[k] = Quoted(t)[1 + 1 + k - 1]
  <2>1. \A j \in (1 + 1)..(1 + Len(t)) : Quoted(t)[j] \in Word
    BY <1>1, <1>2
  <2> QED
    BY <1>2, <2>1, SubSeqProperties
<1>4. \A k \in 1..Len(t) : w[k] = t[k]
  BY <1>1, <1>2, <1>3
<1> HIDE DEF w
<1>5. w = t
  BY <1>3, <1>4, SeqEqual
<1>6. 1 \in 0..(Len(Quoted(t)) - Len(t))
  BY <1>1, <1>2
<1> QED
  BY <1>5, <1>6 DEF Occurs, w

\* What begins with nothing that a quoted name is made of does not occur.
LEMMA Elsewhere ==
    ASSUME NEW s \in Seq(Word), NEW t \in Seq(Word), Len(s) > 0,
           s[1] # Mark, s[Len(s)] # Mark, \A k \in 1..Len(t) : s[1] # t[k]
    PROVE  ~ Occurs(s, Quoted(t))
<1> SUFFICES ASSUME Occurs(s, Quoted(t)) PROVE FALSE
  OBVIOUS
<1>1. PICK i \in 1..Len(t) : \A k \in 1..Len(s) : t[i + k - 1] = s[k]
  BY QuotedAt
<1>2. 1 \in 1..Len(s) /\ i + 1 - 1 = i
  OBVIOUS
<1> QED
  BY <1>1, <1>2

Name == {nm \in Seq(Letter) : Len(nm) > 0}

\* A word of one sign.
LEMMA OneSign ==
    ASSUME NEW S, NEW x \in S
    PROVE  <<x>> \in Seq(S) /\ Len(<<x>>) = 1 /\ <<x>>[1] = x
OBVIOUS

\* A name as it stands: words of one letter.
LEMMA RawFacts ==
    ASSUME NEW nm \in Name
    PROVE  /\ Raw(nm) \in Seq(Word) /\ Len(Raw(nm)) = Len(nm)
           /\ \A k \in 1..Len(nm) : /\ Raw(nm)[k][1] = nm[k] /\ Len(Raw(nm)[k]) = 1
                                    /\ Raw(nm)[k] # Mark
<1>1. nm \in Seq(Letter) /\ Len(nm) \in Nat /\ DOMAIN nm = 1..Len(nm)
  BY DEF Name
<1>2. Raw(nm) = [k \in 1..Len(nm) |-> <<nm[k]>>]
  BY <1>1 DEF Raw
<1>3. \A k \in 1..Len(nm) : nm[k] \in Sign /\ nm[k] # "quote"
  BY <1>1 DEF Sign, Letter
<1>4. \A k \in 1..Len(nm) : <<nm[k]>> \in Word /\ Len(<<nm[k]>>) = 1 /\ <<nm[k]>>[1] = nm[k]
  BY <1>3, OneSign DEF Word
<1>5. Raw(nm) \in [1..Len(nm) -> Word]
  BY <1>2, <1>4
<1>6. Raw(nm) \in Seq(Word) /\ Len(Raw(nm)) = Len(nm)
  BY <1>1, <1>5
<1>7. \A k \in 1..Len(nm) : Raw(nm)[k] = <<nm[k]>>
  BY <1>2
<1>8. \A k \in 1..Len(nm) : Raw(nm)[k] # Mark
  <2> SUFFICES ASSUME NEW k \in 1..Len(nm), Raw(nm)[k] = Mark PROVE FALSE
    OBVIOUS
  <2>1. Raw(nm)[k][1] = nm[k]
    BY <1>4, <1>7
  <2> QED
    BY <1>3, <2>1, MarkFacts
<1> QED
  BY <1>4, <1>6, <1>7, <1>8

Chunks(nm) == (Len(nm) + 2) \div 3
End(nm, k) == IF 3 * k < Len(nm) THEN 3 * k ELSE Len(nm)

\* How a name is cut into threes.
LEMMA CutFacts ==
    ASSUME NEW nm \in Name
    PROVE  /\ Len(nm) \in Nat /\ Chunks(nm) \in Nat /\ Chunks(nm) >= 1
           /\ 3 * Chunks(nm) >= Len(nm) /\ 3 * Chunks(nm) - 2 <= Len(nm)
           /\ \A k \in 1..Chunks(nm) : /\ End(nm, k) \in 1..Len(nm)
                                       /\ 3 * k - 2 <= End(nm, k)
                                       /\ End(nm, k) <= 3 * k
<1>1. Len(nm) \in Nat /\ Len(nm) > 0
  BY DEF Name
<1> DEFINE L == Len(nm) c == (L + 2) \div 3
<1>2. L \in Nat /\ L > 0
  BY <1>1
<1> HIDE DEF L
<1>3. c \in Nat /\ c >= 1 /\ 3 * c >= L /\ 3 * c - 2 <= L
  BY <1>2
<1> HIDE DEF c
<1>4. \A k \in 1..c : LET e == IF 3 * k < L THEN 3 * k ELSE L
                      IN  e \in 1..L /\ 3 * k - 2 <= e /\ e <= 3 * k
  BY <1>2, <1>3
<1> QED
  BY <1>2, <1>3, <1>4 DEF L, c, Chunks, End

\* A name in base64: marked words that hold its letters, three at a time.
LEMMA Base64Facts ==
    ASSUME NEW nm \in Name
    PROVE  /\ Base64(nm) \in Seq(Word) /\ Len(Base64(nm)) = Chunks(nm)
           /\ \A k \in 1..Chunks(nm) :
                /\ Base64(nm)[k][1] = "base64"
                /\ Len(Base64(nm)[k]) = End(nm, k) - (3 * k - 2) + 2
                /\ \A j \in (3 * k - 2)..End(nm, k) :
                      Base64(nm)[k][j - (3 * k - 2) + 2] = nm[j]
<1> DEFINE C == Chunks(nm)
           w(k) == SubSeq(nm, 3 * k - 2, End(nm, k))
           m == <<"base64">>
<1>1. /\ Len(nm) \in Nat /\ C \in Nat
      /\ \A k \in 1..C : /\ End(nm, k) \in 1..Len(nm)
                         /\ 3 * k - 2 <= End(nm, k)
  BY CutFacts
<1>2. Base64(nm) = [k \in 1..C |-> m \o w(k)]
  BY DEF Base64, Chunks, End
<1>3. m \in Seq(Sign) /\ Len(m) = 1 /\ m[1] = "base64"
  <2>1. "base64" \in Sign
    BY DEF Sign
  <2> QED
    BY <2>1, OneSign, Zenon
<1> HIDE DEF m, C
<1>4. ASSUME NEW k \in 1..C
      PROVE  /\ m \o w(k) \in Word
             /\ Len(m \o w(k)) = End(nm, k) - (3 * k - 2) + 2
             /\ (m \o w(k))[1] = "base64"
             /\ \A j \in (3 * k - 2)..End(nm, k) : (m \o w(k))[j - (3 * k - 2) + 2] = nm[j]
  <2> DEFINE a == 3 * k - 2  e == End(nm, k)
  <2>1. a \in Int /\ e \in Int /\ a >= 1 /\ a <= e /\ e <= Len(nm)
    BY <1>1
  <2> HIDE DEF a, e
  <2>2. \A i \in a..e : nm[i] \in Sign
    BY <1>1, <2>1 DEF Name, Sign
  <2>3. /\ SubSeq(nm, a, e) \in Seq(Sign) /\ Len(SubSeq(nm, a, e)) = e - a + 1
        /\ \A i \in 1..(e - a + 1) : SubSeq(nm, a, e)[i] = nm[a + i - 1]
    BY <2>1, <2>2, SubSeqProperties
  <2> DEFINE x == SubSeq(nm, a, e)
  <2>4. x \in Seq(Sign) /\ Len(x) = e - a + 1
        /\ \A i \in 1..(e - a + 1) : x[i] = nm[a + i - 1]
    BY <2>3
  <2> HIDE DEF x
  <2>5. /\ m \o x \in Seq(Sign) /\ Len(m \o x) = 1 + Len(x)
        /\ \A i \in 1..(1 + Len(x)) : (m \o x)[i] = IF i <= 1 THEN m[i] ELSE x[i - 1]
    <3>1. /\ m \o x \in Seq(Sign) /\ Len(m \o x) = Len(m) + Len(x)
          /\ \A i \in 1..(Len(m) + Len(x)) :
                (m \o x)[i] = IF i <= Len(m) THEN m[i] ELSE x[i - Len(m)]
      BY <1>3, <2>4, ConcatProperties
    <3>2. Len(m) = 1
      BY <1>3
    <3> HIDE DEF x
    <3> QED
      BY <3>1, <3>2
  <2>6. (m \o x)[1] = "base64"
    BY <1>3, <2>1, <2>4, <2>5
  <2>7. ASSUME NEW j \in a..e
        PROVE  (m \o x)[j - a + 2] = nm[j]
    <3> DEFINE i == j - a + 2
    <3>1. /\ i \in 1..(1 + Len(x)) /\ ~ (i <= 1) /\ i - 1 \in 1..(e - a + 1)
          /\ a + (i - 1) - 1 = j
      BY <2>1, <2>4
    <3> HIDE DEF i
    <3>2. (m \o x)[i] = x[i - 1] /\ x[i - 1] = nm[a + (i - 1) - 1]
      BY <2>4, <2>5, <3>1
    <3> QED
      BY <3>1, <3>2 DEF i
  <2>8. Len(m \o x) = e - a + 2
    BY <2>1, <2>4, <2>5
  <2> QED
    BY <2>5, <2>6, <2>7, <2>8 DEF a, e, x, Word
<1> HIDE DEF w
<1>5. Base64(nm) \in [1..C -> Word]
  BY <1>2, <1>4
<1>6. Base64(nm) \in Seq(Word) /\ Len(Base64(nm)) = C
  BY <1>1, <1>5
<1>7. \A k \in 1..C : Base64(nm)[k] = m \o w(k)
  BY <1>2
<1> QED
  BY <1>4, <1>6, <1>7 DEF C

\* Every letter is in one chunk.
LEMMA ChunkOf ==
    ASSUME NEW nm \in Name, NEW j \in 1..Len(nm)
    PROVE  \E k \in 1..Chunks(nm) : j \in (3 * k - 2)..End(nm, k)
<1>1. Len(nm) \in Nat
  BY DEF Name
<1> DEFINE L == Len(nm) k == (j + 2) \div 3 c == (L + 2) \div 3
<1>2. L \in Nat /\ j \in 1..L
  BY <1>1
<1> HIDE DEF L
<1>3. k \in 1..c /\ 3 * k - 2 <= j /\ j <= 3 * k /\ k \in Int
  BY <1>2
<1> HIDE DEF k, c
<1>4. j \in (3 * k - 2)..(IF 3 * k < L THEN 3 * k ELSE L)
  BY <1>2, <1>3
<1> QED
  BY <1>3, <1>4 DEF L, c, Chunks, End

\* The encoding tells names apart.
LEMMA Base64Injective ==
    ASSUME NEW nm \in Name, NEW other \in Name, Base64(nm) = Base64(other)
    PROVE  nm = other
<1> DEFINE C == Chunks(nm)
<1>1. C = Chunks(other)
  BY Base64Facts
<1>2. /\ C \in Nat /\ C >= 1 /\ Len(nm) \in Nat /\ Len(other) \in Nat
      /\ 3 * C >= Len(nm) /\ 3 * C >= Len(other)
  BY <1>1, CutFacts
<1>3. End(nm, C) = Len(nm) /\ End(other, C) = Len(other)
  BY <1>2 DEF End
<1>4. C \in 1..C
  BY <1>2
<1>5. /\ Len(Base64(nm)[C]) = Len(nm) - (3 * C - 2) + 2
      /\ Len(Base64(other)[C]) = Len(other) - (3 * C - 2) + 2
  BY <1>1, <1>3, <1>4, Base64Facts
<1> HIDE DEF C
<1>6. Len(nm) = Len(other)
  <2>1. Len(nm) - (3 * C - 2) + 2 = Len(other) - (3 * C - 2) + 2
    BY <1>5, Zenon
  <2> QED
    BY <1>2, <2>1
<1>7. ASSUME NEW j \in 1..Len(nm)
      PROVE  nm[j] = other[j]
  <2>1. PICK k \in 1..Chunks(nm) : j \in (3 * k - 2)..End(nm, k)
    BY ChunkOf
  <2>2. k \in 1..Chunks(other) /\ j \in (3 * k - 2)..End(other, k)
    BY <1>1, <1>6, <2>1 DEF End, C
  <2>3. Base64(nm)[k][j - (3 * k - 2) + 2] = nm[j]
    BY <2>1, Base64Facts
  <2>4. Base64(other)[k][j - (3 * k - 2) + 2] = other[j]
    BY <2>2, Base64Facts
  <2> QED
    BY <2>3, <2>4
<1>8. nm \in Seq(Letter) /\ other \in Seq(Letter)
  BY DEF Name
<1> QED
  BY <1>6, <1>7, <1>8, SeqEqual

\* A word of base64 is neither the quote nor a letter.
LEMMA Base64Words ==
    ASSUME NEW nm \in Name, NEW k \in 1..Chunks(nm)
    PROVE  Base64(nm)[k] # Mark /\ Len(Base64(nm)[k]) # 1
<1>1. Base64(nm)[k][1] = "base64" /\ Len(Base64(nm)[k]) = End(nm, k) - (3 * k - 2) + 2
  BY Base64Facts
<1>2. /\ Chunks(nm) \in Nat /\ Len(nm) \in Nat
      /\ End(nm, k) \in 1..Len(nm) /\ 3 * k - 2 <= End(nm, k)
  BY CutFacts
<1>3. Base64(nm)[k] # Mark
  BY <1>1, MarkFacts
<1>4. End(nm, k) - (3 * k - 2) + 2 # 1
  BY <1>2
<1> QED
  BY <1>1, <1>3, <1>4

\* An installer that names its serial is matched by the node of that name ...
LEMMA MatchesOwn ==
    ASSUME NEW nm \in Name, NEW q \in RequestsOf(nm), NEW n, n.name = nm
    PROVE  Matches(n, q)
<1>1. CASE q = [body |-> Quoted(Raw(nm)), param |-> NoName]
  BY <1>1, RawFacts, QuotedOccurs DEF Matches
<1>2. CASE q = [body |-> Quoted(Base64(nm)), param |-> NoName]
  BY <1>2, Base64Facts, QuotedOccurs DEF Matches
<1>3. CASE q = [body |-> << >>, param |-> nm]
  BY <1>3 DEF Matches
<1> QED
  BY <1>1, <1>2, <1>3 DEF RequestsOf

\* ... and by no other whose name is as long, in whichever form it is written.
LEMMA MatchesNoOther ==
    ASSUME NEW nm \in Name, NEW q \in RequestsOf(nm), NEW m, m.name \in Name,
           Len(m.name) >= Len(nm), Matches(m, q)
    PROVE  m.name = nm
<1> DEFINE x == m.name
<1>1. x \in Name /\ Len(x) \in Nat /\ Len(nm) \in Nat /\ Len(x) > 0 /\ Len(x) >= Len(nm)
      /\ x # NoName
  BY DEF Name, NoName
<1>2. q.param = x \/ Occurs(Raw(x), q.body) \/ Occurs(Base64(x), q.body)
  BY DEF Matches
<1> HIDE DEF x
<1>3. /\ Raw(x) \in Seq(Word) /\ Len(Raw(x)) = Len(x)
      /\ \A k \in 1..Len(x) : /\ Raw(x)[k][1] = x[k] /\ Len(Raw(x)[k]) = 1
                              /\ Raw(x)[k] # Mark
  BY <1>1, RawFacts
<1>4. /\ Raw(nm) \in Seq(Word) /\ Len(Raw(nm)) = Len(nm)
      /\ \A k \in 1..Len(nm) : Raw(nm)[k][1] = nm[k] /\ Len(Raw(nm)[k]) = 1
  BY RawFacts
<1>5. /\ Base64(x) \in Seq(Word) /\ Len(Base64(x)) = Chunks(x)
      /\ Base64(nm) \in Seq(Word) /\ Len(Base64(nm)) = Chunks(nm)
      /\ Chunks(x) \in Nat /\ Chunks(x) >= 1
  BY <1>1, Base64Facts, CutFacts
<1>6. /\ \A k \in 1..Chunks(x) : Base64(x)[k] # Mark /\ Len(Base64(x)[k]) # 1
      /\ \A k \in 1..Chunks(nm) : Len(Base64(nm)[k]) # 1
  BY <1>1, Base64Words
<1>7. CASE q = [body |-> Quoted(Raw(nm)), param |-> NoName]
  <2>1. CASE Occurs(Raw(x), Quoted(Raw(nm)))
    <3>1. Raw(x) = Raw(nm)
      BY <1>1, <1>3, <1>4, <2>1, QuotedOnce
    <3>2. Len(x) = Len(nm) /\ \A k \in 1..Len(x) : x[k] = nm[k]
      BY <1>3, <1>4, <3>1
    <3> QED
      BY <1>1, <3>2, SeqEqual DEF Name, x
  <2>2. ~ Occurs(Base64(x), Quoted(Raw(nm)))
    <3>1. 1 \in 1..Chunks(x) /\ Chunks(x) \in 1..Chunks(x)
      BY <1>5
    <3>2. Base64(x)[1] # Mark /\ Base64(x)[Chunks(x)] # Mark
      BY <1>6, <3>1
    <3>3. \A k \in 1..Len(Raw(nm)) : Base64(x)[1] # Raw(nm)[k]
      BY <1>4, <1>6, <3>1
    <3> QED
      BY <1>4, <1>5, <3>2, <3>3, Elsewhere
  <2> QED
    BY <1>1, <1>2, <1>7, <2>1, <2>2
<1>8. CASE q = [body |-> Quoted(Base64(nm)), param |-> NoName]
  <2>1. CASE Occurs(Base64(x), Quoted(Base64(nm)))
    <3>1. Chunks(x) >= Chunks(nm)
      <4>1. \A a, b \in Nat : a >= b => (a + 2) \div 3 >= (b + 2) \div 3
        OBVIOUS
      <4> QED
        BY <1>1, <4>1 DEF Chunks
    <3>2. Base64(x) = Base64(nm)
      BY <1>5, <1>6, <2>1, <3>1, QuotedOnce
    <3> QED
      BY <1>1, <3>2, Base64Injective DEF x
  <2>2. ~ Occurs(Raw(x), Quoted(Base64(nm)))
    <3>1. 1 \in 1..Len(x) /\ Len(x) \in 1..Len(x)
      BY <1>1
    <3>2. Raw(x)[1] # Mark /\ Raw(x)[Len(x)] # Mark /\ Len(Raw(x)[1]) = 1
      BY <1>3, <3>1
    <3>3. \A k \in 1..Len(Base64(nm)) : Raw(x)[1] # Base64(nm)[k]
      BY <1>5, <1>6, <3>2
    <3> QED
      BY <1>1, <1>3, <1>5, <3>2, <3>3, Elsewhere
  <2> QED
    BY <1>1, <1>2, <1>8, <2>1, <2>2
<1>9. CASE q = [body |-> << >>, param |-> nm]
  <2>1. ~ Occurs(Raw(x), << >>) /\ ~ Occurs(Base64(x), << >>)
    <3>1. Len(<< >>) = 0
      OBVIOUS
    <3>2. 0..(0 - Len(Raw(x))) = {} /\ 0..(0 - Len(Base64(x))) = {}
      BY <1>1, <1>3, <1>5
    <3> QED
      BY <3>1, <3>2 DEF Occurs
  <2> QED
    BY <1>2, <1>9, <2>1 DEF x
<1> QED
  BY <1>7, <1>8, <1>9 DEF RequestsOf

\* While up installs from an ISO with its answer URL, each of its VMs gets the
\* answer of its own node, whatever the names: the longest match is the right
\* one (matchNode, CheckAnswerURLLocal, validateNodes).
THEOREM AnswersCorrect == Spec => []InstallerAnswered
<1>1. StartupInv => InstallerAnswered
  <2> SUFFICES ASSUME StartupInv, stage = "up", baked = loaded.answerURL,
                      NEW n \in Nodes(loaded), n.vmid \in DOMAIN vm
               PROVE  /\ Reaches(baked)
                      /\ \A q \in RequestsOf(vm[n.vmid].serial) : MatchNode(server, q) = {n}
    BY DEF InstallerAnswered
  <2>1. /\ loaded \in Config /\ ValidateNodes(loaded) /\ server = loaded.nodes
        /\ baked # NoURL /\ CheckAnswerURLLocal(loaded.answerURL)
        /\ vm[n.vmid].serial = n.name
    BY DEF StartupInv, UpInv
  <2>2. Reaches(baked)
    <3> DEFINE w == Resolve[baked]
    <3>1. w \in Seq(STRING)
      BY <2>1, ConfigAssumption DEF Config
    <3>2. PICK i \in DOMAIN w : w[i] \in Local /\ \A j \in 1..i : w[j] \notin Loopbacks
      BY <2>1 DEF CheckAnswerURLLocal
    <3>3. i \in 1..i
      BY <3>1, <3>2
    <3> QED
      BY <2>1, <3>2, <3>3 DEF Reaches
  <2>3. /\ \A m \in Nodes(loaded) : m.name \in Name
        /\ \A m \in Nodes(loaded) : m.name = n.name => m = n
    <3>1. loaded.nodes \in Seq(NodeEntry)
      BY <2>1 DEF Config
    <3>2. \A i \in DOMAIN loaded.nodes : loaded.nodes[i] \in NodeEntry
      BY <3>1
    <3>3. \A m \in Nodes(loaded) : m.name \in Name
      <4> SUFFICES ASSUME NEW m \in Nodes(loaded) PROVE m.name \in Name
        OBVIOUS
      <4>1. m.name \in Seq(Letter) /\ m.name # << >>
        BY <2>1, <3>2 DEF Nodes, NodeEntry, ValidateNodes, NoName
      <4> QED
        BY <4>1 DEF Name
    <3>4. ASSUME NEW m \in Nodes(loaded), m.name = n.name
          PROVE  m = n
      <4>1. PICK i \in DOMAIN loaded.nodes : m = loaded.nodes[i]
        BY DEF Nodes
      <4>2. PICK j \in DOMAIN loaded.nodes : n = loaded.nodes[j]
        BY DEF Nodes
      <4>3. i # j => loaded.nodes[i]["name"] # loaded.nodes[j]["name"]
        <5>1. i # j => \A f \in {"name", "vmid", "cidr"} :
                          loaded.nodes[i][f] # loaded.nodes[j][f]
          BY <2>1 DEF ValidateNodes
        <5> QED
          BY <5>1
      <4> QED
        BY <3>4, <4>1, <4>2, <4>3
    <3> QED
      BY <3>3, <3>4
  <2>4. ASSUME NEW q \in RequestsOf(n.name)
        PROVE  MatchNode(server, q) = {n}
    <3> DEFINE hits == {m \in Nodes(loaded) : Matches(m, q)}
    <3>1. MatchNode(server, q) = {m \in hits : \A k \in hits : Len(k.name) <= Len(m.name)}
      BY <2>1 DEF MatchNode, Nodes
    <3>2. n \in hits
      BY <2>3, <2>4, MatchesOwn
    <3>3. \A m \in hits : Len(m.name) >= Len(n.name) => m = n
      BY <2>3, <2>4, MatchesNoOther
    <3>4. \A m \in hits : Len(m.name) \in Nat
      BY <2>3 DEF Name
    <3> HIDE DEF hits
    <3> QED
      BY <3>1, <3>2, <3>3, <3>4
  <2> QED
    BY <2>1, <2>2, <2>4
<1> QED
  BY <1>1, StartupInvariant, PTL
=============================================================================
