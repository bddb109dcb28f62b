------------------------------ MODULE Startup ------------------------------
(***************************************************************************)
(* What a pvelab command does before its work, and the unattended installs *)
(* it then answers (cmd/pvelab: config.go, answerurl.go, answers.go): the  *)
(* operator edits the configuration between commands, iso bakes the answer *)
(* URL into the installer, up and template build serve answers to the      *)
(* installers, and the VMs of a command that failed stay and keep asking.  *)
(* The commands' own stages are in Lab; here they only make their VMs.     *)
(*                                                                         *)
(* outer.endpoint is the transport's primary address, so this module       *)
(* extends the one about its options.  A name is a sequence of letters.    *)
(***************************************************************************)
EXTENDS Options

CONSTANTS Configs,      \* what the operator may write
          Example,      \* pvelab.example.yaml, whose variables are not set
          Local,        \* addresses of the machine that runs pvelab
          Loopbacks,    \* loopback addresses
          Resolve,      \* resolveHost: the addresses of a URL's host, in order
          TemplateName, \* templateNodeName of the one PVE version
          MaxEdits      \* bound: edits of the configuration

VARIABLES cfg,          \* the configuration file
          loaded,       \* the configuration of the running command
          baked,        \* the answer URL inside the prepared ISO, or NoURL
          server,       \* the nodes the answer server answers for; none: closed
          vm,           \* VMID |-> the VM a pvelab command made
          stage,        \* the running command
          edits

labVars == <<cfg, loaded, baked, server, vm, stage, edits>>
vars    == <<optionVars, labVars>>

NoURL      == ""
NoName     == << >>
NoTemplate == [vmid |-> 0, cidr |-> ""]
NoACME     == [given |-> FALSE]

Letter    == STRING \ {"quote"}
NodeEntry == [name : Seq(Letter), vmid : Int, cidr : STRING]
ACMEEntry == {NoACME} \cup
             [given : {TRUE}, contact : BOOLEAN, provider : BOOLEAN,
              credentials : STRING, directory : STRING, challenge : STRING]

Config == [complete : BOOLEAN, nodes : Seq(NodeEntry),
           template : [vmid : Int, cidr : STRING], acme : ACMEEntry,
           unset : SUBSET STRING, answerURL : DOMAIN Resolve]

ASSUME ConfigAssumption ==
    /\ Configs \subseteq Config /\ Example \in Config
    /\ \A url \in DOMAIN Resolve : Resolve[url] \in Seq(STRING)

Nodes(c) == {c.nodes[i] : i \in DOMAIN c.nodes}

-----------------------------------------------------------------------------
(***************************************************************************)
(* LoadConfig.  complete: the required fields are there and the addresses  *)
(* parse; unset: the environment variables it names that are not set.      *)
(***************************************************************************)
vmidRange     == 9200..9399
templateRange == 9210..9219

\* validateNodes while only the configuration's own template was looked at.
ValidateNodesOwnTemplate(c) ==
    /\ Len(c.nodes) >= 3
    /\ \A n \in Nodes(c) : n.name # NoName /\ n.cidr # "" /\ n.vmid \in vmidRange
    /\ \A i, j \in DOMAIN c.nodes : i # j =>
          \A f \in {"name", "vmid", "cidr"} : c.nodes[i][f] # c.nodes[j][f]

ValidateNodes(c) ==
    /\ Len(c.nodes) >= 3
    /\ \A n \in Nodes(c) : /\ n.name # NoName /\ n.cidr # ""
                           /\ n.vmid \in vmidRange \ templateRange
    /\ \A i, j \in DOMAIN c.nodes : i # j =>
          \A f \in {"name", "vmid", "cidr"} : c.nodes[i][f] # c.nodes[j][f]

ValidateTemplate(c) ==
    c.template # NoTemplate =>
        /\ c.template.vmid \in templateRange /\ c.template.cidr # ""
        /\ \A n \in Nodes(c) : /\ n.vmid # c.template.vmid
                               /\ n.cidr # c.template.cidr

\* applyDefaults: staging and dns-01.
Default(x, d) == IF x = "" THEN d ELSE x

ValidateACME(a) ==
    a.given =>
        /\ a.contact /\ a.provider /\ a.credentials = "named"
        /\ Default(a.directory, "staging") \in {"staging", "production"}
        /\ Default(a.challenge, "dns-01") = "dns-01"

(***************************************************************************)
(* OuterHost: of a URL the hostname, of host:port the host, and anything   *)
(* else is taken for a host as it stands.                                  *)
(***************************************************************************)
OuterHostAsGiven(a) ==                  \* mutant: the port stays
    IF a.scheme # NoPart THEN <<a.host, NoPart>> ELSE <<a.host, a.port>>

OuterHost(a) ==
    IF a.scheme # NoPart \/ a.port # NoPart THEN <<a.host, NoPart>>
    ELSE <<a.host, a.rest>>

OuterHostOK(a) == a.scheme # NoPart => a.host # NoPart

ValidateEnvRefs(c) == c.unset = {}

Validate(c) == /\ c.complete /\ OuterHostOK(primary)
               /\ ValidateNodes(c) /\ ValidateTemplate(c) /\ ValidateACME(c.acme)
               /\ ValidateEnvRefs(c)

\* outerClient: the credentials are there and api.New takes the address.
OuterClient(c) == {"id", "secret"} \cap c.unset = {} /\ AddressOK(primary)

-----------------------------------------------------------------------------
(***************************************************************************)
(* The answer URL has to name this machine, by an address that is not its  *)
(* loopback; the first address that decides is the one that counts.        *)
(***************************************************************************)
CheckAnswerURLLocal(url) ==
    LET w == Resolve[url]
    IN  \E i \in DOMAIN w : /\ w[i] \in Local
                            /\ \A j \in 1..i : w[j] \notin Loopbacks

\* An installer reaches the listener.
Reaches(url) ==
    url # NoURL /\ \E i \in DOMAIN Resolve[url] : Resolve[url][i] \in Local \ Loopbacks

-----------------------------------------------------------------------------
(***************************************************************************)
(* The answer server.  A body is a sequence of characters, of which base64 *)
(* ones stand for up to three letters each and are written as such; the    *)
(* installer puts the serial of its machine somewhere into it.             *)
(***************************************************************************)
Raw(name) == [i \in DOMAIN name |-> <<name[i]>>]

Base64(name) ==
    [k \in 1..((Len(name) + 2) \div 3) |->
        <<"base64">> \o SubSeq(name, 3 * k - 2,
                               IF 3 * k < Len(name) THEN 3 * k ELSE Len(name))]

Occurs(s, body) ==
    \E i \in 0..(Len(body) - Len(s)) : SubSeq(body, i + 1, i + Len(s)) = s

Quoted(s) == <<<<"quote">>>> \o s \o <<<<"quote">>>>

RequestsOf(serial) == {[body |-> Quoted(Raw(serial)), param |-> NoName],
                       [body |-> Quoted(Base64(serial)), param |-> NoName],
                       [body |-> << >>, param |-> serial]}

Matches(n, q) == \/ q.param = n.name
                 \/ Occurs(Raw(n.name), q.body)
                 \/ Occurs(Base64(n.name), q.body)

MatchNodeFirst(nodes, q) ==             \* mutant: in declaration order
    LET hits == {i \in DOMAIN nodes : Matches(nodes[i], q)}
    IN  {nodes[i] : i \in {i \in hits : \A j \in hits : i <= j}}

(***************************************************************************)
(* matchNode: the longest name that matches.  The sort is not stable, so   *)
(* of two as long either.                                                  *)
(***************************************************************************)
MatchNode(nodes, q) ==
    LET hits == {n \in {nodes[i] : i \in DOMAIN nodes} : Matches(n, q)}
    IN  {n \in hits : \A m \in hits : Len(m.name) <= Len(n.name)}

-----------------------------------------------------------------------------
Init ==
    /\ OptionsInit
    /\ cfg = Example
    /\ loaded = cfg
    /\ baked = NoURL
    /\ server = << >>
    /\ vm = << >>
    /\ stage = "idle"
    /\ edits = 0

Edit ==
    /\ edits < MaxEdits
    /\ edits' = edits + 1
    /\ cfg' \in Configs \ {cfg}
    /\ UNCHANGED <<loaded, baked, server, vm, stage>>

\* Every command loads the configuration and makes its client first, and
\* returns without having done anything when it cannot.
Begins == stage = "idle" /\ Validate(cfg) /\ OuterClient(cfg)

\* cmdISO, PrepareISO: an ISO that is there is kept, whatever its URL.
PrepareISO ==
    /\ Begins
    /\ baked = NoURL
    /\ baked' = cfg.answerURL
    /\ UNCHANGED <<cfg, loaded, server, vm, stage, edits>>

\* cloneSource: with this version's template there is nothing to install.
UsesClones(c) ==
    c.template # NoTemplate /\ \E v \in DOMAIN vm : vm[v].converted

\* cmdUp: EnsureVMIDsFree, CheckAnswerURLLocal, EnsureISOPrepared, and the
\* answer server.
Up ==
    /\ Begins
    /\ \A n \in Nodes(cfg) : n.vmid \notin DOMAIN vm
    /\ CheckAnswerURLLocal(cfg.answerURL)
    /\ ~ UsesClones(cfg)
    /\ baked # NoURL
    /\ stage' = "up"
    /\ loaded' = cfg
    /\ server' = cfg.nodes
    /\ UNCHANGED <<cfg, baked, vm, edits>>

\* TemplateConfig: the template as the only node.
TemplateConfig(c) ==
    [c EXCEPT !.nodes = <<[name |-> TemplateName, vmid |-> c.template.vmid,
                           cidr |-> c.template.cidr]>>]

\* cmdTemplateBuild, which does not look at the answer URL: its answer server
\* runs before anything else is looked at, so also for a build that refuses.
TemplateBuild ==
    /\ Begins
    /\ cfg.template # NoTemplate
    /\ stage' = "checking"
    /\ loaded' = TemplateConfig(cfg)
    /\ server' = TemplateConfig(cfg).nodes
    /\ UNCHANGED <<cfg, baked, vm, edits>>

\* buildTemplate: ensureTemplateSlotFree, which without -force refuses when
\* the template or another VM is in the way, and EnsureISOPrepared.
TemplateSlot ==
    /\ stage = "checking"
    /\ \A n \in Nodes(loaded) : n.vmid \notin DOMAIN vm
    /\ ~ UsesClones(loaded)
    /\ baked # NoURL
    /\ stage' = "template"
    /\ UNCHANGED <<cfg, loaded, baked, server, vm, edits>>

\* The create of one node's VM, with its name stamped in as the serial.
Create(n) ==
    /\ stage \in {"up", "template"} /\ n \in Nodes(loaded)
    /\ n.vmid \notin DOMAIN vm
    /\ vm' = [v \in DOMAIN vm \cup {n.vmid} |->
                 IF v # n.vmid THEN vm[v]
                 ELSE [serial |-> n.name, installed |-> NoName,
                       converted |-> FALSE, maker |-> stage]]
    /\ UNCHANGED <<cfg, loaded, baked, server, stage, edits>>

\* ServeHTTP: the installer in a VM, one left over from an earlier command
\* included, installs what the answer says.
ServeHTTP(v) ==
    /\ server # << >> /\ Reaches(baked)
    /\ vm[v].installed = NoName
    /\ \E q \in RequestsOf(vm[v].serial) : \E n \in MatchNode(server, q) :
          vm' = [vm EXCEPT ![v].installed = n.name]
    /\ UNCHANGED <<cfg, loaded, baked, server, stage, edits>>

\* The command returns, successful or not, and the server with it; a build
\* that got to its end has converted its VM.
Return ==
    /\ stage # "idle"
    /\ stage' = "idle"
    /\ server' = << >>
    /\ \/ vm' = vm
       \/ /\ stage = "template"
          /\ \E n \in Nodes(loaded) :
                /\ n.vmid \in DOMAIN vm /\ vm[n.vmid].installed # NoName
                /\ vm' = [vm EXCEPT ![n.vmid].converted = TRUE]
    /\ UNCHANGED <<cfg, loaded, baked, edits>>

\* Teardown deletes what is there of the configured VMIDs, whichever of the
\* lab's VMs it is, as far as it gets; -purge-isos deletes the ISO.
Down ==
    /\ Begins
    /\ \E S \in SUBSET {n.vmid : n \in Nodes(cfg)} :
          vm' = [v \in DOMAIN vm \ S |-> vm[v]]
    /\ baked' \in {baked, NoURL}
    /\ UNCHANGED <<cfg, loaded, server, stage, edits>>

LabNext == \/ Edit \/ PrepareISO \/ Up \/ TemplateBuild \/ TemplateSlot
           \/ Return \/ Down
           \/ \E n \in Nodes(loaded) : Create(n)
           \/ \E v \in DOMAIN vm : ServeHTTP(v)

\* pvelab makes its clients with one address and the default policy, so the
\* other options are looked at before any command has run.
Fresh == baked = NoURL /\ vm = << >> /\ edits = 0 /\ stage = "idle"

Next == \/ OptionsNext /\ Fresh /\ UNCHANGED labVars
        \/ LabNext /\ extras = << >> /\ policy = DefaultRetryPolicy
           /\ UNCHANGED optionVars
        \/ UNCHANGED vars

Spec == Init /\ [][Next]_vars

-----------------------------------------------------------------------------
(***************************************************************************)
(* One string, two parsers: whichever of the documented forms the endpoint *)
(* is written in, the host that pvelab reaches by SSH to prepare the ISO   *)
(* is the one its API requests go to.                                      *)
(***************************************************************************)
SameOuterHost ==
    Begins => OuterHost(primary) = <<NormaliseAddress(primary).host, NoPart>>

(***************************************************************************)
(* While up installs from an ISO that carries its answer URL, the request  *)
(* of each of its VMs reaches this machine and is answered for that node,  *)
(* in whichever form it names its serial and however the names overlap ("a *)
(* body carrying "pve1-dogfood" must never be routed to a node named       *)
(* "pve1"").                                                               *)
(***************************************************************************)
InstallerAnswered ==
    stage = "up" /\ baked = loaded.answerURL =>
        \A n \in Nodes(loaded) : n.vmid \in DOMAIN vm =>
            /\ Reaches(baked)
            /\ \A q \in RequestsOf(vm[n.vmid].serial) : MatchNode(server, q) = {n}

(***************************************************************************)
(* The template sub-range holds templates only, through every sequence of  *)
(* configurations: no up leaves a node's VM on a VMID that a template      *)
(* build of another configuration would need ("a node parked there         *)
(* collides with a version this config has never heard of").               *)
(***************************************************************************)
TemplateRangeKept ==
    \A v \in DOMAIN vm : v \in templateRange <=> vm[v].maker = "template"
=============================================================================
