---------------------------- MODULE MockConfig ----------------------------
(***************************************************************************)
(* The configuration surfaces of the mock PVE server (proxmox/mockpve):    *)
(* SDN, HA, access, firewall, storage, ACME, certificates, metrics, backup *)
(* jobs, Ceph and cluster formation.  Every handler changes the server's   *)
(* state in one critical section of state.mu, so a handler is a function   *)
(* of that state and a request, and a step serves one request.             *)
(*                                                                         *)
(* Most handlers keep a keyed collection of records, and a collection is   *)
(* described by what its handlers check and drag along.  Collections that  *)
(* are not parent and child never meet, so a behaviour uses one family of  *)
(* them.  Requests without a valid credential (checkAuth), with a form that*)
(* does not parse or without the identifier a create needs are refused     *)
(* before any of this and are left out here; Services has them.  The task  *)
(* that some of these handlers report after their change is in MockGuests. *)
(***************************************************************************)
EXTENDS Integers, FiniteSets, Sequences, SequencesExt, TLC, NodeConfig

CONSTANTS Names,        \* identifiers clients choose, any two alike
          MaxLength,    \* bound: rules, grants, privileges and job numbers
          MaxVersion    \* bound: writes to storage.cfg

ASSUME ConfigAssumption == /\ Names # {}
                           /\ MaxLength \in Nat
                           /\ MaxVersion \in Nat \ {0}

VARIABLES st,           \* the server's state
          family        \* what the clients of this behaviour work on

-----------------------------------------------------------------------------
(* Forms and records: a field is set to a value or is empty.               *)

Fields == {"first", "second"}
Empty  == 0
Values == {Empty, 1}
Form   == [Fields -> Values]

\* A PUT overwrites the fields its form carries and leaves the others.
Merge(rec, form) == [f \in Fields |-> IF form[f] = Empty THEN rec[f] ELSE form[f]]

Cleared(rec, S) == [f \in Fields |-> IF f \in S THEN Empty ELSE rec[f]]

-----------------------------------------------------------------------------
(* Collections.  A key is a sequence, a child's begins with its parent's.  *)
(* Of a record's fields, a create fills the `given' ones when its form does*)
(* not and cannot set the `blank' ones, and an update cannot set the       *)
(* `fixed' ones.                                                           *)

Plain == [parent |-> "", checked |-> FALSE, ops |-> {"create", "update", "delete"},
          given |-> {}, blank |-> {}, fixed |-> {}]

Under(parent, checked) == [Plain EXCEPT !.parent = parent, !.checked = checked]

Typed == [Plain EXCEPT !.fixed = {"first"}]

zones        == Typed                                  \* type, controller, peers
vnets        == Typed                                  \* zone
subnets      == Under("vnets", FALSE)
fabrics      == Plain
fabricNodes  == [Under("fabrics", TRUE) EXCEPT !.fixed = {"first"}]  \* protocol
haRules      == Typed                                  \* type
repl         == [Typed EXCEPT !.given = {"first"}]     \* type, "local"
users        == Typed                                  \* names
groups       == Plain
servers      == Typed                                  \* type
acmeAccounts == Typed                                  \* directory
netIfaces    == Typed                                  \* type; the key is node and name

\* The first field is the state, "started" unless a create says otherwise; the
\* second is the node, which only migrate and relocate set.
resources == [Plain EXCEPT !.given = {"first"}, !.blank = {"second"}]

\* The values of a new pool do not come from the form.
pools    == [Plain EXCEPT !.given = Fields, !.ops = {"create", "delete"}]
zfsPools == [Plain EXCEPT !.given = Fields, !.ops = {"create"}]

\* Options have no existence of their own: a PUT stores what it carries.
options == [Plain EXCEPT !.ops = {"create"}]

\* These have updates of their own.
tokens      == [Under("users", FALSE) EXCEPT !.ops = {"create", "delete"}]
acmePlugins == [Plain EXCEPT !.ops = {"create", "delete"}]

Collection ==
  [zones |-> zones, vnets |-> vnets, subnets |-> subnets, fabrics |-> fabrics,
   fabricNodes |-> fabricNodes, resources |-> resources, haRules |-> haRules,
   repl |-> repl, users |-> users, groups |-> groups, tokens |-> tokens,
   servers |-> servers, acmeAccounts |-> acmeAccounts, acmePlugins |-> acmePlugins,
   netIfaces |-> netIfaces, pools |-> pools, zfsPools |-> zfsPools, options |-> options]

Kinds == DOMAIN Collection

Keys(k) == IF Collection[k].parent = "" THEN {<<n>> : n \in Names} ELSE Names \X Names

-----------------------------------------------------------------------------
(* Answers.                                                                *)

Done(s)       == [st |-> s, reply |-> "ok"]
NotFound(s)   == [st |-> s, reply |-> "not found"]
BadRequest(s) == [st |-> s, reply |-> "bad request"]

\* What an assignment to a map's key and a delete of keys leave of it.
Put(f, key, val) == [x \in DOMAIN f \union {key} |-> IF x = key THEN val ELSE f[x]]
Without(f, S) == [x \in DOMAIN f \ S |-> f[x]]

\* What a loop that skips the elements of S leaves of a list.
Dropped(list, S) ==
  LET out[i \in 0..Len(list)] == IF i = 0 THEN << >>
                                 ELSE IF list[i] \in S THEN out[i - 1]
                                 ELSE Append(out[i - 1], list[i])
  IN  out[Len(list)]

\* handleZoneCreate and the other creates: an existing record is replaced.
Created(c, form) ==
  [f \in Fields |-> IF f \in c.given /\ form[f] = Empty THEN 1
                   ELSE IF f \in c.blank THEN Empty ELSE form[f]]

Create(s, q) ==
  LET c == Collection[q.kind]
  IN  IF c.checked /\ Front(q.key) \notin DOMAIN s.recs[c.parent]
      THEN NotFound(s)
      ELSE Done([s EXCEPT !.recs[q.kind] = Put(@, q.key, Created(c, q.form))])

\* A handler that puts an edited record in the place of the one that is there.
Found(s, q) == s.recs[q.kind][q.key]
Edit(s, q, record) ==
  IF q.key \notin DOMAIN s.recs[q.kind] THEN NotFound(s)
  ELSE Done([s EXCEPT !.recs[q.kind][q.key] = record])

\* handleZoneUpdate and the other updates.
Update(s, q) ==
  Edit(s, q, Merge(Found(s, q), Cleared(q.form, Collection[q.kind].fixed)))

\* handleTokenUpdate: regenerating the secret leaves the record; the comment
\* (the first field) is set whenever the form has it, be it empty.
TokenUpdate(s, q) ==
  Edit(s, q,
    IF q.regenerate THEN Found(s, q)
    ELSE Merge(IF q.comment THEN Cleared(Found(s, q), {"first"}) ELSE Found(s, q),
               IF q.comment THEN q.form ELSE Cleared(q.form, {"first"})))

\* handleACMEPluginUpdate: the digest is a constant, so a request's is stale or
\* not whatever happened; the deletes follow the sets, and only some fields
\* (here the second) can be deleted.
PluginUpdate(s, q) ==
  IF q.stale /\ q.key \in DOMAIN s.recs[q.kind] THEN BadRequest(s)
  ELSE Edit(s, q, Cleared(Merge(Found(s, q), q.form), q.delete \ {"first"}))

\* What goes with a record: handleFabricDelete drops the fabric's nodes, and
\* every other delete drops the record alone.
DraggedLoose(s, kind, key) == {}
Dragged(s, kind, key) ==
  IF kind = "fabrics"
  THEN {child \in DOMAIN s.recs["fabricNodes"] : Front(child) = key} ELSE {}

Delete(s, q) ==
  IF q.key \notin DOMAIN s.recs[q.kind] THEN NotFound(s)
  ELSE Done([s EXCEPT
         !.recs = [k \in Kinds |->
                     IF k = q.kind THEN Without(@[k], {q.key})
                     ELSE IF k = "fabricNodes" THEN Without(@[k], Dragged(s, q.kind, q.key))
                     ELSE @[k]]])

-----------------------------------------------------------------------------
(* Roles: an update replaces the privileges or appends to them.            *)

RoleCreate(s, q) == Done([s EXCEPT !.roles = Put(@, q.id, q.privs)])

ApplyRoleFormAppends(privs, q) == privs \o q.privs
ApplyRoleForm(privs, q) ==
  CASE q.privs = << >> -> privs
    [] q.append        -> privs \o q.privs
    [] OTHER           -> q.privs

RoleUpdate(s, q) ==
  IF q.id \notin DOMAIN s.roles THEN NotFound(s)
  ELSE Done([s EXCEPT !.roles[q.id] = ApplyRoleForm(@, q)])

RoleDelete(s, q) ==
  IF q.id \notin DOMAIN s.roles THEN NotFound(s)
  ELSE Done([s EXCEPT !.roles = Without(@, {q.id})])

\* ACLs are a list: a grant is appended, a revocation removes every copy.
Revoked(acls, grants) == Dropped(acls, Range(grants))
ACLSet(s, q) ==
  Done([s EXCEPT !.acls = IF q.remove THEN Revoked(@, q.grants) ELSE @ \o q.grants])

-----------------------------------------------------------------------------
(* Backup jobs: a create without an id is given the next number, and job   *)
(* i is the one named backup-i whoever chose the name.                     *)

JobCreate(s, q) ==
  LET n == IF q.id = 0 THEN s.seq + 1 ELSE s.seq
  IN  Done([s EXCEPT !.seq  = n,
                     !.jobs = Put(@, IF q.id = 0 THEN n ELSE q.id, q.form)])

JobUpdate(s, q) ==
  IF q.id \notin DOMAIN s.jobs THEN NotFound(s)
  ELSE Done([s EXCEPT !.jobs[q.id] = Merge(@, q.form)])

JobDelete(s, q) ==
  IF q.id \notin DOMAIN s.jobs THEN NotFound(s)
  ELSE Done([s EXCEPT !.jobs = Without(@, {q.id})])

-----------------------------------------------------------------------------
(* One firewall scope: rules by position, IPSets by name.                  *)

RuleCreate(s, q) == Done([s EXCEPT !.rules = Append(@, q.form)])

\* fwParsePos refuses a negative position; positions count from 0.
HasRule(s, pos) == pos >= 0 /\ pos < Len(s.rules)

RuleUpdate(s, q) ==
  IF ~HasRule(s, q.pos) THEN NotFound(s)
  ELSE Done([s EXCEPT !.rules[q.pos + 1] = Merge(@, q.form)])

RuleDelete(s, q) ==
  IF ~HasRule(s, q.pos) THEN NotFound(s)
  ELSE Done([s EXCEPT !.rules = RemoveAt(@, q.pos + 1)])

IPSetCreate(s, q) ==
  Done([s EXCEPT !.ipsets = Put(@, q.name, [name |-> q.name, entries |-> {}])])

\* fwRenameIPSet: the record is stored under the new name, then the old name
\* is deleted.
Moved(s, q) == [s.ipsets[q.rename] EXCEPT !.name = q.name]

IPSetRename(s, q) ==
  IF q.rename \notin DOMAIN s.ipsets THEN NotFound(s)
  ELSE Done([s EXCEPT !.ipsets = Without(Put(@, q.name, Moved(s, q)), {q.rename})])

IPSetDelete(s, q) ==
  IF q.name \notin DOMAIN s.ipsets THEN NotFound(s)
  ELSE Done([s EXCEPT !.ipsets = Without(@, {q.name})])

EntryAdd(s, q) ==
  IF q.name \notin DOMAIN s.ipsets THEN NotFound(s)
  ELSE Done([s EXCEPT !.ipsets[q.name].entries = @ \union {q.cidr}])

EntryDelete(s, q) ==
  IF q.name \notin DOMAIN s.ipsets \/ q.cidr \notin s.ipsets[q.name].entries
  THEN NotFound(s)
  ELSE Done([s EXCEPT !.ipsets[q.name].entries = @ \ {q.cidr}])

-----------------------------------------------------------------------------
(* storage.cfg: one digest for the file, changed by every write.           *)

\* bumpStorageDigest; the digest prints the version in hexadecimal.
Bump(s) == [s EXCEPT !.version = @ + 1]

\* A zfspool is given a mount point when it is created without one: here the
\* second field of a record whose first, the pool, is set.
Materialised(q) ==
  IF q.zfs /\ q.form["first"] # Empty /\ q.form["second"] = Empty
  THEN [q.form EXCEPT !["second"] = 1] ELSE q.form

DatastoreCreate(s, q) ==
  IF q.id \in DOMAIN s.stores THEN BadRequest(s)
  ELSE Done(Bump([s EXCEPT !.stores = Put(@, q.id, Materialised(q))]))

\* The delete list is applied before the keys that are set.
Edited(rec, q) == Merge(Cleared(rec, q.delete), q.form)

DatastoreUpdateQuietly(s, q) ==
  CASE q.fixed                               -> BadRequest(s)
    [] ~q.fixed /\ q.id \notin DOMAIN s.stores -> NotFound(s)
    [] ~q.fixed /\ q.id \in DOMAIN s.stores  ->
         IF q.digest # 0 /\ q.digest # s.version THEN BadRequest(s)
         ELSE Done([s EXCEPT !.stores[q.id] = Edited(@, q)])
DatastoreUpdate(s, q) ==
  CASE q.fixed                               -> BadRequest(s)
    [] ~q.fixed /\ q.id \notin DOMAIN s.stores -> NotFound(s)
    [] ~q.fixed /\ q.id \in DOMAIN s.stores  ->
         IF q.digest # 0 /\ q.digest # s.version THEN BadRequest(s)
         ELSE Done(Bump([s EXCEPT !.stores[q.id] = Edited(@, q)]))

DatastoreDelete(s, q) ==
  IF q.id \notin DOMAIN s.stores THEN NotFound(s)
  ELSE Done(Bump([s EXCEPT !.stores = Without(@, {q.id})]))

-----------------------------------------------------------------------------
(* The HA switch, cluster formation and the node's certificates.           *)

\* arm-ha clears the mode that disarm-ha recorded.
HAArm(s, q) == Done([s EXCEPT !.armed = TRUE, !.mode = ""])

HADisarm(s, q) ==
  IF q.mode \notin {"freeze", "ignore"} THEN BadRequest(s)
  ELSE Done([s EXCEPT !.armed = FALSE, !.mode = q.mode])

Self == "pve"

ClusterCreate(s, q) ==
  IF s.clustered THEN BadRequest(s)
  ELSE Done([s EXCEPT !.clustered = TRUE, !.members = <<Self>>])

IsMember(s, node) == node \in Range(s.members)

ClusterJoin(s, q) ==
  IF ~q.complete \/ ~s.clustered \/ s.joinQueue = << >> THEN BadRequest(s)
  ELSE LET joined == Head(s.joinQueue)
           popped == [s EXCEPT !.joinQueue = Tail(@)]
       IN  IF IsMember(s, joined) THEN BadRequest(popped)
           ELSE Done([popped EXCEPT !.members = Append(@, joined)])

Frontend == "pveproxy-ssl.pem"

WithoutFrontendCert(certs) == Dropped(certs, {c \in Range(certs) : c.file = Frontend})

Installed(certs, issuer) ==
  Append(WithoutFrontendCert(certs), [file |-> Frontend, issuer |-> issuer])

CertUpload(s, q) == Done([s EXCEPT !.certs = Installed(@, "custom")])
CertDelete(s, q) == Done([s EXCEPT !.certs = WithoutFrontendCert(@)])

\* handleCertACME: an order or a renewal installs a certificate if the node's
\* configuration names a domain, and takes away the one there in any case.
CertACME(s, q) ==
  Done([s EXCEPT !.certs = IF q.revoke \/ acmeSANs(s.config) = {}
                           THEN WithoutFrontendCert(@) ELSE Installed(@, "acme")])

\* handleNodeConfigSet: the digest is a constant here too.
NodeConfigSet(s, q) ==
  IF q.stale THEN BadRequest(s) ELSE Done([s EXCEPT !.config = ApplyConfig(@, q.form)])

-----------------------------------------------------------------------------
(* The cluster's options and the node's package repositories.              *)

\* handleClusterOptionsSet stores the keys of the form.  The scheduler's
\* settings are one key, "crs", whose record of sub-options is replaced whole:
\* a sub-option that SetCRSSettings is not given is gone.
OptionsSet(s, q) == Done([s EXCEPT !.datacenter = Over(q.form, @)])

\* handleRepoUpdate: the entry with that index, from 0, in the files of that
\* path; a form that does not say enabled disables.
RepoUpdate(s, q) ==
  LET hits == {f \in DOMAIN s.repos :
                 s.repos[f].path = q.path /\ q.index + 1 \in DOMAIN s.repos[f].enabled}
  IN  IF hits = {} THEN NotFound(s)
      ELSE Done([s EXCEPT !.repos =
             [f \in DOMAIN @ |-> IF f \in hits
                                 THEN [@[f] EXCEPT !.enabled[q.index + 1] = q.enabled]
                                 ELSE @[f]]])

-----------------------------------------------------------------------------
(* Logins and consoles.  A surface is a node's shell or a guest's console, *)
(* and also the path of its web socket.                                    *)

Surface(node, kind, vmid) == [node |-> node, kind |-> kind, vmid |-> vmid]

Denied(s) == [st |-> s, reply |-> "denied"]

\* The credential of a client with an API token, which tokenCreds always writes
\* in the form that the server looks for.
APIToken == "PVEAPIToken"

\* checkAuth: any API token, or a cookie that this server gave out.
checkAuth(s, user) == user = APIToken \/ user \in s.sessions

\* handleTicket: the ticket is named after the user.
Login(s, q) == IF q.right THEN Done([s EXCEPT !.sessions = @ \union {q.user}]) ELSE Denied(s)

\* mintVNCTicket: one ticket per surface, which remembers where it may dial.
Mint(s, q) ==
  IF ~checkAuth(s, q.user) THEN Denied(s)
  ELSE Done([s EXCEPT !.vncTickets = Put(@, q.surface, q.surface)])

\* handleVNCWebSocket.
Dial(s, q) ==
  IF ~checkAuth(s, q.user) \/ q.ticket \notin DOMAIN s.vncTickets THEN Denied(s)
  ELSE IF s.vncTickets[q.ticket] # q.path THEN Denied(s) ELSE Done(s)

-----------------------------------------------------------------------------
(* Requests, by the family of state they are about.                        *)

Families == {{k} : k \in {"zones", "resources", "haRules", "repl", "groups",
                          "servers", "acmeAccounts", "acmePlugins", "netIfaces",
                          "pools", "zfsPools", "options"}}
            \union {{"vnets", "subnets"}, {"fabrics", "fabricNodes"},
                    {"users", "tokens"}, {"roles"}, {"acls"}, {"jobs"},
                    {"rules"}, {"ipsets"}, {"storage"}, {"switch"},
                    {"cluster"}, {"certs"}, {"nodeconfig"}, {"datacenter"}, {"repos"}}

Privs  == UNION {[1..n -> Names] : n \in 0..1}
Grants == UNION {[1..n -> Names \X Names] : n \in 1..2}
JobIds == 1..MaxLength
Digests == {0, st.version, st.version - 1} \intersect Nat

CollectionRequests ==
  (UNION {{[op |-> op, kind |-> k, key |-> key, form |-> form] :
             op \in Collection[k].ops, key \in Keys(k), form \in Form} :
          k \in family \intersect Kinds})
  \union (IF "tokens" \notin family THEN {} ELSE
            [op : {"TokenUpdate"}, kind : {"tokens"}, key : Keys("tokens"),
             form : Form, comment : BOOLEAN, regenerate : BOOLEAN])
  \union (IF "acmePlugins" \notin family THEN {} ELSE
            [op : {"PluginUpdate"}, kind : {"acmePlugins"}, key : Keys("acmePlugins"),
             form : Form, stale : BOOLEAN, delete : SUBSET Fields])

RoleRequests ==
  [op : {"RoleCreate"}, id : Names, privs : Privs]
  \union [op : {"RoleUpdate"}, id : Names, privs : Privs, append : BOOLEAN]
  \union [op : {"RoleDelete"}, id : Names]

JobRequests ==
  [op : {"JobCreate"}, id : {0} \union JobIds, form : Form]
  \union [op : {"JobUpdate"}, id : JobIds, form : Form]
  \union [op : {"JobDelete"}, id : JobIds]

RuleRequests ==
  [op : {"RuleCreate"}, form : Form]
  \union [op : {"RuleUpdate"}, pos : -1..MaxLength, form : Form]
  \union [op : {"RuleDelete"}, pos : -1..MaxLength]

IPSetRequests ==
  [op : {"IPSetCreate", "IPSetDelete"}, name : Names]
  \union [op : {"IPSetRename"}, name : Names, rename : Names]
  \union [op : {"EntryAdd", "EntryDelete"}, name : Names, cidr : Names]

DatastoreRequests ==
  [op : {"DatastoreCreate"}, id : Names, zfs : BOOLEAN, form : Form]
  \union [op : {"DatastoreUpdate"}, id : Names, digest : Digests, fixed : BOOLEAN,
          delete : SUBSET Fields, form : Form]
  \union [op : {"DatastoreDelete"}, id : Names]

\* What an order looks at: a slot with a domain, with none, or no slot.
CertForms ==
  LET key == ACMEDomainKey(0)
      set(parts, drop) == [acme |-> None, drop |-> FALSE, delete |-> drop,
                           slots |-> [k \in {key} |-> parts]]
  IN  {set(<<Part("domain", "a")>>, {}), set(<<Part("plugin", "p")>>, {key}),
       [set(<< >>, {key}) EXCEPT !.slots = << >>]}

CertRequests ==
  [op : {"CertUpload", "CertDelete"}]
  \union [op : {"CertACME"}, revoke : BOOLEAN]
  \union [op : {"NodeConfigSet"}, stale : BOOLEAN, form : CertForms]

\* Clients that change what they read of the file: write it back, drop a slot
\* that they know, or add one.
ConfigUpdates(c) ==
  LET slot1 == [index |-> 1, domain |-> "a", plugin |-> "", alias |-> ""]
  IN  {WriteBack(c), [WriteBack(c) EXCEPT !.drop = TRUE, !.acme = None],
       NodeConfigUpdate(None, <<slot1>>, {}, FALSE, << >>)}
      \union {NodeConfigUpdate(None, << >>, {key}, FALSE, << >>) :
               key \in DOMAIN c.acmeDomains}

ConfigRequests ==
  {[op |-> "NodeConfigSet", stale |-> FALSE, form |-> ConfigForm(u)] :
     u \in {v \in ConfigUpdates(ReadConfig(st.config)) : ~Refused(v)}}

OptionForms == UNION {[S -> Form] : S \in SUBSET {"crs", "other"}}

Requests ==
  CASE family = {"roles"}   -> RoleRequests
    [] family = {"acls"}    -> [op : {"ACLSet"}, grants : Grants, remove : BOOLEAN]
    [] family = {"jobs"}    -> JobRequests
    [] family = {"rules"}   -> RuleRequests
    [] family = {"ipsets"}  -> IPSetRequests
    [] family = {"storage"} -> DatastoreRequests
    [] family = {"switch"}  -> [op : {"HAArm"}]
                               \union [op : {"HADisarm"}, mode : {"", "freeze", "ignore"}]
    [] family = {"cluster"} -> [op : {"ClusterCreate"}]
                               \union [op : {"ClusterJoin"}, complete : BOOLEAN]
    [] family = {"certs"}   -> CertRequests
    [] family = {"nodeconfig"} -> ConfigRequests
    [] family = {"datacenter"} -> [op : {"OptionsSet"}, form : OptionForms]
    [] family = {"repos"}   -> [op : {"RepoUpdate"}, path : Names, index : -1..2,
                                enabled : BOOLEAN]
    [] OTHER                -> CollectionRequests

\* The routes: which handler serves a request.
Handle(s, q) ==
  CASE q.op = "create"          -> Create(s, q)
    [] q.op = "update"          -> Update(s, q)
    [] q.op = "delete"          -> Delete(s, q)
    [] q.op = "TokenUpdate"     -> TokenUpdate(s, q)
    [] q.op = "PluginUpdate"    -> PluginUpdate(s, q)
    [] q.op = "RoleCreate"      -> RoleCreate(s, q)
    [] q.op = "RoleUpdate"      -> RoleUpdate(s, q)
    [] q.op = "RoleDelete"      -> RoleDelete(s, q)
    [] q.op = "ACLSet"          -> ACLSet(s, q)
    [] q.op = "JobCreate"       -> JobCreate(s, q)
    [] q.op = "JobUpdate"       -> JobUpdate(s, q)
    [] q.op = "JobDelete"       -> JobDelete(s, q)
    [] q.op = "RuleCreate"      -> RuleCreate(s, q)
    [] q.op = "RuleUpdate"      -> RuleUpdate(s, q)
    [] q.op = "RuleDelete"      -> RuleDelete(s, q)
    [] q.op = "IPSetCreate"     -> IPSetCreate(s, q)
    [] q.op = "IPSetRename"     -> IPSetRename(s, q)
    [] q.op = "IPSetDelete"     -> IPSetDelete(s, q)
    [] q.op = "EntryAdd"        -> EntryAdd(s, q)
    [] q.op = "EntryDelete"     -> EntryDelete(s, q)
    [] q.op = "DatastoreCreate" -> DatastoreCreate(s, q)
    [] q.op = "DatastoreUpdate" -> DatastoreUpdate(s, q)
    [] q.op = "DatastoreDelete" -> DatastoreDelete(s, q)
    [] q.op = "HAArm"           -> HAArm(s, q)
    [] q.op = "HADisarm"        -> HADisarm(s, q)
    [] q.op = "ClusterCreate"   -> ClusterCreate(s, q)
    [] q.op = "ClusterJoin"     -> ClusterJoin(s, q)
    [] q.op = "CertUpload"      -> CertUpload(s, q)
    [] q.op = "CertDelete"      -> CertDelete(s, q)
    [] q.op = "CertACME"        -> CertACME(s, q)
    [] q.op = "NodeConfigSet"   -> NodeConfigSet(s, q)
    [] q.op = "OptionsSet"      -> OptionsSet(s, q)
    [] q.op = "RepoUpdate"      -> RepoUpdate(s, q)
    [] q.op = "DatastoreGet"    -> Done(s)
    [] q.op = "Login"           -> Login(s, q)
    [] q.op = "Mint"            -> Mint(s, q)
    [] q.op = "Dial"            -> Dial(s, q)

-----------------------------------------------------------------------------
\* A test seeds the server before serving.  What it seeds that requests cannot
\* make is the names that join, the certificates, the repositories and a node
\* configuration as an administrator may have left it.
Queues == UNION {[1..n -> Names \union {Self}] : n \in 0..3}

PropertyStrings ==
  UNION {[1..n -> {Part("", "a"), Part("", ""), Part("domain", "b"), Part("domain", ""),
                   Part("plugin", "p"), Part("other", "x")}] : n \in 0..2}

ACMEStrings ==
  {None} \union {Some(parts) : parts \in
     UNION {[1..n -> {Part("account", "m"), Part("domains", {"a"}), Part("other", "x")}] :
            n \in 0..2}}

SeedSlots == {SlotKey(0, FALSE), SlotKey(0, TRUE), SlotKey(6, FALSE)}

ConfigFiles ==
  {File(None, slots) : slots \in
     UNION {[S -> PropertyStrings] : S \in {T \in SUBSET SeedSlots : Cardinality(T) <= 2}}}
  \union UNION {{File(acme, [key \in S |-> <<Part("", "a")>>]) : acme \in ACMEStrings} :
                  S \in SUBSET {SlotKey(0, FALSE)}}

Seeded(queue, config) ==
  [recs |-> [k \in Kinds |-> << >>],
   roles |-> << >>, acls |-> << >>, jobs |-> << >>, seq |-> 0,
   rules |-> << >>, ipsets |-> << >>, stores |-> << >>, version |-> 0,
   armed |-> TRUE, mode |-> "",
   clustered |-> FALSE, members |-> << >>, joinQueue |-> queue,
   certs |-> <<[file |-> "pve-ssl.pem", issuer |-> "pve"]>>,
   config |-> config, datacenter |-> << >>, sessions |-> {}, vncTickets |-> << >>,
   repos |-> <<[path |-> CHOOSE n \in Names : TRUE, enabled |-> <<TRUE, FALSE>>]>>]

ServerInit ==
  \/ /\ family \in Families \ {{"cluster"}, {"nodeconfig"}}
     /\ st = Seeded(<< >>, File(None, << >>))
  \/ /\ family = {"cluster"}
     /\ \E queue \in Queues : st = Seeded(queue, File(None, << >>))
  \/ /\ family = {"nodeconfig"}
     /\ \E config \in ConfigFiles : st = Seeded(<< >>, config)

\* Bounds on the lists that only grow.
Small(s) == /\ Len(s.acls) <= MaxLength
            /\ Len(s.rules) <= MaxLength
            /\ \A r \in DOMAIN s.roles : Len(s.roles[r]) <= MaxLength
            /\ s.seq <= MaxLength
            /\ s.version <= MaxVersion

\* A handler serves a request of anyone's.
Serve == /\ family \in Families
         /\ \E q \in Requests : st' = Handle(st, q).st
         /\ Small(st')
         /\ UNCHANGED family

-----------------------------------------------------------------------------
\* A fabric's nodes exist only while the fabric does: handleFabricNodeCreate
\* asks for the fabric and handleFabricDelete takes its nodes with it, so a
\* fabric that is created again starts without members.
NoOrphanedNodes ==
  \A key \in DOMAIN st.recs["fabricNodes"] : Front(key) \in DOMAIN st.recs["fabrics"]

\* What a request leaves behind when the transport sends it twice.  Appends
\* and positions are the exceptions: a rule, a grant, an appended privilege
\* or an unnamed job is added again, a second delete takes the next rule, and
\* a second join takes the next name.
Unrepeatable(q) ==
  \/ q.op \in {"RuleCreate", "RuleDelete", "ClusterJoin"}
  \/ q.op = "ACLSet" /\ ~q.remove
  \/ q.op = "RoleUpdate" /\ q.append
  \/ q.op = "JobCreate" /\ q.id = 0

Contents(s) == [s EXCEPT !.version = 0]

\* Every other request may be served twice in a row and leaves what serving
\* it once leaves, though the second answer may differ: a lost reply and a
\* retry do no harm to it.
RepeatHarmless ==
  family \in Families =>
  \A q \in Requests :
    Unrepeatable(q) \/
    LET once == Handle(st, q).st
    IN  Contents(Handle(once, q).st) = Contents(once)

\* Whatever is in the file, reading it with the SDK and writing it all back
\* leaves what was read: each slot is typed or kept in Extra and none is lost,
\* two keys never become one slot, and afterwards the server orders for the
\* names the client read (before, the two may read one string differently).
\* The write is refused only for a slot that PVE does not have or an acme value
\* that would be cleared.
ConfigRoundTrips ==
  family = {"nodeconfig"} =>
    LET c == ReadConfig(st.config)
        u == WriteBack(c)
        f == ApplyConfig(st.config, ConfigForm(u))
    IN  IF Refused(u)
        THEN \/ \E key \in DOMAIN c.acmeDomains : key.n > ACMEDomainMaxIndex
             \/ \E i \in DOMAIN c.acme : c.acme[i] = parseNodeACME(<< >>)
        ELSE /\ ReadConfig(f) = c
             /\ Believed(c) \subseteq acmeSANs(f)
             /\ acmeSANs(f) \ Believed(c) \subseteq acmeSANs(File(None, c.extra))
=============================================================================
